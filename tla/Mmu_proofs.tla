----------------------------- MODULE Mmu_proofs -----------------------------
(***************************************************************************)
(* Proofs about Mmu, for tables of any size, any memory map and any        *)
(* content of memory.                                                      *)
(***************************************************************************)
EXTENDS Mmu, TLAPS

Memory == [Address -> Words]

(* The frame of an address tells whether it is an address. *)
LEMMA FrameAddress ==
  ASSUME NEW a \in Int, a \div Entries \in 0 .. (Frames - 1)
  PROVE  a \in Address
<1> DEFINE q == a \div Entries
<1>1. Entries \in Nat /\ Entries > 0 /\ Frames \in Int
  BY MmuAssumption DEF Frames
<1>2. /\ q \in Int /\ 0 <= q /\ q <= Frames - 1
      /\ q * Entries <= a /\ a < q * Entries + Entries
  BY <1>1
<1> HIDE DEF q
<1>3. q * Entries >= 0
  BY <1>1, <1>2
<1>4. q * Entries + Entries <= Frames * Entries
  <2>1. Frames - 1 - q \in Nat
    BY <1>1, <1>2
  <2>2. (Frames - 1 - q) * Entries >= 0
    BY <1>1, <2>1
  <2>3. (Frames - 1 - q) * Entries = Frames * Entries - Entries - q * Entries
    BY <1>1, <1>2
  <2>4. QED
    BY <1>1, <1>2, <2>2, <2>3
<1>5. Frames * Entries \in Int
  BY <1>1
<1> DEFINE n == Frames * Entries
           e == q * Entries
<1>6. /\ e \in Int /\ e >= 0 /\ e <= a /\ a < e + Entries
      /\ e + Entries <= n /\ n \in Int
  BY <1>1, <1>2, <1>3, <1>4, <1>5
<1>7. Address = 0 .. (n - 1)
  BY DEF Address
<1> HIDE DEF n, e
<1>8. QED
  BY <1>1, <1>6, <1>7

(* Every word of an access that the bus accepts is in a resource, and a    *)
(* write is in RAM.                                                        *)
LEMMA AcceptsFacts ==
  ASSUME NEW pa \in Int, NEW size \in Int, NEW type, Accepts(pa, size, type),
         NEW a \in pa .. (pa + size - 1)
  PROVE  /\ a \in Address
         /\ type = "write" => a \div Entries \in Ram
<1>1. a \in Int /\ a \div Entries \in Ram \cup Rom
  BY DEF Accepts
<1>2. a \in Address
  BY <1>1, FrameAddress, MmuAssumption
<1>3. QED
  BY <1>2 DEF Accepts

(***************************************************************************)
(* What a walk finds                                                       *)
(***************************************************************************)

(* A translation over memory `m` that found an entry gives it the flags of *)
(* STEP 7, and changes none that is not in RAM.                            *)
Outcome(m, type, r) ==
  /\ r.pa \in Int
  /\ r.at # NoEntry =>
       /\ r.at \in Address
       /\ r.flags = Mark(m[r.at].flags, type)
       /\ r.flags # m[r.at].flags => r.at \div Entries \in Ram

(* Numbers of pages and words are positive. *)
LEMMA Sizes ==
  /\ Entries \in Nat /\ Entries > 0
  /\ Frames \in Nat /\ Frames > 0
  /\ Address \subseteq Nat
  /\ NoEntry \notin Address
<1>1. Entries \in Nat /\ Entries > 0
  BY MmuAssumption
<1>2. Frames \in Nat /\ Frames > 0
  BY <1>1 DEF Frames
<1>3. QED
  BY <1>1, <1>2 DEF Address, NoEntry

LEMMA PageAddressType ==
  ASSUME NEW ppn \in Int
  PROVE  PageAddress(ppn) \in Int
BY Sizes DEF PageAddress

LEMMA VpnType ==
  ASSUME NEW va \in Address, NEW level
  PROVE  Vpn(va, level) \in Int
<1>1. va \in Int /\ Entries * Entries \in Int /\ Entries * Entries > 0
  BY Sizes DEF Frames
<1> DEFINE n == Entries * Entries
<1>2. va \div n \in Int
  <2> HIDE DEF n
  <2> QED BY <1>1 DEF n
<1>3. (va \div Entries) % Entries \in Int
  BY <1>1, Sizes
<1>4. QED
  BY <1>2, <1>3 DEF Vpn

LEMMA LeafOutcome ==
  ASSUME NEW m \in Memory, NEW at \in Address, NEW va \in Address, NEW level,
         NEW type, NEW privilege
  PROVE  Outcome(m, type, Leaf(m, at, va, level, type, privilege))
<1> DEFINE flags == Mark(m[at].flags, type)
           ppn == IF level = 0 THEN m[at].ppn ELSE m[at].ppn + (Vpn(va, level) % Entries)
           pa == PageAddress(ppn) + (va % Entries)
           r == [fault |-> "none", pa |-> pa, at |-> at, flags |-> flags]
<1>1. m[at].ppn \in Int
  BY MmuAssumption DEF Memory, Words
<1>2. ppn \in Int /\ va % Entries \in Int
  <2>1. Vpn(va, level) \in Int /\ va \in Int
    BY VpnType, Sizes
  <2>2. Vpn(va, level) % Entries \in Int /\ va % Entries \in Int
    BY <2>1, Sizes
  <2>3. QED
    BY <1>1, <2>2
<1>3. pa \in Int
  <2> HIDE DEF ppn
  <2> QED BY <1>2, PageAddressType
<1>4. CASE Leaf(m, at, va, level, type, privilege) = r /\ (flags = m[at].flags \/ Accepts(at, 1, "write"))
  <2>1. flags # m[at].flags => at \div Entries \in Ram
    <3>1. at \in Int /\ at \in at .. (at + 1 - 1)
      BY Sizes
    <3>2. Accepts(at, 1, "write") => at \div Entries \in Ram
      BY <3>1, AcceptsFacts
    <3>3. QED
      BY <1>4, <3>2
  <2> HIDE DEF pa
  <2>2. QED
    BY <1>3, <1>4, <2>1 DEF Outcome
<1>5. CASE \E kind \in {"page", "access"} : Leaf(m, at, va, level, type, privilege) = Fault(kind)
  BY <1>5 DEF Outcome, Fault
<1>6. QED
  BY <1>4, <1>5, Zenon DEF Leaf

LEMMA TranslateOutcome ==
  ASSUME NEW m \in Memory, NEW va \in Address, NEW type, NEW privilege, csr.root \in Int
  PROVE  Outcome(m, type, Translate(m, va, type, privilege))
<1>1. \A kind : Outcome(m, type, Fault(kind))
  BY DEF Outcome, Fault
<1>2. Outcome(m, type, Untranslated(va))
  BY Sizes DEF Outcome, Untranslated
<1>3. ASSUME NEW table \in Int, NEW level, Accepts(EntryAddress(table, va, level), 1, "read")
      PROVE  EntryAddress(table, va, level) \in Address
  <2> DEFINE at == EntryAddress(table, va, level)
  <2>1. at \in Int
    BY VpnType DEF EntryAddress
  <2>2. at \in at .. (at + 1 - 1)
    BY <2>1
  <2> HIDE DEF at
  <2>3. QED
    BY <1>3, <2>1, <2>2, AcceptsFacts DEF at
<1>4. ASSUME NEW table \in Int
      PROVE  Outcome(m, type, WalkTable(m, table, va, type, privilege))
  BY <1>1, <1>3, LeafOutcome DEF WalkTable
<1>5. Outcome(m, type, WalkRoot(m, va, type, privilege))
  <2> DEFINE table == PageAddress(csr.root)
             at == EntryAddress(table, va, 1)
  <2>1. table \in Int
    BY PageAddressType
  <2>2. CASE ~Accepts(at, 1, "read")
    BY <2>2, <1>1 DEF WalkRoot
  <2>3. CASE Accepts(at, 1, "read")
    <3>1. at \in Address
      BY <2>1, <2>3, <1>3
    <3>2. PageAddress(m[at].ppn) \in Int
      BY <3>1, MmuAssumption, PageAddressType DEF Memory, Words
    <3>3. QED
      BY <2>3, <3>1, <3>2, <1>1, <1>4, LeafOutcome DEF WalkRoot
  <2>4. QED
    BY <2>2, <2>3
<1>6. QED
  BY <1>2, <1>5 DEF Translate

(***************************************************************************)
(* What an access does to memory                                           *)
(***************************************************************************)

(* Memory `m` has the type of memory, keeps ROM, and says of each entry of *)
(* `d` that it was written through: TypeOK, RomKept and DirtyKept of a     *)
(* memory in the middle of a step.                                         *)
Kept(m, d) ==
  /\ m \in Memory
  /\ d \subseteq Address
  /\ \A a \in Address : a \div Entries \in Rom => m[a] = Image[a]
  /\ \A at \in d : {"A", "D"} \subseteq m[at].flags

(* STEP 7 gives flags, changes nothing of an entry that has both marks,    *)
(* and after a write both are there.                                       *)
LEMMA MarkFacts ==
  ASSUME NEW flags \in SUBSET Flags, NEW type
  PROVE  /\ Mark(flags, type) \in SUBSET Flags
         /\ {"A", "D"} \subseteq flags => Mark(flags, type) = flags
         /\ {"A", "D"} \subseteq Mark(flags, "write")
BY DEF Mark, Flags

(* Marking an entry keeps what Kept says. *)
LEMMA MarkedKept ==
  ASSUME NEW m, NEW d, Kept(m, d), NEW type, NEW r, Outcome(m, type, r)
  PROVE  Kept(Marked(m, r), d)
<1>1. CASE r.at = NoEntry
  BY <1>1 DEF Marked
<1>2. CASE r.at # NoEntry
  <2> DEFINE n == [m EXCEPT ![r.at].flags = r.flags]
  <2>1. /\ m \in Memory
        /\ r.at \in Address
        /\ r.flags = Mark(m[r.at].flags, type)
        /\ r.flags # m[r.at].flags => r.at \div Entries \in Ram
    BY <1>2 DEF Kept, Outcome
  <2>2. m[r.at].flags \in SUBSET Flags
    BY <2>1 DEF Memory, Words
  <2>3. r.flags \in SUBSET Flags /\ ({"A", "D"} \subseteq m[r.at].flags => r.flags = m[r.at].flags)
    BY <2>1, <2>2, MarkFacts
  <2>4. n \in Memory
    BY <2>1, <2>3 DEF Memory, Words
  <2>5. \A a \in Address : a # r.at => n[a] = m[a]
    BY <2>1 DEF Memory
  <2>6. n[r.at].flags = r.flags
    BY <2>1 DEF Memory, Words
  <2>7. r.flags = m[r.at].flags => n[r.at] = m[r.at]
    BY <2>1 DEF Memory, Words
  <2>8. ASSUME NEW a \in Address, a \div Entries \in Rom
        PROVE  n[a] = Image[a]
    <3>1. m[a] = Image[a]
      BY <2>8 DEF Kept
    <3>2. CASE a = r.at
      BY <3>1, <3>2, <2>1, <2>7, <2>8, MmuAssumption
    <3>3. QED
      BY <3>1, <3>2, <2>5
  <2>9. ASSUME NEW at \in d
        PROVE  {"A", "D"} \subseteq n[at].flags
    <3>1. at \in Address /\ {"A", "D"} \subseteq m[at].flags
      BY DEF Kept
    <3> HIDE DEF n
    <3>2. QED
      BY <3>1, <2>3, <2>5, <2>6
  <2>10. Marked(m, r) = n
    BY <1>2 DEF Marked
  <2> HIDE DEF n
  <2>11. QED
    BY <2>4, <2>8, <2>9, <2>10 DEF Kept
<1>3. QED
  BY <1>1, <1>2

(* A refused access found the same entry as the translation did. *)
LEMMA AccessOutcome ==
  ASSUME NEW m \in Memory, NEW va \in Address, NEW size, NEW type, NEW privilege,
         csr.root \in Int
  PROVE  /\ Outcome(m, type, Access(m, va, size, type, privilege))
         /\ Access(m, va, size, type, privilege).fault = "none" =>
              Accepts(Access(m, va, size, type, privilege).pa, size, type)
<1> DEFINE r == Translate(m, va, type, privilege)
           f == [fault |-> "access", pa |-> 0, at |-> r.at, flags |-> r.flags]
<1>1. Outcome(m, type, r)
  BY TranslateOutcome
<1>2. CASE r.fault = "none" /\ ~Accepts(r.pa, size, type)
  <2>1. Access(m, va, size, type, privilege) = f
    BY <1>2 DEF Access, Fault
  <2>2. Outcome(m, type, f)
    BY <1>1 DEF Outcome
  <2>3. QED
    BY <2>1, <2>2
<1>3. CASE ~(r.fault = "none" /\ ~Accepts(r.pa, size, type))
  <2>1. Access(m, va, size, type, privilege) = r
    BY <1>3 DEF Access
  <2>2. QED
    BY <1>1, <1>3, <2>1
<1>4. QED
  BY <1>2, <1>3

(* So does writing the page that a store's access led to, for the entries  *)
(* that are not themselves written, and for the access's own entry.        *)
LEMMA WrittenKept ==
  ASSUME NEW m, NEW d, Kept(m, d), NEW r, Outcome(m, "write", r),
         NEW size \in {1, 2}, NEW value \in Values, Accepts(r.pa, size, "write")
  PROVE  Kept(Written(m, r, size, value),
              (d \cup ({r.at} \ {NoEntry})) \ (r.pa .. (r.pa + size - 1)))
<1> DEFINE marked == Marked(m, r)
           area == r.pa .. (r.pa + size - 1)
           entries == {r.at} \ {NoEntry}
           n == [a \in Address |-> IF a \in area THEN value ELSE marked[a]]
<1>1. Kept(marked, d)
  BY MarkedKept
<1>2. ({"A", "D"} \subseteq marked[r.at].flags /\ r.at \in Address) \/ entries = {}
  <2>1. CASE r.at = NoEntry
    BY <2>1
  <2>2. CASE r.at # NoEntry
    <3>1. r.at \in Address /\ r.flags = Mark(m[r.at].flags, "write") /\ m \in Memory
      BY <2>2 DEF Outcome, Kept
    <3>2. marked[r.at].flags = r.flags
      BY <2>2, <3>1 DEF Marked, Memory, Words
    <3>3. m[r.at].flags \in SUBSET Flags
      BY <3>1 DEF Memory, Words
    <3>4. QED
      BY <3>1, <3>2, <3>3, MarkFacts
  <2>3. QED
    BY <2>1, <2>2
<1>3. \A a \in area : a \in Address /\ a \div Entries \in Ram
  BY AcceptsFacts DEF Outcome
<1> HIDE DEF marked, area, entries
<1>4. n \in Memory
  BY <1>1, MmuAssumption DEF Kept, Memory
<1>5. ASSUME NEW a \in Address, a \div Entries \in Rom
      PROVE  n[a] = Image[a]
  <2>1. a \notin area
    BY <1>3, <1>5, MmuAssumption
  <2>2. QED
    BY <1>1, <1>5, <2>1 DEF Kept
<1>6. (d \cup entries) \ area \subseteq Address
  BY <1>1, <1>2 DEF Kept, entries
<1>7. ASSUME NEW at \in (d \cup entries) \ area
      PROVE  {"A", "D"} \subseteq n[at].flags
  <2>1. at \in Address /\ {"A", "D"} \subseteq marked[at].flags
    BY <1>1, <1>2 DEF Kept, entries
  <2>2. n[at] = marked[at]
    BY <2>1
  <2>3. QED
    BY <2>1, <2>2
<1>8. Written(m, r, size, value) = n
  BY DEF Written, marked, area
<1> HIDE DEF n
<1>9. QED
  BY <1>4, <1>5, <1>6, <1>7, <1>8 DEF Kept, area, entries

(***************************************************************************)
(* The invariant                                                           *)
(***************************************************************************)

IInv ==
  /\ Kept(mem, dirty)
  /\ csr \in [paging : BOOLEAN, root : 0 .. (Ppns - 1), sum : BOOLEAN, mxr : BOOLEAN]
  /\ stores \in 0 .. MaxStores

(* Both outcomes of a store. *)
LEMMA PutKept ==
  ASSUME IInv, NEW m, Kept(m, dirty), NEW va \in Address, NEW size \in {1, 2},
         NEW value \in Values, NEW privilege, Put(m, va, size, value, privilege)
  PROVE  Kept(mem, dirty)' /\ stores' \in 0 .. MaxStores
<1> DEFINE r == Access(m, va, size, "write", privilege)
<1>1. Outcome(m, "write", r) /\ (r.fault = "none" => Accepts(r.pa, size, "write"))
  BY AccessOutcome, MmuAssumption DEF Kept, IInv
<1>2. CASE r.fault = "none"
  <2>1. /\ stores < MaxStores
        /\ stores' = stores + 1
        /\ mem' = Written(m, r, size, value)
        /\ dirty' = (dirty \cup ({r.at} \ {NoEntry})) \ (r.pa .. (r.pa + size - 1))
    BY <1>2 DEF Put
  <2> HIDE DEF r
  <2>2. Kept(mem', dirty')
    BY <1>1, <1>2, <2>1, WrittenKept
  <2>3. stores' \in 0 .. MaxStores
    BY <2>1, MmuAssumption DEF IInv
  <2>4. QED
    BY <2>2, <2>3 DEF Kept
<1>3. CASE r.fault # "none"
  <2>1. mem' = Marked(m, r) /\ dirty' = dirty /\ stores' = stores
    BY <1>3 DEF Put
  <2> HIDE DEF r
  <2>2. Kept(mem', dirty')
    BY <1>1, <2>1, MarkedKept
  <2>3. QED
    BY <2>1, <2>2 DEF Kept, IInv
<1>4. QED
  BY <1>2, <1>3

(* A load, or the first half of an AMO, leaves a memory that is kept. *)
LEMMA LoadKept ==
  ASSUME IInv, NEW va \in Address, NEW size, NEW type, NEW privilege
  PROVE  Kept(Marked(mem, Access(mem, va, size, type, privilege)), dirty)
<1>1. Outcome(mem, type, Access(mem, va, size, type, privilege))
  BY AccessOutcome, MmuAssumption DEF Kept, IInv
<1>2. QED
  BY <1>1, MarkedKept DEF IInv

LEMMA InitIInv == Init => IInv
<1> SUFFICES ASSUME Init PROVE IInv
  OBVIOUS
<1>1. Kept(mem, dirty)
  BY MmuAssumption DEF Init, Kept, Memory
<1>2. 0 \in 0 .. (Ppns - 1) /\ 0 \in 0 .. MaxStores
  BY MmuAssumption
<1>3. QED
  BY <1>1, <1>2 DEF Init, IInv

LEMMA NextIInv == IInv /\ [Next]_vars => IInv'
<1> SUFFICES ASSUME IInv, [Next]_vars PROVE IInv'
  OBVIOUS
<1>1. ASSUME NEW va \in Address, NEW size, NEW type, NEW privilege, Load(va, size, type, privilege)
      PROVE  IInv'
  <2>1. Kept(mem', dirty')
    BY <1>1, LoadKept DEF Load
  <2>2. QED
    BY <1>1, <2>1 DEF Load, IInv, Kept
<1>2. ASSUME NEW va \in Address, NEW size \in {1, 2}, NEW value \in Values, NEW privilege,
             Store(va, size, value, privilege)
      PROVE  IInv'
  <2>1. Kept(mem, dirty)' /\ stores' \in 0 .. MaxStores
    <3>1. Kept(mem, dirty) /\ Put(mem, va, size, value, privilege)
      BY <1>2 DEF IInv, Store
    <3>2. QED
      BY <3>1, PutKept
  <2>2. QED
    BY <1>2, <2>1 DEF Store, IInv
<1>3. ASSUME NEW va \in Address, NEW value \in Values, NEW privilege, Amo(va, value, privilege)
      PROVE  IInv'
  <2> DEFINE r == Access(mem, va, 1, "read", privilege)
  <2>1. Kept(Marked(mem, r), dirty)
    BY LoadKept
  <2>2. csr' = csr
    BY <1>3 DEF Amo
  <2>3. CASE r.fault = "none"
    <3>1. Put(Marked(mem, r), va, 1, value, privilege)
      BY <1>3, <2>3 DEF Amo
    <3> HIDE DEF r
    <3>2. Kept(mem, dirty)' /\ stores' \in 0 .. MaxStores
      BY <2>1, <3>1, PutKept
    <3>3. QED
      BY <2>2, <3>2 DEF IInv
  <2>4. CASE r.fault # "none"
    <3>1. mem' = Marked(mem, r) /\ dirty' = dirty /\ stores' = stores
      BY <1>3, <2>4 DEF Amo
    <3> HIDE DEF r
    <3>2. Kept(mem', dirty')
      BY <2>1, <3>1
    <3>3. QED
      BY <2>2, <3>1, <3>2 DEF IInv, Kept
  <2>5. QED
    BY <2>3, <2>4
<1>4. ASSUME NEW paging \in BOOLEAN, NEW sum \in BOOLEAN, NEW mxr \in BOOLEAN, NEW root \in Roots,
             WriteCsr(paging, root, sum, mxr)
      PROVE  IInv'
  BY <1>4, MmuAssumption DEF WriteCsr, IInv, Kept
<1>5. CASE UNCHANGED vars
  BY <1>5 DEF vars, IInv, Kept
<1>6. QED
  BY <1>1, <1>2, <1>3, <1>4, <1>5 DEF Next

LEMMA SpecIInv == Spec => []IInv
BY InitIInv, NextIInv, PTL DEF Spec

LEMMA IInvImplies == IInv => TypeOK /\ RomKept /\ DirtyKept
BY DEF IInv, Kept, Memory, TypeOK, RomKept, DirtyKept

(* Memory holds words, and a walk never marks or writes what is not        *)
(* memory, wherever a page number points (read_pte, write_pte).            *)
THEOREM TypeCorrect == Spec => []TypeOK
BY SpecIInv, IInvImplies, PTL

(* No access of any level changes the boot ROM or the flash: neither a     *)
(* store, nor a mark in a table that is there.                             *)
THEOREM RomCorrect == Spec => []RomKept
BY SpecIInv, IInvImplies, PTL

(* An entry that a store went through says so until a program writes it,   *)
(* in tables of any size and shape, with any program (STEP 7).             *)
THEOREM DirtyCorrect == Spec => []DirtyKept
BY SpecIInv, IInvImplies, PTL

(***************************************************************************)
(* Marks and translations                                                  *)
(***************************************************************************)

(* Memories that differ in the marks of entries in RAM only. *)
Same(m, n) ==
  \A a \in Address :
    /\ n[a].ppn = m[a].ppn
    /\ \A f \in {"V", "R", "W", "X", "U"} : f \in n[a].flags <=> f \in m[a].flags
    /\ n[a].flags # m[a].flags => a \div Entries \in Ram

(* Translations that a program cannot tell from each other. *)
Agree(r, s) == s.fault = r.fault /\ s.pa = r.pa /\ s.at = r.at

LEMMA MarkedSame ==
  ASSUME NEW m \in Memory, NEW type, NEW r, Outcome(m, type, r)
  PROVE  Same(m, Marked(m, r))
<1>1. CASE r.at = NoEntry
  BY <1>1 DEF Marked, Same
<1>2. CASE r.at # NoEntry
  <2> DEFINE n == Marked(m, r)
  <2>1. /\ r.at \in Address
        /\ r.flags = Mark(m[r.at].flags, type)
        /\ r.flags # m[r.at].flags => r.at \div Entries \in Ram
    BY <1>2 DEF Outcome
  <2>2. \A f \in {"V", "R", "W", "X", "U"} : f \in r.flags <=> f \in m[r.at].flags
    BY <2>1 DEF Mark
  <2>3. \A a \in Address : a # r.at => n[a] = m[a]
    BY <1>2, <2>1 DEF Marked, Memory
  <2>4. n[r.at].flags = r.flags /\ n[r.at].ppn = m[r.at].ppn
    BY <1>2, <2>1 DEF Marked, Memory, Words
  <2> HIDE DEF n
  <2>5. Same(m, n)
    BY <2>1, <2>2, <2>3, <2>4 DEF Same
  <2>6. QED
    BY <2>5 DEF n
<1>3. QED
  BY <1>1, <1>2

LEMMA SameTransitive ==
  ASSUME NEW m, NEW n, NEW o, Same(m, n), Same(n, o)
  PROVE  Same(m, o)
BY DEF Same

(* Whether the bus takes the marks of an entry does not depend on them:    *)
(* where they differ the entry is in RAM, and RAM takes every write.       *)
LEMMA LeafSame ==
  ASSUME NEW m, NEW n, Same(m, n), NEW at \in Address, NEW va, NEW level,
         NEW type \in AccessType, NEW privilege
  PROVE  Agree(Leaf(m, at, va, level, type, privilege), Leaf(n, at, va, level, type, privilege))
<1>1. /\ n[at].ppn = m[at].ppn
      /\ \A f \in {"V", "R", "W", "X", "U"} : f \in n[at].flags <=> f \in m[at].flags
      /\ n[at].flags # m[at].flags => at \div Entries \in Ram
  BY DEF Same
<1>2. Allowed(n[at], type, privilege) <=> Allowed(m[at], type, privilege)
  BY <1>1 DEF Allowed, AccessType
<1>3. n[at].flags # m[at].flags => Accepts(at, 1, "write")
  <2>1. at .. (at + 1 - 1) = {at}
    BY Sizes
  <2>2. QED
    BY <1>1, <2>1 DEF Accepts
<1>4. CASE ~Allowed(m[at], type, privilege) \/ (level # 0 /\ m[at].ppn % Entries # 0)
  <2>1. /\ Leaf(m, at, va, level, type, privilege) = Fault("page")
        /\ Leaf(n, at, va, level, type, privilege) = Fault("page")
    BY <1>1, <1>2, <1>4 DEF Leaf
  <2>2. QED
    BY <2>1 DEF Agree
<1>5. CASE ~(~Allowed(m[at], type, privilege) \/ (level # 0 /\ m[at].ppn % Entries # 0))
  <2> DEFINE refused(w) == Mark(w[at].flags, type) # w[at].flags /\ ~Accepts(at, 1, "write")
             ppn == IF level = 0 THEN m[at].ppn ELSE m[at].ppn + (Vpn(va, level) % Entries)
             result(w) == [fault |-> "none", pa |-> PageAddress(ppn) + (va % Entries),
                           at |-> at, flags |-> Mark(w[at].flags, type)]
  <2>1. Leaf(m, at, va, level, type, privilege) = IF refused(m) THEN Fault("access") ELSE result(m)
    BY <1>5 DEF Leaf
  <2>2. Leaf(n, at, va, level, type, privilege) = IF refused(n) THEN Fault("access") ELSE result(n)
    BY <1>1, <1>2, <1>5 DEF Leaf
  <2>3. refused(n) <=> refused(m)
    BY <1>3
  <2>4. Agree(result(m), result(n)) /\ Agree(Fault("access"), Fault("access"))
    BY DEF Agree
  <2> HIDE DEF refused, result
  <2>5. QED
    BY <2>1, <2>2, <2>3, <2>4
<1>6. QED
  BY <1>4, <1>5

LEMMA TranslateSame ==
  ASSUME NEW m, NEW n, Same(m, n), NEW va \in Address, NEW type \in AccessType,
         NEW privilege, csr.root \in Int, m \in Memory
  PROVE  Agree(Translate(m, va, type, privilege), Translate(n, va, type, privilege))
<1>1. \A r : Agree(r, r)
  BY DEF Agree
<1>2. ASSUME NEW table \in Int, NEW level, Accepts(EntryAddress(table, va, level), 1, "read")
      PROVE  EntryAddress(table, va, level) \in Address
  <2> DEFINE at == EntryAddress(table, va, level)
  <2>1. at \in Int
    BY VpnType DEF EntryAddress
  <2>2. at \in at .. (at + 1 - 1)
    BY <2>1
  <2> HIDE DEF at
  <2>3. QED
    BY <1>2, <2>1, <2>2, AcceptsFacts DEF at
<1>3. \A at \in Address : /\ Invalid(n[at]) <=> Invalid(m[at])
                          /\ Pointer(n[at]) <=> Pointer(m[at])
                          /\ n[at].ppn = m[at].ppn
  BY DEF Same, Invalid, Pointer
<1>4. ASSUME NEW table \in Int
      PROVE  Agree(WalkTable(m, table, va, type, privilege), WalkTable(n, table, va, type, privilege))
  <2> DEFINE at == EntryAddress(table, va, 0)
  <2>1. CASE ~Accepts(at, 1, "read")
    BY <2>1, <1>1 DEF WalkTable
  <2>2. CASE Accepts(at, 1, "read")
    <3>1. at \in Address
      BY <2>2, <1>2
    <3>2. Agree(Leaf(m, at, va, 0, type, privilege), Leaf(n, at, va, 0, type, privilege))
      BY <3>1, LeafSame
    <3>3. QED
      BY <2>2, <3>1, <3>2, <1>1, <1>3 DEF WalkTable
  <2>3. QED
    BY <2>1, <2>2
<1>5. Agree(WalkRoot(m, va, type, privilege), WalkRoot(n, va, type, privilege))
  <2> DEFINE table == PageAddress(csr.root)
             at == EntryAddress(table, va, 1)
  <2>1. table \in Int
    BY PageAddressType
  <2>2. CASE ~Accepts(at, 1, "read")
    BY <2>2, <1>1 DEF WalkRoot
  <2>3. CASE Accepts(at, 1, "read")
    <3>1. at \in Address
      BY <2>1, <2>3, <1>2
    <3>2. PageAddress(m[at].ppn) \in Int
      BY <3>1, MmuAssumption, PageAddressType DEF Memory, Words
    <3>3. Agree(Leaf(m, at, va, 1, type, privilege), Leaf(n, at, va, 1, type, privilege))
      BY <3>1, LeafSame
    <3>4. Agree(WalkTable(m, PageAddress(m[at].ppn), va, type, privilege),
                WalkTable(n, PageAddress(m[at].ppn), va, type, privilege))
      BY <3>2, <1>4
    <3>5. QED
      BY <2>3, <3>1, <3>3, <3>4, <1>1, <1>3 DEF WalkRoot
  <2>4. QED
    BY <2>2, <2>3
<1>6. QED
  BY <1>1, <1>5 DEF Translate

(* A step that stores nothing leaves memory the same but for marks: a      *)
(* load, a store that is refused, and either half of an AMO.               *)
LEMMA StepSame ==
  ASSUME IInv, [Next]_vars, stores' = stores
  PROVE  Same(mem, mem')
<1>1. \A m : Same(m, m)
  BY DEF Same
<1>2. mem \in Memory /\ csr.root \in Int /\ stores \in Nat
  BY MmuAssumption DEF IInv, Kept
<1>3. ASSUME NEW m \in Memory, NEW va \in Address, NEW size, NEW type, NEW privilege
      PROVE  Same(m, Marked(m, Access(m, va, size, type, privilege)))
  BY <1>2, AccessOutcome, MarkedSame
<1>4. ASSUME NEW m \in Memory, NEW va \in Address, NEW size, NEW value, NEW privilege,
             Put(m, va, size, value, privilege)
      PROVE  Same(m, mem')
  <2>1. mem' = Marked(m, Access(m, va, size, "write", privilege))
    BY <1>2, <1>4 DEF Put
  <2>2. QED
    BY <2>1, <1>3
<1>5. ASSUME NEW va \in Address, NEW size, NEW type, NEW privilege, Load(va, size, type, privilege)
      PROVE  Same(mem, mem')
  BY <1>2, <1>3, <1>5 DEF Load
<1>6. ASSUME NEW va \in Address, NEW size, NEW value, NEW privilege,
             Store(va, size, value, privilege)
      PROVE  Same(mem, mem')
  BY <1>2, <1>4, <1>6 DEF Store
<1>7. ASSUME NEW va \in Address, NEW value, NEW privilege, Amo(va, value, privilege)
      PROVE  Same(mem, mem')
  <2> DEFINE r == Access(mem, va, 1, "read", privilege)
  <2>1. Same(mem, Marked(mem, r))
    BY <1>2, <1>3
  <2>2. Marked(mem, r) \in Memory
    BY LoadKept DEF Kept
  <2> HIDE DEF r
  <2>3. CASE mem' = Marked(mem, r)
    BY <2>1, <2>3
  <2>4. CASE Put(Marked(mem, r), va, 1, value, privilege)
    BY <2>1, <2>2, <2>4, <1>4, SameTransitive
  <2>5. QED
    BY <1>7, <2>3, <2>4 DEF Amo, r
<1>8. ASSUME NEW paging, NEW sum, NEW mxr, NEW root, WriteCsr(paging, root, sum, mxr)
      PROVE  Same(mem, mem')
  BY <1>1, <1>8 DEF WriteCsr
<1>9. CASE UNCHANGED vars
  BY <1>1, <1>9 DEF vars
<1>10. QED
  BY <1>5, <1>6, <1>7, <1>8, <1>9 DEF Next

(* An access that stores nothing changes no later translation, whatever    *)
(* the tables are and wherever they are mapped (STEP 7).                   *)
THEOREM MarksMoveNothing == Spec => LoadsMoveNothing
<1> DEFINE Moved == mem' # mem /\ stores' = stores =>
       \A va \in Address, type \in AccessType, privilege \in {User, Supervisor} :
         LET old == Translate(mem, va, type, privilege)
             new == Translate(mem', va, type, privilege)
         IN new.fault = old.fault /\ new.pa = old.pa /\ new.at = old.at
<1>1. ASSUME IInv, [Next]_vars
      PROVE  [Moved]_vars
  <2> SUFFICES ASSUME mem' # mem, stores' = stores,
                      NEW va \in Address, NEW type \in AccessType, NEW privilege \in {User, Supervisor}
               PROVE  Agree(Translate(mem, va, type, privilege), Translate(mem', va, type, privilege))
    BY DEF Agree
  <2>1. Same(mem, mem')
    BY <1>1, StepSame
  <2>2. mem \in Memory /\ csr.root \in Int
    BY <1>1, MmuAssumption DEF IInv, Kept
  <2>3. QED
    BY <2>1, <2>2, TranslateSame
<1>2. QED
  BY <1>1, SpecIInv, PTL DEF Spec, LoadsMoveNothing

(***************************************************************************)
(* Two-level translations                                                  *)
(***************************************************************************)

(* The quotient and the remainder of a sum that names them. *)
LEMMA DivisionIsUnique ==
  ASSUME NEW q \in Int, NEW e \in Nat, e > 0, NEW o \in 0 .. (e - 1)
  PROVE  (q * e + o) \div e = q /\ (q * e + o) % e = o
<1> DEFINE a == q * e + o
           d == a \div e
<1>1. /\ q * e \in Int /\ a \in Int /\ a = q * e + o /\ o \in Int /\ 0 <= o /\ o < e
  OBVIOUS
<1>2. /\ d \in Int /\ d * e \in Int
      /\ d * e <= a /\ a < d * e + e
      /\ a % e = a - d * e
  <2> HIDE DEF a
  <2> QED BY <1>1
<1> HIDE DEF a, d
<1>3. ~(d < q)
  <2> SUFFICES ASSUME d < q PROVE FALSE
    OBVIOUS
  <2>1. q - 1 - d \in Nat
    BY <1>2
  <2>2. (q - 1 - d) * e >= 0
    BY <2>1
  <2>3. (q - 1 - d) * e = q * e - e - d * e
    BY <1>2
  <2> DEFINE f == q * e
             g == d * e
  <2>4. f \in Int /\ g \in Int /\ f - e - g >= 0 /\ a = f + o /\ a < g + e
    BY <1>1, <1>2, <2>2, <2>3
  <2> HIDE DEF f, g
  <2>5. QED
    BY <1>1, <2>4
<1>4. ~(q < d)
  <2> SUFFICES ASSUME q < d PROVE FALSE
    OBVIOUS
  <2>1. d - 1 - q \in Nat
    BY <1>2
  <2>2. (d - 1 - q) * e >= 0
    BY <2>1
  <2>3. (d - 1 - q) * e = d * e - e - q * e
    BY <1>2
  <2> DEFINE f == q * e
             g == d * e
  <2>4. f \in Int /\ g \in Int /\ g - e - f >= 0 /\ a = f + o /\ g <= a
    BY <1>1, <1>2, <2>2, <2>3
  <2> HIDE DEF f, g
  <2>5. QED
    BY <1>1, <2>4
<1>5. d = q
  BY <1>2, <1>3, <1>4
<1>6. QED
  BY <1>1, <1>2, <1>5 DEF a, d

(* The table index of an address is the index of an entry. *)
LEMMA VpnIsAnIndex ==
  ASSUME NEW va \in Address
  PROVE  /\ va \div (Entries * Entries) \in 0 .. (Entries - 1)
         /\ (va \div Entries) % Entries \in 0 .. (Entries - 1)
         /\ va % Entries \in 0 .. (Entries - 1)
<1> DEFINE n == Entries * Entries
           d == va \div n
<1>1. /\ Entries \in Nat /\ Entries > 0 /\ n \in Nat /\ n > 0
      /\ va \in Nat /\ va < n * Entries
  BY Sizes DEF Frames, Address
<1>2. d \in Int /\ d >= 0 /\ d * n <= va
  <2> HIDE DEF n
  <2> QED BY <1>1
<1>3. d < Entries
  <2> SUFFICES ASSUME d >= Entries PROVE FALSE
    BY <1>1, <1>2
  <2> HIDE DEF n, d
  <2>1. d - Entries \in Nat
    BY <1>1, <1>2
  <2>2. (d - Entries) * n >= 0
    BY <1>1, <2>1
  <2>3. (d - Entries) * n = d * n - n * Entries
    BY <1>1, <1>2
  <2> DEFINE f == d * n
             g == n * Entries
  <2>4. f \in Int /\ g \in Int /\ f - g >= 0 /\ f <= va /\ va < g
    BY <1>1, <1>2, <2>2, <2>3
  <2> HIDE DEF f, g
  <2>5. QED
    BY <1>1, <2>4
<1>4. (va \div Entries) % Entries \in 0 .. (Entries - 1) /\ va % Entries \in 0 .. (Entries - 1)
  BY <1>1
<1>5. QED
  BY <1>1, <1>2, <1>3, <1>4

(* A word of an accepted frame is accepted. *)
LEMMA ReadAccepted ==
  ASSUME NEW at \in Int, at \div Entries \in Ram \cup Rom
  PROVE  Accepts(at, 1, "read")
<1>1. at .. (at + 1 - 1) = {at}
  OBVIOUS
<1>2. QED
  BY <1>1 DEF Accepts

(* STEP 3 to 5 ask for a leaf exactly the right that the architecture      *)
(* gives.                                                                  *)
LEMMA AllowedIsRight ==
  ASSUME NEW pte, NEW type \in AccessType, NEW privilege \in {User, Supervisor}
  PROVE  type \in Rights(pte, privilege)
           <=> ~Invalid(pte) /\ ~Pointer(pte) /\ Allowed(pte, type, privilege)
<1>1. privilege = 0 \/ privilege = 1
  BY DEF User, Supervisor
<1>2. {"R", "W"} \cap pte.flags = {"W"} <=> "R" \notin pte.flags /\ "W" \in pte.flags
  OBVIOUS
<1>3. Invalid(pte) => type \notin Rights(pte, privilege)
  BY <1>2 DEF Invalid, Rights
<1> DEFINE bits == {t \in AccessType : CASE t = "read" -> "R" \in pte.flags \/ (csr.mxr /\ "X" \in pte.flags)
                                         [] t = "write" -> "W" \in pte.flags
                                         [] t = "execute" -> "X" \in pte.flags}
<1>4. ASSUME ~Invalid(pte)
      PROVE  Rights(pte, privilege) =
               IF privilege = User THEN (IF "U" \in pte.flags THEN bits ELSE {})
               ELSE IF "U" \notin pte.flags THEN bits
               ELSE IF csr.sum THEN bits \ {"execute"} ELSE {}
  <2> DEFINE named == {t \in AccessType : CASE t = "read" -> "R" \in pte.flags
                                            [] t = "write" -> "W" \in pte.flags
                                            [] t = "execute" -> "X" \in pte.flags}
  <2>1. bits = IF csr.mxr /\ "execute" \in named THEN named \cup {"read"} ELSE named
    BY DEF AccessType
  <2> HIDE DEF bits
  <2>2. QED
    BY <1>2, <1>4, <2>1 DEF Rights, Invalid
<1>5. Pointer(pte) /\ ~Invalid(pte) => bits = {}
  BY DEF Pointer, Invalid, AccessType
<1>6. type \in bits <=> CASE type = "read" -> "R" \in pte.flags \/ ("X" \in pte.flags /\ csr.mxr)
                          [] type = "write" -> "W" \in pte.flags
                          [] type = "execute" -> "X" \in pte.flags
  BY DEF AccessType
<1>7. ASSUME ~Invalid(pte), ~Pointer(pte)
      PROVE  type \in Rights(pte, privilege) <=> Allowed(pte, type, privilege)
  <2> HIDE DEF bits
  <2>1. Allowed(pte, type, privilege) <=>
          /\ type \in bits
          /\ \/ privilege = User <=> "U" \in pte.flags
             \/ privilege # User /\ type # "execute" /\ csr.sum
    BY <1>6 DEF Allowed
  <2>2. QED
    BY <1>1, <1>4, <1>7, <2>1 DEF User
<1>8. QED
  BY <1>3, <1>4, <1>5, <1>7

(* A walk that finds an accepted leaf at `at` of the last level.           *)
LEMMA LeafTranslates ==
  ASSUME NEW m \in Memory, NEW at \in Address, NEW va \in Address,
         NEW type \in AccessType, NEW privilege, Allowed(m[at], type, privilege)
  PROVE  LET r == Leaf(m, at, va, 0, type, privilege)
         IN /\ r.fault # "page"
            /\ r.fault = "none" => /\ r.pa \div Entries = m[at].ppn % Frames
                                   /\ r.pa % Entries = va % Entries
<1> DEFINE r == Leaf(m, at, va, 0, type, privilege)
           pa == PageAddress(m[at].ppn) + (va % Entries)
           found == [fault |-> "none", pa |-> pa, at |-> at, flags |-> Mark(m[at].flags, type)]
<1>1. r = found \/ r = Fault("access")
  BY DEF Leaf
<1>2. m[at].ppn \in Int
  BY MmuAssumption DEF Memory, Words
<1>3. pa \div Entries = m[at].ppn % Frames /\ pa % Entries = va % Entries
  <2>1. va % Entries \in 0 .. (Entries - 1)
    BY VpnIsAnIndex
  <2>2. m[at].ppn % Frames \in Int
    BY <1>2, Sizes
  <2>3. QED
    BY <2>1, <2>2, Sizes, DivisionIsUnique DEF PageAddress
<1> HIDE DEF r, pa
<1>4. /\ r.fault # "page"
      /\ r.fault = "none" => /\ r.pa \div Entries = m[at].ppn % Frames
                             /\ r.pa % Entries = va % Entries
  <2>1. CASE r = found
    BY <1>3, <2>1
  <2>2. CASE r = Fault("access")
    BY <2>2 DEF Fault
  <2>3. QED
    BY <1>1, <2>1, <2>2
<1>5. QED
  BY <1>4 DEF r

(* The last turn of the loop, in an accepted table.                        *)
LEMMA TableTranslates ==
  ASSUME NEW m \in Memory, NEW table \in Int, NEW va \in Address,
         NEW type \in AccessType, NEW privilege \in {User, Supervisor},
         NEW at, at = EntryAddress(table, va, 0), at \div Entries \in Ram \cup Rom
  PROVE  LET r == WalkTable(m, table, va, type, privilege)
         IN /\ r.fault = "page" <=> type \notin Rights(m[at], privilege)
            /\ r.fault = "none" => /\ r.pa \div Entries = m[at].ppn % Frames
                                   /\ r.pa % Entries = va % Entries
<1> DEFINE r == WalkTable(m, table, va, type, privilege)
           leaf == Leaf(m, at, va, 0, type, privilege)
<1>1. at \in Int
  BY VpnType DEF EntryAddress
<1>2. at \in Address /\ Accepts(at, 1, "read")
  BY <1>1, ReadAccepted, FrameAddress, MmuAssumption
<1>3. type \in Rights(m[at], privilege)
        <=> ~Invalid(m[at]) /\ ~Pointer(m[at]) /\ Allowed(m[at], type, privilege)
  BY AllowedIsRight
<1>4. r = IF Invalid(m[at]) \/ Pointer(m[at]) THEN Fault("page") ELSE leaf
  BY <1>2 DEF WalkTable
<1>5. Fault("page").fault = "page"
  BY DEF Fault
<1>6. ~Allowed(m[at], type, privilege) => leaf = Fault("page")
  BY DEF Leaf
<1>7. Allowed(m[at], type, privilege) =>
        /\ leaf.fault # "page"
        /\ leaf.fault = "none" => /\ leaf.pa \div Entries = m[at].ppn % Frames
                                  /\ leaf.pa % Entries = va % Entries
  BY <1>2, LeafTranslates
<1> HIDE DEF r, leaf
<1>8. /\ r.fault = "page" <=> type \notin Rights(m[at], privilege)
      /\ r.fault = "none" => /\ r.pa \div Entries = m[at].ppn % Frames
                             /\ r.pa % Entries = va % Entries
  <2>1. CASE Invalid(m[at]) \/ Pointer(m[at]) \/ ~Allowed(m[at], type, privilege)
    <3>1. r = Fault("page")
      BY <1>4, <1>6, <2>1
    <3>2. r.fault = "page" /\ r.fault # "none"
      BY <1>5, <3>1
    <3>3. QED
      BY <1>3, <2>1, <3>2
  <2>2. CASE ~(Invalid(m[at]) \/ Pointer(m[at]) \/ ~Allowed(m[at], type, privilege))
    <3>1. r = leaf
      BY <1>4, <2>2
    <3>2. QED
      BY <1>3, <1>7, <2>2, <3>1
  <2>3. QED
    BY <2>1, <2>2
<1>9. QED
  BY <1>8 DEF r

LEMMA PagesStep == IInv => PagesTranslate
<1> SUFFICES ASSUME IInv, csr.paging, NEW va \in Address, NEW type \in AccessType,
                    NEW privilege \in {User, Supervisor}
             PROVE  LET top == mem[(csr.root % Frames) * Entries + va \div (Entries * Entries)]
                        at == (top.ppn % Frames) * Entries + ((va \div Entries) % Entries)
                        r == Translate(mem, va, type, privilege)
                    IN /\ (csr.root % Frames) \in Ram \cup Rom
                       /\ top.flags \cap {"V", "R", "W", "X"} = {"V"}
                       /\ at \div Entries \in Ram \cup Rom
                       => /\ r.fault = "page" <=> type \notin Rights(mem[at], privilege)
                          /\ r.fault = "none" => /\ r.pa \div Entries = mem[at].ppn % Frames
                                                 /\ r.pa % Entries = va % Entries
  BY DEF PagesTranslate
<1> DEFINE first == (csr.root % Frames) * Entries + va \div (Entries * Entries)
           top == mem[first]
           table == PageAddress(top.ppn)
           at == (top.ppn % Frames) * Entries + ((va \div Entries) % Entries)
           r == Translate(mem, va, type, privilege)
<1> SUFFICES ASSUME (csr.root % Frames) \in Ram \cup Rom,
                    top.flags \cap {"V", "R", "W", "X"} = {"V"},
                    at \div Entries \in Ram \cup Rom
             PROVE  /\ r.fault = "page" <=> type \notin Rights(mem[at], privilege)
                    /\ r.fault = "none" => /\ r.pa \div Entries = mem[at].ppn % Frames
                                           /\ r.pa % Entries = va % Entries
  OBVIOUS
<1>1. mem \in Memory /\ csr.root \in Int
  BY MmuAssumption DEF IInv, Kept
<1>2. first = EntryAddress(PageAddress(csr.root), va, 1)
  BY DEF EntryAddress, PageAddress, Vpn
<1>3. first \in Int /\ first \div Entries = csr.root % Frames
  <2>1. csr.root % Frames \in Int
    BY <1>1, Sizes
  <2>2. va \div (Entries * Entries) \in 0 .. (Entries - 1)
    BY VpnIsAnIndex
  <2>3. QED
    BY <2>1, <2>2, Sizes, DivisionIsUnique
<1>4. first \in Address /\ Accepts(first, 1, "read")
  BY <1>3, ReadAccepted, FrameAddress, MmuAssumption
<1>5. ~Invalid(top) /\ Pointer(top)
  <2>1. "V" \in top.flags /\ "R" \notin top.flags /\ "W" \notin top.flags /\ "X" \notin top.flags
    <3> HIDE DEF top
    <3> QED OBVIOUS
  <2> HIDE DEF top
  <2>2. QED
    BY <2>1 DEF Invalid, Pointer
<1>6. r = WalkTable(mem, table, va, type, privilege)
  <2>1. privilege # Machine
    BY DEF User, Supervisor, Machine
  <2>2. QED
    BY <1>2, <1>4, <1>5, <2>1 DEF Translate, WalkRoot
<1>7. at = EntryAddress(table, va, 0)
  BY DEF EntryAddress, PageAddress, Vpn
<1>8. table \in Int
  BY <1>1, <1>4, PageAddressType, MmuAssumption DEF Memory, Words
<1> HIDE DEF at, table, r
<1>9. QED
  BY <1>1, <1>6, <1>7, <1>8, TableTranslates

(* An access through two levels of tables faults unless the leaf gives the *)
(* right to it, and otherwise goes to the leaf's frame, for tables of any  *)
(* size and shape (STEP 2 to 8).                                           *)
THEOREM TranslationCorrect == Spec => []PagesTranslate
BY SpecIInv, PagesStep, PTL
=============================================================================
