-------------------------------- MODULE Mmu --------------------------------
(***************************************************************************)
(* Address translation (red-planet-core/src/core/mmu.rs) of a hart whose   *)
(* memory the tables are in: loads, stores and fetches walk the tables,    *)
(* mark the entries they use and access the page; stores change the tables *)
(* themselves, from machine mode or through a mapping of them.             *)
(*                                                                         *)
(* An address counts words, a page has as many words as a table entries.   *)
(* Every word is a page table entry.  Virtual and physical addresses have  *)
(* the same range, as the core's 32-bit ones have.                         *)
(***************************************************************************)
EXTENDS Integers

CONSTANTS
  Entries,    \* words of a page, and entries of a table
  Ppns,       \* the page numbers that an entry and satp can hold, 0 .. Ppns - 1
  Ram,        \* the frames of DRAM
  Rom,        \* the frames of the boot ROM and the flash
  Values,     \* the words that programs store
  Image,      \* memory as loaded
  Roots,      \* the page numbers that programs write to satp
  MaxStores   \* bound on the stores of all programs

Frames == Entries * Entries
Address == 0 .. (Frames * Entries - 1)

(* The flags of an entry and its page number. *)
Flags == {"V", "R", "W", "X", "U", "A", "D"}
Words == [flags : SUBSET Flags, ppn : 0 .. (Ppns - 1)]

ASSUME MmuAssumption ==
  /\ Entries \in Nat \ {0}
  /\ Ppns \in Nat \ {0}
  /\ Ram \subseteq 0 .. (Frames - 1)
  /\ Rom \subseteq 0 .. (Frames - 1)
  /\ Ram \cap Rom = {}
  /\ Values \subseteq Words
  /\ Image \in [Address -> Words]
  /\ Roots \subseteq 0 .. (Ppns - 1)
  /\ MaxStores \in Nat

VARIABLES
  mem,     \* physical memory
  csr,     \* satp's mode (paging) and ppn (root), mstatus.SUM and MXR
  dirty,   \* history: the entries that stores went through, and that no
           \* program has written since
  stores   \* the number of stores so far

User == 0
Supervisor == 1
Machine == 3
Levels == {User, Supervisor, Machine}

AccessType == {"read", "write", "execute"}

-----------------------------------------------------------------------------
(* The system bus *)

(* Mutant of Accepts: only the first word of an access is looked at. *)
AcceptsStart(pa, size, type) ==
  pa \div Entries \in Ram \/ (pa \div Entries \in Rom /\ type # "write")

(* accepts: the whole access lies in one resource *)
Accepts(pa, size, type) ==
  LET frames == {a \div Entries : a \in pa .. (pa + size - 1)}
  IN frames \subseteq Ram \/ (frames \subseteq Rom /\ type # "write")

-----------------------------------------------------------------------------
(* The walk *)

(* << PAGE_SIZE_SHF drops the bits of the page number above 32 bits. *)
PageAddress(ppn) == (ppn % Frames) * Entries

Vpn(va, level) ==
  IF level = 1 THEN va \div (Entries * Entries) ELSE (va \div Entries) % Entries

EntryAddress(table, va, level) == table + Vpn(va, level)

NoEntry == -1

(* The outcome of a translation: a fault, or the physical address and the  *)
(* entry that led to it with the flags it gets.                            *)
Fault(kind) == [fault |-> kind, pa |-> 0, at |-> NoEntry, flags |-> {}]
Untranslated(va) == [fault |-> "none", pa |-> va, at |-> NoEntry, flags |-> {}]

(* STEP 3 and 4 *)
Invalid(pte) == "V" \notin pte.flags \/ ("R" \notin pte.flags /\ "W" \in pte.flags)
Pointer(pte) == "R" \notin pte.flags /\ "X" \notin pte.flags

(* Mutant of Allowed: SUM lets a supervisor execute user pages too. *)
AllowedSumExecute(pte, type, privilege) ==
  /\ CASE type = "read" -> "R" \in pte.flags \/ ("X" \in pte.flags /\ csr.mxr)
       [] type = "write" -> "W" \in pte.flags
       [] type = "execute" -> "X" \in pte.flags
  /\ (privilege = User <=> "U" \in pte.flags) \/ (privilege # User /\ csr.sum)

(* STEP 5 *)
Allowed(pte, type, privilege) ==
  /\ CASE type = "read" -> "R" \in pte.flags \/ ("X" \in pte.flags /\ csr.mxr)
       [] type = "write" -> "W" \in pte.flags
       [] type = "execute" -> "X" \in pte.flags
  /\ \/ privilege = User <=> "U" \in pte.flags
     \/ privilege # User /\ type # "execute" /\ csr.sum

(* Mutant of Mark: D is set anew by every access. *)
MarkAlways(flags, type) ==
  (flags \ {"D"}) \cup {"A"} \cup (IF type = "write" THEN {"D"} ELSE {})

(* Mutant of Mark: the bit before A is set in its place. *)
MarkGlobal(flags, type) ==
  IF "A" \notin flags \/ (type = "write" /\ "D" \notin flags)
  THEN (flags \ {"D"}) \cup {"G"} \cup (IF type = "write" THEN {"D"} ELSE {})
  ELSE flags

(* STEP 7: the flags of an entry that an access has used *)
Mark(flags, type) ==
  IF "A" \notin flags \/ (type = "write" /\ "D" \notin flags)
  THEN (flags \ {"D"}) \cup {"A"} \cup (IF type = "write" THEN {"D"} ELSE {})
  ELSE flags

(* STEP 5 to 8, for the leaf at address `at` of `level` *)
Leaf(m, at, va, level, type, privilege) ==
  LET pte == m[at]
      flags == Mark(pte.flags, type)
      ppn == IF level = 0 THEN pte.ppn ELSE pte.ppn + (Vpn(va, level) % Entries)
  IN IF ~Allowed(pte, type, privilege) \/ (level # 0 /\ pte.ppn % Entries # 0)
     THEN Fault("page")
     ELSE IF flags # pte.flags /\ ~Accepts(at, 1, "write")
     THEN Fault("access")
     ELSE [fault |-> "none", pa |-> PageAddress(ppn) + (va % Entries),
           at |-> at, flags |-> flags]

(* The last turn of the loop *)
WalkTable(m, table, va, type, privilege) ==
  LET at == EntryAddress(table, va, 0)
  IN IF ~Accepts(at, 1, "read") THEN Fault("access")
     ELSE IF Invalid(m[at]) \/ Pointer(m[at]) THEN Fault("page")
     ELSE Leaf(m, at, va, 0, type, privilege)

(* The first turn of the loop, from satp *)
WalkRoot(m, va, type, privilege) ==
  LET at == EntryAddress(PageAddress(csr.root), va, 1)
  IN IF ~Accepts(at, 1, "read") THEN Fault("access")
     ELSE IF Invalid(m[at]) THEN Fault("page")
     ELSE IF Pointer(m[at])
     THEN WalkTable(m, PageAddress(m[at].ppn), va, type, privilege)
     ELSE Leaf(m, at, va, 1, type, privilege)

(* translate_address_common *)
Translate(m, va, type, privilege) ==
  IF privilege = Machine \/ ~csr.paging THEN Untranslated(va)
  ELSE WalkRoot(m, va, type, privilege)

(* Mutant of Marked: what is written back is the page that was found. *)
MarkedPage(m, r) ==
  IF r.at = NoEntry THEN m
  ELSE [m EXCEPT ![r.at] = [flags |-> r.flags, ppn |-> r.pa \div Entries]]

Marked(m, r) == IF r.at = NoEntry THEN m ELSE [m EXCEPT ![r.at].flags = r.flags]

-----------------------------------------------------------------------------
(* Accesses *)

(* access_virtual: what is marked stays marked if the bus then refuses *)
Access(m, va, size, type, privilege) ==
  LET r == Translate(m, va, type, privilege)
  IN IF r.fault = "none" /\ ~Accepts(r.pa, size, type)
     THEN [Fault("access") EXCEPT !.at = r.at, !.flags = r.flags]
     ELSE r

(* load_op and fetch_instruction *)
Load(va, size, type, privilege) ==
  /\ mem' = Marked(mem, Access(mem, va, size, type, privilege))
  /\ UNCHANGED <<csr, dirty, stores>>

(* What a store of `value` after access `r` to memory `m` makes of it. *)
Written(m, r, size, value) ==
  LET marked == Marked(m, r)
  IN [a \in Address |-> IF a \in r.pa .. (r.pa + size - 1) THEN value ELSE marked[a]]

(* The end of a store or of the second half of an AMO *)
Put(m, va, size, value, privilege) ==
  LET r == Access(m, va, size, "write", privilege)
  IN IF r.fault = "none"
     THEN /\ stores < MaxStores
          /\ stores' = stores + 1
          /\ mem' = Written(m, r, size, value)
          /\ dirty' = (dirty \cup ({r.at} \ {NoEntry})) \ (r.pa .. (r.pa + size - 1))
     ELSE mem' = Marked(m, r) /\ UNCHANGED <<dirty, stores>>

(* store_op, and GDB's write of memory *)
Store(va, size, value, privilege) ==
  Put(mem, va, size, value, privilege) /\ UNCHANGED csr

(* amo_op: a load and a store, each translated *)
Amo(va, value, privilege) ==
  LET r == Access(mem, va, 1, "read", privilege)
  IN /\ IF r.fault = "none" THEN Put(Marked(mem, r), va, 1, value, privilege)
        ELSE mem' = Marked(mem, r) /\ UNCHANGED <<dirty, stores>>
     /\ UNCHANGED csr

(* write_satp, and mstatus.SUM and MXR *)
WriteCsr(paging, root, sum, mxr) ==
  /\ csr' = [paging |-> paging, root |-> root, sum |-> sum, mxr |-> mxr]
  /\ UNCHANGED <<mem, dirty, stores>>

Init ==
  /\ mem = Image
  /\ csr = [paging |-> FALSE, root |-> 0, sum |-> FALSE, mxr |-> FALSE]
  /\ dirty = {}
  /\ stores = 0

Next ==
  \/ \E va \in Address, size \in {1, 2}, privilege \in Levels : Load(va, size, "read", privilege)
  \/ \E va \in Address, privilege \in Levels : Load(va, 1, "execute", privilege)
  \/ \E va \in Address, size \in {1, 2}, value \in Values, privilege \in Levels :
       Store(va, size, value, privilege)
  \/ \E va \in Address, value \in Values, privilege \in Levels : Amo(va, value, privilege)
  \/ \E paging, sum, mxr \in BOOLEAN, root \in Roots : WriteCsr(paging, root, sum, mxr)

vars == <<mem, csr, dirty, stores>>

Spec == Init /\ [][Next]_vars

-----------------------------------------------------------------------------
(* Properties *)

TypeOK ==
  /\ mem \in [Address -> Words]
  /\ csr \in [paging : BOOLEAN, root : 0 .. (Ppns - 1), sum : BOOLEAN, mxr : BOOLEAN]
  /\ dirty \subseteq Address
  /\ stores \in 0 .. MaxStores

(* What the architecture lets a program do with the page of an entry. *)
Rights(pte, privilege) ==
  LET named == {t \in AccessType : CASE t = "read" -> "R" \in pte.flags
                                     [] t = "write" -> "W" \in pte.flags
                                     [] t = "execute" -> "X" \in pte.flags}
      bits == IF csr.mxr /\ "execute" \in named THEN named \cup {"read"} ELSE named
  IN IF "V" \notin pte.flags \/ {"R", "W"} \cap pte.flags = {"W"} THEN {}
     ELSE IF privilege = User THEN (IF "U" \in pte.flags THEN bits ELSE {})
     ELSE IF "U" \notin pte.flags THEN bits
     ELSE IF csr.sum THEN bits \ {"execute"} ELSE {}

(* An access through two levels of tables faults unless the leaf gives the *)
(* right to it, and otherwise goes to the leaf's frame at the same offset, *)
(* whatever the tables look like, even if they contain each other.         *)
PagesTranslate ==
  csr.paging => \A va \in Address, type \in AccessType, privilege \in {User, Supervisor} :
    LET top == mem[(csr.root % Frames) * Entries + va \div (Entries * Entries)]
        at == (top.ppn % Frames) * Entries + ((va \div Entries) % Entries)
        r == Translate(mem, va, type, privilege)
    IN /\ (csr.root % Frames) \in Ram \cup Rom
       /\ top.flags \cap {"V", "R", "W", "X"} = {"V"}
       /\ at \div Entries \in Ram \cup Rom
       => /\ r.fault = "page" <=> type \notin Rights(mem[at], privilege)
          /\ r.fault = "none" => /\ r.pa \div Entries = mem[at].ppn % Frames
                                 /\ r.pa % Entries = va % Entries

(* An access that stores nothing moves no page: the flags that it marks,   *)
(* in a table that may be mapped anywhere, change the outcome of no later  *)
(* translation (STEP 7).                                                   *)
LoadsMoveNothing ==
  [][mem' # mem /\ stores' = stores =>
       \A va \in Address, type \in AccessType, privilege \in {User, Supervisor} :
         LET old == Translate(mem, va, type, privilege)
             new == Translate(mem', va, type, privilege)
         IN new.fault = old.fault /\ new.pa = old.pa /\ new.at = old.at]_vars

(* No access changes the boot ROM or the flash, not the second half of one *)
(* that begins in RAM and not a mark in a table there (accepts, write_pte). *)
RomKept == \A a \in Address : a \div Entries \in Rom => mem[a] = Image[a]

(* Once a store went through an entry, the entry says so, until a program  *)
(* writes it: no load, fetch, store or AMO through it, of any level, and   *)
(* none that fails, takes the mark back (STEP 7).  What a program wrote is *)
(* left to it, though not by the code: if it clears A and leaves D set,    *)
(* the next load through the entry clears D (mmu.rs:427-429).              *)
DirtyKept == \A at \in dirty : {"A", "D"} \subseteq mem[at].flags
=============================================================================
