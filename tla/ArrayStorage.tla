---------------------------- MODULE ArrayStorage ----------------------------
(***************************************************************************)
(* Arrays in snapshots (space-time/src/array_storage.rs), and the ranges   *)
(* of their accessors (lib.rs).                                            *)
(*                                                                         *)
(* An array (an Instance) is a list of pointers to top-level pages.  A     *)
(* page is a node of a tree: Layers tables hold pages of pointers to pages *)
(* of the next table, the last table holds pages of elements.  Pages are   *)
(* shared by reference counting: a new array is one page all over, a clone *)
(* shares every page, and a write copies the shared pages on its way down. *)
(*                                                                         *)
(* tables[d] is page_tables[d - 1], tables[Layers + 1] the data_table.     *)
(* Indices of elements count from 0, as in the code.                       *)
(***************************************************************************)
EXTENDS Table, Integers, FiniteSets

CONSTANTS
  Name, Value, Size, Buffer,   \* see Arrays
  PageSize,                    \* PAGE_SIZE (64)
  Layers,                      \* levels of page tables (3)
  MaxCells,                    \* bound on the pages of a table
  MaxCalls                     \* bound on the operations made

ASSUME ArrayStorageAssumption ==
  /\ PageSize \in Nat \ {0, 1}
  /\ Layers \in Nat
  /\ Size \subseteq Nat
  /\ MaxCells \in Nat /\ MaxCalls \in Nat

VARIABLES
  tables,      \* page_tables, and the data_table
  instances,   \* the arrays in use: name -> [pages, size, reset]
  leaked,      \* history variable: for each top-level page, the references
               \* that dropped arrays had to it as their reset_page, and
               \* that the code leaks
  calls        \* history variable: the number of operations made

vars == <<tables, instances, leaked, calls>>

Depth == Layers + 1
Slots == 1 .. PageSize

RECURSIVE Power(_)
Power(n) == IF n = 0 THEN 1 ELSE PageSize * Power(n - 1)

(* items_per_top_level_page, and the elements under one entry of a page of *)
(* level d: the divisor of the code.                                       *)
TopItems    == Power(Depth)
Divisor(d)  == Power(Depth - d)

-----------------------------------------------------------------------------
(* How reads and writes are cut up.  A range of len elements from index    *)
(* touches the entries first .. of a page; each piece is an entry, the     *)
(* index in it, and the part from .. to - 1 of the buffer.                 *)

DivCeil(a, b) == (a + b - 1) \div b
Saturating(n) == IF n < 0 THEN 0 ELSE n

Pieces(index, len, divisor) ==
  LET first  == index \div divisor
      last   == DivCeil(index + len, divisor)
      offset == index - first * divisor
  IN  [n \in 1 .. last - first |->
        LET i   == n - 1
            end == (i + 1) * divisor - offset
        IN  [entry |-> first + i,
             index |-> IF i = 0 THEN offset ELSE 0,
             from  |-> Saturating(i * divisor - offset),
             to    |-> IF end < len THEN end ELSE len]]

(* Mutant of IterPieces: every piece starts at the start of its entry. *)
IterPiecesAligned(index, len, divisor) ==
  LET first  == index \div divisor
      last   == DivCeil(index + len, divisor)
  IN  [n \in 1 .. last - first |->
        LET rest == len - (n - 1) * divisor
        IN  [entry |-> first + n - 1,
             index |-> 0,
             len   |-> IF divisor < rest THEN divisor ELSE Saturating(rest)]]

(* The same for iter_range, which computes lengths instead. *)
IterPieces(index, len, divisor) ==
  LET first  == index \div divisor
      last   == DivCeil(index + len, divisor)
      offset == index - first * divisor
  IN  [n \in 1 .. last - first |->
        LET i    == n - 1
            at   == IF i = 0 THEN offset ELSE 0
            rest == len - Saturating(i * divisor - offset)
        IN  [entry |-> first + i,
             index |-> at,
             len   |-> IF divisor - at < rest THEN divisor - at ELSE rest]]

Concat(seqs) == SX!FlattenSeq(seqs)

(* read_impl and iter_range_impl, on one top-level page or below. *)
RECURSIVE ReadPage(_, _, _, _)
ReadPage(d, p, index, len) ==
  LET page == tables[d].cells[p].val
  IN  IF d = Depth THEN SubSeq(page, index + 1, index + len)
      ELSE LET ps == Pieces(index, len, Divisor(d))
           IN  Concat([n \in DOMAIN ps |->
                 ReadPage(d + 1, page[ps[n].entry + 1], ps[n].index, ps[n].to - ps[n].from)])

RECURSIVE IterPage(_, _, _, _)
IterPage(d, p, index, len) ==
  LET page == tables[d].cells[p].val
  IN  IF d = Depth THEN SubSeq(page, index + 1, index + len)
      ELSE LET ps == IterPieces(index, len, Divisor(d))
           IN  Concat([n \in DOMAIN ps |->
                 IterPage(d + 1, page[ps[n].entry + 1], ps[n].index, ps[n].len)])

(* Instance::read and Instance::iter_range, within bounds. *)
Read(inst, index, len) ==
  LET ps == Pieces(index, len, TopItems)
  IN  Concat([n \in DOMAIN ps |->
        ReadPage(1, inst.pages[ps[n].entry + 1], ps[n].index, ps[n].to - ps[n].from)])

Iterate(inst, index, len) ==
  LET ps == IterPieces(index, len, TopItems)
  IN  Concat([n \in DOMAIN ps |->
        IterPage(1, inst.pages[ps[n].entry + 1], ps[n].index, ps[n].len)])

(* ArrayStorage::get, by itself: one element. *)
RECURSIVE GetAt(_, _, _)
GetAt(d, p, index) ==
  LET page == tables[d].cells[p].val
      i    == index \div Divisor(d)
  IN  IF d = Depth THEN page[index + 1]
      ELSE GetAt(d + 1, page[i + 1], index - i * Divisor(d))

Get(inst, index) ==
  LET top == index \div TopItems
  IN  GetAt(1, inst.pages[top + 1], index - top * TopItems)

(* The accessors' iter_range: a set with the sequence that is iterated     *)
(* over, or empty for None.  A range has a start and an end, which is      *)
(* "open", or "included" or "excluded" at a bound.                         *)
RangeTo(start, end, bound) == [start |-> start, end |-> end, bound |-> bound]

(* STArrayAccessor *)
IterRange(inst, r) ==
  LET bound == IF r.end = "open" THEN inst.size ELSE r.bound
      len   == IF r.end = "included" THEN bound - r.start + 1 ELSE bound - r.start
  IN  IF bound < r.start \/ r.start + len > inst.size THEN {}
      ELSE {Iterate(inst, r.start, len)}

(* STArrayAccessorMut: its end is taken for the last element and used as   *)
(* an exclusive one.                                                       *)
IterRangeMut(inst, r) ==
  LET end == CASE r.end = "open"     -> inst.size
               [] r.end = "included" -> r.bound
               [] r.end = "excluded" -> Saturating(r.bound - 1)
  IN  IF end >= inst.size \/ r.start >= inst.size THEN {}
      ELSE {[i \in 1 .. Saturating(end - r.start) |-> Get(inst, r.start + i - 1)]}

-----------------------------------------------------------------------------
(* Sharing pages.  ts is the tables in the middle of an operation. *)

(* Mutants of Unshare: always write in place; copy a page of pointers      *)
(* without counting them.                                                  *)
UnshareNever(ts, d, p) == [tables |-> ts, ptr |-> p]

UnshareUncounted(ts, d, p) ==
  IF IsUnique(ts[d], p) THEN [tables |-> ts, ptr |-> p]
  ELSE [tables |-> [ts EXCEPT ![d] = DropPtr(AddItem(ts[d], ts[d].cells[p].val), p)],
        ptr    |-> NextCell(ts[d])]

(* A page that can be written to: p, or a copy of it (clone_array_item). *)
Unshare(ts, d, p) ==
  LET page  == ts[d].cells[p].val
      added == IF d = Depth THEN ts
               ELSE [ts EXCEPT ![d + 1] = ClonePtrs(ts[d + 1], page)]
  IN  IF IsUnique(ts[d], p) THEN [tables |-> ts, ptr |-> p]
      ELSE [tables |-> [added EXCEPT ![d] = DropPtr(AddItem(ts[d], page), p)],
            ptr    |-> NextCell(ts[d])]

(* write_impl (and get_mut, with a buffer of one element): the tables, and *)
(* the pointer to put where p was.  WritePieces writes ps, pieces of buf,  *)
(* to what is below page p of level d.                                     *)
RECURSIVE WritePage(_, _, _, _, _)
RECURSIVE WritePieces(_, _, _, _, _)
WritePieces(ts, d, p, ps, buf) ==
  LET x   == Head(ps)
      sub == WritePage(ts, d + 1, ts[d].cells[p].val[x.entry + 1], x.index,
                       SubSeq(buf, x.from + 1, x.to))
  IN  IF ps = <<>> THEN ts
      ELSE WritePieces([sub.tables EXCEPT ![d].cells[p].val[x.entry + 1] = sub.ptr],
                       d, p, Tail(ps), buf)

WritePage(ts, d, p, index, buf) ==
  LET own == Unshare(ts, d, p)
      written(page) ==
        [i \in Slots |-> IF i - 1 \in index .. index + Len(buf) - 1
                           THEN buf[i - index] ELSE page[i]]
  IN  [ptr    |-> own.ptr,
       tables |-> IF d = Depth
                    THEN [own.tables EXCEPT ![d].cells[own.ptr].val = written(@)]
                    ELSE WritePieces(own.tables, d, own.ptr,
                                     Pieces(index, Len(buf), Divisor(d)), buf)]

(* drop_table_ptr: pages that lose their last reference drop theirs. *)
RECURSIVE DropPage(_, _, _)
RECURSIVE DropPages(_, _, _)
DropPages(ts, d, ps) ==
  IF ps = <<>> THEN ts ELSE DropPages(DropPage(ts, d, Head(ps)), d, Tail(ps))

DropPage(ts, d, p) ==
  LET popped == [ts EXCEPT ![d] = DropPtr(ts[d], p)]
  IN  IF ~IsUnique(ts[d], p) \/ d = Depth THEN popped
      ELSE DropPages(popped, d + 1, ts[d].cells[p].val)

DropTop(ts, p) == DropPage(ts, 1, p)

(* add_top_level_page: one page per table, from the data_table up.  Each   *)
(* is pointed to PageSize times by the one above it.                       *)
RECURSIVE AddPages(_, _, _)
AddPages(ts, d, v) ==
  LET below == AddPages(ts, d + 1, v)
      under == [below.tables EXCEPT
                 ![d + 1].cells[below.ptr].refs = @ + PageSize - 1]
  IN  IF d = Depth
        THEN [tables |-> [ts EXCEPT ![d] = AddItem(ts[d], [i \in Slots |-> v])],
              ptr    |-> NextCell(ts[d])]
        ELSE [tables |-> [under EXCEPT ![d] = AddItem(under[d], [i \in Slots |-> below.ptr])],
              ptr    |-> NextCell(ts[d])]

HasRoom == \A d \in 1 .. Depth : tables[d].free # <<>> \/ Len(tables[d].cells) < MaxCells

CloneTop(ts, ptrs) == [ts EXCEPT ![1] = ClonePtrs(ts[1], ptrs)]

Put(a, inst) ==
  instances' = [b \in DOMAIN instances \cup {a} |->
                 IF b = a THEN inst ELSE instances[b]]

-----------------------------------------------------------------------------
Init ==
  /\ tables = [d \in 1 .. Depth |-> EmptyTable]
  /\ instances = [a \in {} |-> <<>>]
  /\ leaked = [p \in 1 .. MaxCells |-> 0]
  /\ calls = 0

(* new_instance *)
NewInstance(a, v, n) ==
  LET top   == AddPages(tables, 1, v)
      pages == [i \in 1 .. DivCeil(n, TopItems) |-> top.ptr]
  IN  /\ a \notin DOMAIN instances
      /\ HasRoom
      /\ tables' = CloneTop(top.tables, pages)
      /\ Put(a, [pages |-> pages, size |-> n, reset |-> top.ptr])
      /\ UNCHANGED leaked

(* clone_instance, when a snapshot is made or HEAD leaves one. *)
CloneInstance(a, b) ==
  /\ a \in DOMAIN instances /\ b \notin DOMAIN instances
  /\ tables' = CloneTop(tables, Append(instances[a].pages, instances[a].reset))
  /\ Put(b, instances[a])
  /\ UNCHANGED leaked

(* remove_instance and drop_instance: reset_page keeps its reference. *)
DropInstance(a) ==
  /\ a \in DOMAIN instances
  /\ tables' = SX!FoldLeft(DropTop, tables, instances[a].pages)
  /\ instances' = [b \in DOMAIN instances \ {a} |-> instances[b]]
  /\ leaked' = [leaked EXCEPT ![instances[a].reset] = @ + 1]

(* write: refused when it does not fit; get_mut is a buffer of one. *)
Write(a, index, buf) ==
  LET ps == Pieces(index, Len(buf), TopItems)
      piece(acc, x) ==
        LET sub == WritePage(acc.tables, 1, acc.pages[x.entry + 1], x.index,
                             SubSeq(buf, x.from + 1, x.to))
        IN  [tables |-> sub.tables, pages |-> [acc.pages EXCEPT ![x.entry + 1] = sub.ptr]]
      done == SX!FoldLeft(piece, [tables |-> tables, pages |-> instances[a].pages], ps)
  IN  /\ a \in DOMAIN instances
      /\ index + Len(buf) <= instances[a].size
      /\ \A d \in 1 .. Depth : Len(done.tables[d].cells) <= MaxCells
      /\ tables' = done.tables
      /\ Put(a, [instances[a] EXCEPT !.pages = done.pages])
      /\ UNCHANGED leaked

(* reset: pages that are not the reset page are replaced by it. *)
Reset(a) ==
  LET i    == instances[a]
      back == SX!FoldLeft(
                LAMBDA ts, p : IF p = i.reset THEN ts
                               ELSE CloneTop(DropTop(ts, p), <<i.reset>>),
                tables, i.pages)
  IN  /\ a \in DOMAIN instances
      /\ tables' = back
      /\ Put(a, [i EXCEPT !.pages = [k \in DOMAIN @ |-> i.reset]])
      /\ UNCHANGED leaked

Next ==
  /\ calls < MaxCalls /\ calls' = calls + 1
  /\ \/ \E a \in Name, v \in Value, n \in Size : NewInstance(a, v, n)
     \/ \E a, b \in Name : CloneInstance(a, b)
     \/ \E a \in Name : DropInstance(a) \/ Reset(a)
     \/ \E a \in DOMAIN instances, buf \in Buffer :
          \E i \in 0 .. instances[a].size : Write(a, i, buf)

Spec == Init /\ [][Next]_vars

-----------------------------------------------------------------------------
Pages(d) == [Slots -> IF d = Depth THEN Value ELSE 1 .. MaxCells]

TypeOK ==
  /\ \A d \in 1 .. Depth :
       /\ tables[d].cells \in Seq([refs : Nat, val : Pages(d)])
       /\ tables[d].free \in Seq(1 .. MaxCells)
  /\ DOMAIN instances \subseteq Name
  /\ \A a \in DOMAIN instances :
       instances[a] \in [pages : Seq(1 .. MaxCells), size : Size, reset : 1 .. MaxCells]
  /\ leaked \in [1 .. MaxCells -> Nat]
  /\ calls \in 0 .. MaxCalls

(* The pointers to page p of table d: from the pages of table d - 1 that   *)
(* are in use, or from the arrays and in vain.                             *)
PointersTo(d, p) ==
  IF d = 1
    THEN leaked[p]
         + Cardinality({a \in DOMAIN instances : instances[a].reset = p})
         + Cardinality({<<a, i>> \in (DOMAIN instances) \X (1 .. MaxCells) :
                          i \in DOMAIN instances[a].pages /\ instances[a].pages[i] = p})
    ELSE Cardinality({<<q, i>> \in (DOMAIN tables[d - 1].cells) \X Slots :
                        /\ Refs(tables[d - 1], q) > 0
                        /\ tables[d - 1].cells[q].val[i] = p})

(* Every reference to a page is counted exactly once, on every level, but  *)
(* for one that each array that is dropped leaks: drop_instance and        *)
(* remove_instance (array_storage.rs:81-85, 418-423) do not give back that *)
(* of its reset_page.  Nothing that is reachable is ever freed or handed   *)
(* out twice, and nothing else is leaked; in a program that gives them     *)
(* back, `leaked` stays 0.                                                 *)
PagesCounted ==
  \A d \in 1 .. Depth :
    /\ FreeListOK(tables[d])
    /\ \A p \in DOMAIN tables[d].cells : Refs(tables[d], p) = PointersTo(d, p)

(* The tables hold pages of their level, with a reference per pointer      *)
(* (array_storage.rs: clone, drop and get_mut).                            *)
PagesExact == TypeOK /\ PagesCounted

(* The ways to write the range of the elements start .. stop - 1.          *)
Ranges(inst, start, stop) ==
  {RangeTo(start, "excluded", stop)}
    \cup (IF start < stop THEN {RangeTo(start, "included", stop - 1)} ELSE {})
    \cup (IF stop = inst.size THEN {RangeTo(start, "open", 0)} ELSE {})

(* Reads of any range give what reading the elements one by one gives, and *)
(* so do the iterators of a STArrayAccessor, also when the range is given  *)
(* by its last element or has no end; a range that goes too far gives none *)
(* (allocator.rs:104-120).  A STArrayAccessorMut answers to the same lines *)
(* of allocator.rs, but agrees for no range that has an element: its       *)
(* iterators leave out the last one, and it has none for a range without   *)
(* end (lib.rs:545-553).  What is stated of it is less: an iterator that   *)
(* it gives has the elements of the range in their order, without the last *)
(* one at the worst, and it gives none for a range that goes too far.      *)
RangesAgree ==
  \A a \in DOMAIN instances :
    LET inst == instances[a]
    IN  \A start \in 0 .. inst.size :
          /\ \A stop \in start .. inst.size :
               LET one == [i \in 1 .. stop - start |-> Get(inst, start + i - 1)]
               IN  /\ Read(inst, start, stop - start) = one
                   /\ \A r \in Ranges(inst, start, stop) :
                        /\ IterRange(inst, r) = {one}
                        /\ IterRangeMut(inst, r) \subseteq
                             {one, SubSeq(one, 1, Len(one) - 1)}
          /\ \A far \in {RangeTo(start, "included", inst.size),
                         RangeTo(start, "excluded", inst.size + 1)} :
               IterRange(inst, far) = {} /\ IterRangeMut(inst, far) = {}

(* Arrays are independent of each other, whatever pages they share. *)
Independent == INSTANCE Arrays WITH
  arrays <- [a \in DOMAIN instances |->
               [elems |-> [i \in 1 .. instances[a].size |-> Get(instances[a], i - 1)],
                fill  |-> GetAt(1, instances[a].reset, 0)]]
ImplementsArrays == Independent!Spec
=============================================================================
