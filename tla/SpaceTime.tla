----------------------------- MODULE SpaceTime -----------------------------
(***************************************************************************)
(* The snapshotting allocator of the space-time crate, for the objects of  *)
(* one type (lib.rs, table.rs, snapshot.rs; arrays are in ArrayStorage).   *)
(*                                                                         *)
(* Objects live in a reference-counted slab, the Table.  A snapshot, and   *)
(* HEAD, is a generational arena of pointers into it: making a snapshot    *)
(* copies pointers and counts references, and an object is copied only     *)
(* when HEAD writes to one that something else may still point to.         *)
(*                                                                         *)
(* The arena is a library (generational-arena): slots are given out from   *)
(* the slots freed last, or else the next unused one; every removal starts *)
(* a new generation; an index is a slot and a generation.                  *)
(***************************************************************************)
EXTENDS Table, FiniteSets

CONSTANTS
  Value,      \* contents of objects
  MaxCells,   \* bound on the slab (u32::MAX in the code: "Table full")
  MaxSlots,   \* bound on the slots of an arena
  MaxSnaps,   \* bound on the snapshots ever made
  MaxGen      \* bound on the removals from one arena

ASSUME SpaceTimeAssumption ==
  /\ MaxCells \in Nat /\ MaxSlots \in Nat /\ MaxSnaps \in Nat /\ MaxGen \in Nat

VARIABLES
  table,      \* [cells, free]: the slab, and its list of empty cells
  head,       \* [kind, arena, id]: Head::Dirty(arena) or Head::Checkout(id)
  snaps,      \* the snapshots: a function from snapshot ids to arenas
  made,       \* the number of snapshots made; the next one is number made + 1
  leaked      \* history variable: for each cell, the references of arenas
              \* that make_snapshot threw away without giving them back

vars == <<table, head, snaps, made, leaked>>

Nil == 0                                   \* no cell
Id  == (1 .. MaxSlots) \X (0 .. MaxGen)    \* SpaceTimeId: slot and generation

-----------------------------------------------------------------------------
HasRoom(tb) == tb.free # <<>> \/ Len(tb.cells) < MaxCells

-----------------------------------------------------------------------------
(* Arenas *)

EmptySlot == [ptr |-> Nil, gen |-> 0]
EmptyArena == [slots |-> <<>>, free |-> <<>>, gen |-> 0]

(* The elements of s at the positions P, in their order. *)
InOrder(P) ==
  CHOOSE o \in [1 .. Cardinality(P) -> P] : \A i, j \in 1 .. Cardinality(P) : i < j => o[i] < o[j]
Picked(s, P) == [i \in 1 .. Cardinality(P) |-> s[InOrder(P)[i]]]

(* The pointers of an arena, in the order of its slots. *)
Filled(a)   == {i \in DOMAIN a.slots : a.slots[i].ptr # Nil}
Pointers(a) == [i \in 1 .. Cardinality(Filled(a)) |-> Picked(a.slots, Filled(a))[i].ptr]

PtrAt(a, id) ==
  IF /\ id[1] \in 1 .. Len(a.slots)
     /\ a.slots[id[1]].ptr # Nil
     /\ a.slots[id[1]].gen = id[2]
    THEN a.slots[id[1]].ptr ELSE Nil

ArenaInsert(a, p) ==
  LET slot == [ptr |-> p, gen |-> a.gen]
  IN  IF a.free = <<>> THEN [a EXCEPT !.slots = Append(@, slot)]
      ELSE [a EXCEPT !.slots[Head(a.free)] = slot, !.free = Tail(@)]

ArenaRemove(a, id) ==
  [slots |-> [a.slots EXCEPT ![id[1]] = EmptySlot],
   free  |-> <<id[1]>> \o a.free,
   gen   |-> a.gen + 1]

(* Snapshot::from_iterators: a new arena, filled in the order of slots. *)
Collect(ptrs) ==
  [slots |-> [i \in 1 .. Len(ptrs) |-> [ptr |-> ptrs[i], gen |-> 0]],
   free  |-> <<>>,
   gen   |-> 0]

Count(a, p) == Cardinality({i \in DOMAIN a.slots : a.slots[i].ptr = p})

(* Mutant of CloneRefs: pointers are copied without counting them. *)
CloneRefsUncounted(tb, a) == tb

(* clone_snapshot: the references it adds, and the arena it returns. *)
CloneRefs(tb, a) ==
  [tb EXCEPT !.cells =
     [p \in DOMAIN tb.cells |-> [tb.cells[p] EXCEPT !.refs = @ + Count(a, p)]]]
CloneArena(a) == Collect(Pointers(a))

(* delete_snapshot.  The pointers of an arena differ, so each that was the *)
(* last one empties a cell; the slots are drained in their order.          *)
DeleteSnapshot(tb, a) ==
  LET ptrs == Pointers(a)
      last == {k \in DOMAIN ptrs : Refs(tb, ptrs[k]) = 1}
  IN  [cells |-> [p \in DOMAIN tb.cells |-> [tb.cells[p] EXCEPT !.refs = @ - Count(a, p)]],
       free  |-> SX!Reverse(Picked(ptrs, last)) \o tb.free]

-----------------------------------------------------------------------------
Dirty(a)     == [kind |-> "dirty", arena |-> a, id |-> 0]
Checkedout(s) == [kind |-> "checkout", arena |-> EmptyArena, id |-> s]

HeadArena == IF head.kind = "dirty" THEN head.arena ELSE snaps[head.id]

(* get_head_mut: HEAD becomes a dirty copy of the snapshot it is at. *)
OwnTable(tb) == IF head.kind = "dirty" THEN tb ELSE CloneRefs(tb, HeadArena)
OwnArena     == IF head.kind = "dirty" THEN head.arena ELSE CloneArena(HeadArena)

Init ==
  /\ table = EmptyTable
  /\ head = Dirty(EmptyArena)
  /\ snaps = [s \in {} |-> EmptyArena]
  /\ made = 0
  /\ leaked = [p \in 1 .. MaxCells |-> 0]

Insert(v) ==
  /\ HasRoom(table)
  /\ OwnArena.free # <<>> \/ Len(OwnArena.slots) < MaxSlots
  /\ table' = OwnTable(AddItem(table, v))
  /\ head' = Dirty(ArenaInsert(OwnArena, NextCell(table)))
  /\ UNCHANGED <<snaps, made, leaked>>

(* get_mut, remove and pop with an id that is not there: an error, but     *)
(* HEAD is a dirty copy by then.                                           *)
BadId(id) ==
  /\ PtrAt(OwnArena, id) = Nil
  /\ table' = OwnTable(table)
  /\ head' = Dirty(OwnArena)
  /\ UNCHANGED <<snaps, made, leaked>>

(* Mutant of Write: always in place, whoever else refers to the object. *)
WriteAnyway(id, v) ==
  LET p == PtrAt(OwnArena, id)
  IN  /\ p # Nil
      /\ table' = [OwnTable(table) EXCEPT !.cells[p].val = v]
      /\ head' = Dirty(OwnArena)
      /\ UNCHANGED <<snaps, made, leaked>>

(* get_mut, and a write through the reference it returns: in place if      *)
(* nothing else refers to the object, into a copy of it otherwise.         *)
Write(id, v) ==
  LET tb == OwnTable(table)
      p  == PtrAt(OwnArena, id)
  IN  /\ p # Nil
      /\ IF IsUnique(tb, p)
           THEN /\ table' = [tb EXCEPT !.cells[p].val = v]
                /\ head' = Dirty(OwnArena)
           ELSE /\ HasRoom(tb)
                /\ table' = DropPtr(AddItem(tb, v), p)
                /\ head' = Dirty([OwnArena EXCEPT !.slots[id[1]].ptr = NextCell(tb)])
      /\ UNCHANGED <<snaps, made, leaked>>

(* remove and pop *)
Remove(id) ==
  LET p == PtrAt(OwnArena, id)
  IN  /\ p # Nil
      /\ OwnArena.gen < MaxGen
      /\ table' = DropPtr(OwnTable(table), p)
      /\ head' = Dirty(ArenaRemove(OwnArena, id))
      /\ UNCHANGED <<snaps, made, leaked>>

(* make_snapshot: HEAD is copied, then replaced by a checkout of the copy. *)
(* A dirty HEAD is not given to delete_snapshot, so its references leak.   *)
MakeSnapshot ==
  /\ made < MaxSnaps
  /\ table' = CloneRefs(table, HeadArena)
  /\ snaps' = [s \in DOMAIN snaps \cup {made + 1} |->
                 IF s = made + 1 THEN CloneArena(HeadArena) ELSE snaps[s]]
  /\ made' = made + 1
  /\ head' = Checkedout(made + 1)
  /\ leaked' = IF head.kind = "dirty"
                 THEN [p \in DOMAIN leaked |-> leaked[p] + Count(HeadArena, p)]
                 ELSE leaked

(* drop_snapshot: HEAD takes the snapshot over if it is the one checked    *)
(* out.                                                                    *)
DropSnapshot(s) ==
  /\ snaps' = [t \in DOMAIN snaps \ {s} |-> snaps[t]]
  /\ IF head = Checkedout(s)
       THEN head' = Dirty(snaps[s]) /\ UNCHANGED table
       ELSE table' = DeleteSnapshot(table, snaps[s]) /\ UNCHANGED head
  /\ UNCHANGED <<made, leaked>>

Checkout(s) ==
  /\ head' = Checkedout(s)
  /\ table' = IF head.kind = "dirty" THEN DeleteSnapshot(table, head.arena)
                                     ELSE table
  /\ UNCHANGED <<snaps, made, leaked>>

Next ==
  \/ \E v \in Value : Insert(v)
  \/ \E id \in Id : BadId(id) \/ Remove(id) \/ \E v \in Value : Write(id, v)
  \/ MakeSnapshot
  \/ \E s \in DOMAIN snaps : DropSnapshot(s) \/ Checkout(s)

Spec == Init /\ [][Next]_vars

-----------------------------------------------------------------------------
Arenas == [slots : Seq([ptr : 0 .. MaxCells, gen : 0 .. MaxGen]),
           free : Seq(1 .. MaxSlots), gen : 0 .. MaxGen]

TypeOK ==
  /\ table \in [cells : Seq([refs : Nat, val : Value]), free : Seq(1 .. MaxCells)]
  /\ head \in [kind : {"dirty", "checkout"}, arena : Arenas, id : 0 .. MaxSnaps]
  /\ head.kind = "checkout" => head.id \in DOMAIN snaps
  /\ made \in 0 .. MaxSnaps
  /\ DOMAIN snaps \subseteq 1 .. made
  /\ \A s \in DOMAIN snaps : snaps[s] \in Arenas
  /\ leaked \in [1 .. MaxCells -> Nat]

(* The live pointers to a cell, from snapshots and from a dirty HEAD. *)
PointersTo(p) ==
  Cardinality({x \in (DOMAIN snaps) \X (1 .. MaxSlots) :
                 x[2] \in DOMAIN snaps[x[1]].slots /\ snaps[x[1]].slots[x[2]].ptr = p})
  + (IF head.kind = "dirty" THEN Count(head.arena, p) ELSE 0)

(* Every reference is counted, once: no pointer dangles, and no cell is    *)
(* freed too early.  The converse fails, and by how much is stated: the    *)
(* references of a dirty HEAD that make_snapshot replaces are never given  *)
(* back (lib.rs:139-149 has no delete_snapshot, where checkout has one),   *)
(* so no cell that was in such a HEAD is ever emptied, though lib.rs:320   *)
(* says that what only HEAD refers to is dropped when it is removed, and   *)
(* table.rs:8 that the table has to hear of a pointer that goes.  Those    *)
(* are the only references counted in vain: in a program that gives them   *)
(* back, `leaked` stays 0.                                                 *)
RefsCounted ==
  \A p \in DOMAIN table.cells : Refs(table, p) = PointersTo(p) + leaked[p]

(* The free list is exactly the cells without references, each once.       *)
FreeListExact == FreeListOK(table)

(* The table holds what its types allow, a reference per pointer beside    *)
(* the leak of make_snapshot, and no cell twice (table.rs:6, :142-178;     *)
(* lib.rs:32-83, :139-149).                                                *)
TableExact == TypeOK /\ RefsCounted /\ FreeListExact

(* What arena a contains. *)
Contents(a) ==
  [id \in {i \in Id : PtrAt(a, i) # Nil} |-> table.cells[PtrAt(a, id)].val]

(* Snapshots behave like full copies, in which ids are renumbered: sharing *)
(* and copying on write are invisible (lib.rs:92-204).                     *)
Store == INSTANCE SnapshotStore WITH
           work  <- Contents(HeadArena),
           saved <- [s \in DOMAIN snaps |-> Contents(snaps[s])],
           at    <- IF head.kind = "checkout" THEN head.id ELSE 0
ImplementsStore == Store!Spec
=============================================================================
