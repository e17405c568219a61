------------------------------- MODULE Table -------------------------------
(***************************************************************************)
(* The reference-counted slab of space-time/src/table.rs: cells of items,  *)
(* each with the number of pointers to it.  A cell without references is   *)
(* empty; the empty cells form a list, the one emptied last first.         *)
(***************************************************************************)
EXTENDS Naturals, Sequences, Functions

SX == INSTANCE SequencesExt

EmptyTable == [cells |-> <<>>, free |-> <<>>]

Refs(tb, p) == tb.cells[p].refs

(* clone_table_ptr and clone_table_ptr_array, the pointers one by one. *)
ClonePtr(tb, p) == [tb EXCEPT !.cells[p].refs = @ + 1]
ClonePtrs(tb, ptrs) == SX!FoldLeft(ClonePtr, tb, ptrs)

(* pop_item and drop_table_ptr. *)
DropPtr(tb, p) ==
  [cells |-> [tb.cells EXCEPT ![p].refs = @ - 1],
   free  |-> IF Refs(tb, p) = 1 THEN <<p>> \o tb.free ELSE tb.free]

(* add_item: into the cell emptied last, or else a new one. *)
NextCell(tb) == IF tb.free = <<>> THEN Len(tb.cells) + 1 ELSE Head(tb.free)

AddItem(tb, v) ==
  LET cell == [refs |-> 1, val |-> v]
  IN  IF tb.free = <<>> THEN [tb EXCEPT !.cells = Append(@, cell)]
      ELSE [cells |-> [tb.cells EXCEPT ![Head(tb.free)] = cell],
            free  |-> Tail(tb.free)]

(* is_unique_table_ptr *)
IsUnique(tb, p) == Refs(tb, p) = 1

(* The list of empty cells is exactly the cells without references. *)
FreeListOK(tb) ==
  /\ IsInjective(tb.free)
  /\ Range(tb.free) = {p \in DOMAIN tb.cells : Refs(tb, p) = 0}
=============================================================================
