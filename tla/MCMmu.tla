------------------------------- MODULE MCMmu -------------------------------
(***************************************************************************)
(* A small instance of Mmu: tables of two entries, so that the eight words *)
(* of memory are four frames.  Frames 0 and 1 are RAM, frame 2 is ROM.     *)
(***************************************************************************)
EXTENDS Mmu

Pte(flags, ppn) == [flags |-> flags, ppn |-> ppn]

(* A pointer to frame 1, the last table; a user page, or megapage, marked  *)
(* dirty but not accessed; frame 1 mapped for the supervisor; supervisor   *)
(* code, with a page number above 32 bits.                                 *)
McValues ==
  {Pte({"V"}, 1), Pte({"V", "R", "W", "X", "U", "D"}, 0), Pte({"V", "R", "W"}, 1),
   Pte({"V", "X"}, 4)}

McImage ==
  [a \in Address |-> CASE a = 0 -> Pte({"V"}, 1)
                       [] a = 4 -> Pte({"V", "R", "X", "U"}, 1)
                       [] a = 5 -> Pte({"V"}, 1)
                       [] OTHER -> Pte({}, 0)]
=============================================================================
