------------------------------- MODULE Arrays -------------------------------
(***************************************************************************)
(* What ArrayStorage promises: arrays that are independent of each other,  *)
(* although a clone shares its pages with its original, and that remember  *)
(* the value they were made with.                                          *)
(***************************************************************************)
EXTENDS Naturals, Sequences

CONSTANTS
  Name,    \* what instances are called
  Value,   \* the values of elements
  Size,    \* the lengths arrays are made with
  Buffer   \* what is written at once: sequences of values

VARIABLE
  arrays   \* function from the names in use to [elems, fill]

Init == arrays = [a \in {} |-> <<>>]

Set(a, r) == arrays' = [b \in DOMAIN arrays \cup {a} |-> IF b = a THEN r ELSE arrays[b]]

New(a, v, n) ==
  /\ a \notin DOMAIN arrays
  /\ Set(a, [elems |-> [i \in 1 .. n |-> v], fill |-> v])

Clone(a, b) ==
  /\ a \in DOMAIN arrays /\ b \notin DOMAIN arrays
  /\ Set(b, arrays[a])

Drop(a) ==
  /\ a \in DOMAIN arrays
  /\ arrays' = [b \in DOMAIN arrays \ {a} |-> arrays[b]]

(* Elements from index on (counted from 0) are replaced by buf. *)
Write(a, index, buf) ==
  /\ a \in DOMAIN arrays
  /\ index + Len(buf) <= Len(arrays[a].elems)
  /\ Set(a, [arrays[a] EXCEPT !.elems =
               [i \in DOMAIN @ |-> IF i - 1 \in index .. index + Len(buf) - 1
                                     THEN buf[i - index] ELSE @[i]]])

Reset(a) ==
  /\ a \in DOMAIN arrays
  /\ Set(a, [arrays[a] EXCEPT !.elems = [i \in DOMAIN @ |-> arrays[a].fill]])

Next ==
  \/ \E a \in Name, v \in Value, n \in Size : New(a, v, n)
  \/ \E a, b \in Name : Clone(a, b)
  \/ \E a \in Name : Drop(a) \/ Reset(a)
  \/ \E a \in DOMAIN arrays, buf \in Buffer :
       \E i \in 0 .. Len(arrays[a].elems) : Write(a, i, buf)

Spec == Init /\ [][Next]_arrays
=============================================================================
