--------------------------- MODULE MCArrayStorage ---------------------------
(* ArrayStorage for TLC: what is written at once.                          *)
EXTENDS ArrayStorage, TLC

Names == Permutations(Name)

McBuffers == {<<2>>, <<2, 1, 2, 2>>}
=============================================================================
