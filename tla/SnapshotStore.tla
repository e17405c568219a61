--------------------------- MODULE SnapshotStore ---------------------------
(***************************************************************************)
(* What SpaceTime promises its users: a store of objects, named by ids,    *)
(* that can be snapshotted and put back.  A snapshot is a full copy of the *)
(* store, and the objects of HEAD can be changed without changing it.      *)
(* Making one renames the objects: their ids are slot numbers, and lose    *)
(* the gaps that removals left.                                            *)
(***************************************************************************)
EXTENDS Naturals, FiniteSets

CONSTANTS
  Id,      \* the names objects can get: <<slot, generation>>
  Value    \* their contents

VARIABLES
  work,    \* the objects of HEAD: a function from ids to values
  saved,   \* the snapshots: a function from snapshot ids to such functions
  at,      \* the snapshot HEAD is known to equal, or None
  made     \* the number of snapshots made, which names them

svars == <<work, saved, at, made>>

None == 0

Init ==
  /\ work = [i \in {} |-> None]
  /\ saved = [s \in {} |-> None]
  /\ at = None
  /\ made = 0

(* f with x mapped to v. *)
With(f, x, v) == [y \in DOMAIN f \cup {x} |-> IF y = x THEN v ELSE f[y]]
Without(f, x) == [y \in DOMAIN f \ {x} |-> f[y]]

(* An object gets a name that HEAD does not have. *)
Insert(v) ==
  \E i \in Id \ DOMAIN work :
    /\ work' = With(work, i, v)
    /\ at' = None
    /\ UNCHANGED <<saved, made>>

Write(i, v) ==
  /\ i \in DOMAIN work
  /\ work' = With(work, i, v)
  /\ at' = None
  /\ UNCHANGED <<saved, made>>

Remove(i) ==
  /\ i \in DOMAIN work
  /\ work' = Without(work, i)
  /\ at' = None
  /\ UNCHANGED <<saved, made>>

(* Asking for write access to an id that is not there changes nothing, but *)
(* HEAD counts as dirty from then on.                                      *)
Miss ==
  /\ at' = None
  /\ UNCHANGED <<work, saved, made>>

(* The place of an id among those of HEAD, and HEAD without gaps. *)
Place(i)  == Cardinality({j \in DOMAIN work : j[1] <= i[1]})
Compacted ==
  [k \in (1 .. Cardinality(DOMAIN work)) \X {0} |->
     work[CHOOSE i \in DOMAIN work : Place(i) = k[1]]]

MakeSnapshot ==
  /\ made' = made + 1
  /\ saved' = With(saved, made + 1, Compacted)
  /\ at' = made + 1
  /\ work' = Compacted

DropSnapshot(s) ==
  /\ s \in DOMAIN saved
  /\ saved' = Without(saved, s)
  /\ at' = IF at = s THEN None ELSE at
  /\ UNCHANGED <<work, made>>

Checkout(s) ==
  /\ s \in DOMAIN saved
  /\ work' = saved[s]
  /\ at' = s
  /\ UNCHANGED <<saved, made>>

Next ==
  \/ \E v \in Value : Insert(v)
  \/ \E i \in Id : Remove(i) \/ \E v \in Value : Write(i, v)
  \/ Miss
  \/ MakeSnapshot
  \/ \E s \in DOMAIN saved : DropSnapshot(s) \/ Checkout(s)

Spec == Init /\ [][Next]_svars
=============================================================================
