-------------------------- MODULE Simulator_proofs --------------------------
(***************************************************************************)
(* Proofs about Simulator, for every machine, every snapshot interval and  *)
(* every bound on the history.                                             *)
(*                                                                         *)
(* StructInv is the inductive invariant of navigation: besides the types   *)
(* and SnapshotOrder it says, in the middle of a call, where the replay    *)
(* target and the segment being scanned lie relative to the snapshots.     *)
(***************************************************************************)
EXTENDS Simulator, SequenceTheorems, TLAPS

-----------------------------------------------------------------------------
(* Sequences *)

(* What Append returns, for Vec::push. *)
LEMMA AppendFacts ==
  ASSUME NEW S, NEW s \in Seq(S), NEW e \in S
  PROVE  /\ Append(s, e) \in Seq(S)
         /\ Len(Append(s, e)) = Len(s) + 1
         /\ \A i \in 1 .. Len(s) : Append(s, e)[i] = s[i]
         /\ Append(s, e)[Len(s) + 1] = e
  BY AppendProperties

(* What a prefix is, for Vec::truncate and the drain of a tail. *)
LEMMA PrefixFacts ==
  ASSUME NEW S, NEW s \in Seq(S), NEW n \in 0 .. Len(s)
  PROVE  /\ SubSeq(s, 1, n) \in Seq(S)
         /\ Len(SubSeq(s, 1, n)) = n
         /\ \A i \in 1 .. n : SubSeq(s, 1, n)[i] = s[i]
<1>1. \A i \in 1 .. n : s[i] \in S
  BY LenProperties
<1>2. QED
  BY <1>1, SubSeqProperties

-----------------------------------------------------------------------------
(* Navigation *)

Ordered(snaps) ==
  /\ snaps \in Seq(Snapshots)
  /\ Len(snaps) > 0
  /\ snaps[1].head.state = 0
  /\ \A i, j \in 1 .. Len(snaps) :
       i < j => snaps[i].head.state < snaps[j].head.state

(* A head that navigation may start from. *)
Placed(snaps, h) ==
  /\ h \in Heads
  /\ h.nct <= Len(customs)
  /\ IsBase(snaps, h.base, h.state)

(* HEAD and every snapshot are at a state that history has.               *)
Recorded(snaps, h) ==
  /\ h.state < Len(trace)
  /\ \A k \in 1 .. Len(snaps) : snaps[k].head.state < Len(trace)

CallOK ==
  /\ pc = "replay" => /\ IsBase(snapshots, head.base, goal)
                      /\ head.state <= goal
  /\ pc \in {"enter", "sweep"} =>
       /\ scan.snap \in 1 .. Len(snapshots) - 1
       /\ snapshots[scan.snap].head.state < scan.top
       /\ scan.top <= snapshots[scan.snap + 1].head.state
  /\ pc = "enter" => scan.match = NoMatch
  /\ pc = "sweep" =>
       /\ head.base = scan.snap
       /\ head.state < scan.top
       /\ scan.match # NoMatch => /\ snapshots[scan.snap].head.state <= scan.match
                                  /\ scan.match <= head.state

StructInv ==
  /\ TypeOK
  /\ Ordered(snapshots)
  /\ Placed(snapshots, head)
  /\ Recorded(snapshots, head)
  /\ CallOK

(* The elements of an ordered sequence of snapshots have natural numbers   *)
(* as state indices and machine states as contents.                        *)
LEMMA SnapshotTypes ==
  ASSUME NEW snaps, Ordered(snaps), NEW k \in 1 .. Len(snaps)
  PROVE  /\ snaps[k] \in Snapshots
         /\ snaps[k].head.state \in Nat
         /\ snaps[k].mem \in Machine
         /\ Len(snaps) \in Nat
<1>1. snaps[k] \in Snapshots
  BY ElementOfSeq DEF Ordered
<1>2. QED
  BY <1>1 DEF Ordered, Snapshots, Heads

(* A snapshot is its own base, so at most one snapshot is the base of a    *)
(* state index.                                                            *)
LEMMA SnapshotIsItsBase ==
  ASSUME NEW snaps, Ordered(snaps), NEW k \in 1 .. Len(snaps)
  PROVE  /\ IsBase(snaps, k, snaps[k].head.state)
         /\ \A b \in 1 .. Len(snaps) :
              IsBase(snaps, b, snaps[k].head.state) => b = k
<1>1. \A i \in 1 .. Len(snaps) : snaps[i].head.state \in Nat
  BY SnapshotTypes
<1>2. Len(snaps) \in Nat
  BY SnapshotTypes
<1>3. IsBase(snaps, k, snaps[k].head.state)
  <2>1. \A i \in 1 .. k : snaps[i].head.state <= snaps[k].head.state
    BY <1>1, <1>2 DEF Ordered
  <2>2. \A i \in k + 1 .. Len(snaps) : snaps[i].head.state > snaps[k].head.state
    BY <1>1, <1>2 DEF Ordered
  <2>3. QED
    BY <2>1, <2>2 DEF IsBase
<1>4. ASSUME NEW b \in 1 .. Len(snaps), IsBase(snaps, b, snaps[k].head.state)
      PROVE  b = k
  <2>1. ~ (b < k)
    BY <1>1, <1>2, <1>4 DEF IsBase
  <2>2. ~ (k < b)
    BY <1>1, <1>2, <1>4 DEF IsBase, Ordered
  <2>3. QED
    BY <1>2, <2>1, <2>2
<1>5. QED
  BY <1>3, <1>4

(* go_to_snapshot ends exactly at that snapshot, whether it had to check   *)
(* it out or found HEAD there.                                             *)
LEMMA GoToSnapshotLands ==
  ASSUME TypeOK, NEW snaps, Ordered(snaps), NEW h, Placed(snaps, h),
         NEW k \in 1 .. Len(snaps), GoToSnapshot(snaps, h, k)
  PROVE  /\ Placed(snaps, head')
         /\ head'.state = snaps[k].head.state
         /\ head'.base = k
         /\ mem' \in Machine
<1>1. /\ IsBase(snaps, k, snaps[k].head.state)
      /\ \A b \in 1 .. Len(snaps) :
           IsBase(snaps, b, snaps[k].head.state) => b = k
  BY SnapshotIsItsBase
<1>2. /\ snaps[k].head.state \in Nat
      /\ snaps[k].mem \in Machine
      /\ Len(snaps) \in Nat
  BY SnapshotTypes
<1>3. CASE h.state = snaps[k].head.state
  BY <1>1, <1>2, <1>3 DEF GoToSnapshot, Placed, IsBase, TypeOK
<1>4. CASE h.state # snaps[k].head.state
  <2>1. PICK n \in 0 .. Len(customs) :
          head' = [state |-> snaps[k].head.state, base |-> k, nct |-> n]
    BY <1>4 DEF GoToSnapshot
  <2>2. Len(customs) \in Nat
    BY DEF TypeOK
  <2>3. QED
    BY <1>1, <1>2, <1>4, <2>1, <2>2 DEF GoToSnapshot, Placed, Heads
<1>5. QED
  BY <1>3, <1>4

(* A snapshot of a later state than any before it can be pushed.           *)
LEMMA PushOrdered ==
  ASSUME NEW snaps, Ordered(snaps), NEW e \in Snapshots,
         \A i \in 1 .. Len(snaps) : snaps[i].head.state < e.head.state
  PROVE  /\ Ordered(Append(snaps, e))
         /\ Len(Append(snaps, e)) = Len(snaps) + 1
         /\ \A i \in 1 .. Len(snaps) : Append(snaps, e)[i] = snaps[i]
         /\ Append(snaps, e)[Len(snaps) + 1] = e
         /\ IsBase(Append(snaps, e), Len(snaps) + 1, e.head.state)
<1>1. /\ Len(snaps) \in Nat
      /\ \A i \in 1 .. Len(snaps) : snaps[i].head.state \in Nat
  BY SnapshotTypes DEF Ordered
<1>2. /\ Append(snaps, e) \in Seq(Snapshots)
      /\ Len(Append(snaps, e)) = Len(snaps) + 1
      /\ \A i \in 1 .. Len(snaps) : Append(snaps, e)[i] = snaps[i]
      /\ Append(snaps, e)[Len(snaps) + 1] = e
  BY AppendFacts DEF Ordered
<1>3. e.head.state \in Nat
  BY DEF Snapshots, Heads
<1>4. Ordered(Append(snaps, e))
  BY <1>1, <1>2, <1>3 DEF Ordered
<1>5. IsBase(Append(snaps, e), Len(snaps) + 1, e.head.state)
  BY <1>1, <1>2, <1>3 DEF IsBase
<1>6. QED
  BY <1>2, <1>4, <1>5

(* Saving a dirty newest state keeps the order of the snapshots and leaves *)
(* HEAD on its base.                                                       *)
LEMMA SavingIsSound ==
  ASSUME StructInv
  PROVE  /\ Ordered(SavedSnapshots)
         /\ Placed(SavedSnapshots, SavedHead)
         /\ Recorded(SavedSnapshots, SavedHead)
         /\ SavedHead.state = head.state
         /\ ~Detached => SavedSnapshots[SavedHead.base].head.state = head.state
         /\ SavedHead.base = Len(SavedSnapshots) <=> ~Detached
<1> USE DEF StructInv
<1>1. CASE ~Dirty
  BY <1>1 DEF SavedSnapshots, SavedHead, Dirty, AtSnapshot, Detached
<1>2. CASE Dirty
  <2>1. /\ SavedHead = [head EXCEPT !.base = Len(snapshots) + 1]
        /\ SavedSnapshots = Append(snapshots, [head |-> SavedHead, mem |-> mem])
    BY <1>2 DEF SavedHead, SavedSnapshots
  <2>2. /\ Len(snapshots) \in Nat
        /\ \A i \in 1 .. Len(snapshots) : snapshots[i].head.state \in Nat
    BY SnapshotTypes DEF TypeOK
  <2>3. /\ SavedHead \in Heads
        /\ SavedHead.state = head.state
        /\ SavedHead.nct = head.nct
        /\ SavedHead.base = Len(snapshots) + 1
    <3>1. head \in [state : Nat, base : Nat, nct : Nat]
      BY DEF Placed, Heads
    <3>2. QED
      BY <2>1, <2>2, <3>1 DEF Heads
  <2>4. [head |-> SavedHead, mem |-> mem] \in Snapshots
    BY <2>3 DEF Snapshots, TypeOK
  <2>5. /\ head.state \in Nat
        /\ \A i \in 1 .. Len(snapshots) : snapshots[i].head.state < head.state
    BY <1>2, <2>2 DEF Dirty, Detached, AtSnapshot, Placed, IsBase, Ordered, Heads
  <2>6. /\ Ordered(SavedSnapshots)
        /\ Len(SavedSnapshots) = Len(snapshots) + 1
        /\ \A i \in 1 .. Len(snapshots) : SavedSnapshots[i] = snapshots[i]
        /\ SavedSnapshots[Len(snapshots) + 1] = [head |-> SavedHead, mem |-> mem]
        /\ IsBase(SavedSnapshots, Len(snapshots) + 1, head.state)
    BY <2>1, <2>3, <2>4, <2>5, PushOrdered
  <2>7. \A k \in 1 .. Len(SavedSnapshots) : SavedSnapshots[k].head.state < Len(trace)
    BY <2>2, <2>3, <2>6 DEF Recorded
  <2>8. QED
    BY <1>2, <2>2, <2>3, <2>6, <2>7 DEF Placed, Recorded, Dirty
<1>3. QED
  BY <1>1, <1>2

(* go_to_state starts its replay loop from the base of its target.         *)
LEMMA GoToStateLands ==
  ASSUME TypeOK, NEW snaps, Ordered(snaps), NEW h, Placed(snaps, h),
         NEW target \in Nat, GoToState(snaps, h, target)
  PROVE  /\ snapshots' = snaps
         /\ Placed(snaps, head')
         /\ IsBase(snaps, head'.base, target)
         /\ head'.state <= target
         /\ mem' \in Machine
<1>1. PICK k \in 1 .. Len(snaps) :
        /\ IsBase(snaps, k, target)
        /\ IF h.state # target /\ (k # h.base \/ target < h.state)
             THEN GoToSnapshot(snaps, h, k)
             ELSE head' = h /\ UNCHANGED mem
  BY DEF GoToState
<1>2. /\ snaps[k].head.state \in Nat
      /\ Len(snaps) \in Nat
      /\ h.state \in Nat
  BY SnapshotTypes DEF Placed, Heads
<1>3. CASE h.state # target /\ (k # h.base \/ target < h.state)
  <2>1. /\ Placed(snaps, head')
        /\ head'.state = snaps[k].head.state
        /\ head'.base = k
        /\ mem' \in Machine
    BY <1>1, <1>3, GoToSnapshotLands
  <2>2. QED
    BY <1>1, <1>2, <2>1 DEF GoToState, IsBase
<1>4. CASE ~(h.state # target /\ (k # h.base \/ target < h.state))
  BY <1>1, <1>2, <1>4, SMTT(30) DEF GoToState, Placed, TypeOK
<1>5. QED
  BY <1>3, <1>4

-----------------------------------------------------------------------------
(* Each action preserves StructInv *)

(* new establishes the invariant. *)
LEMMA InitStruct == Init => StructInv
<1> SUFFICES ASSUME Init PROVE StructInv
  OBVIOUS
<1> USE SimulatorAssumption
<1>1. InitialHead \in Heads
  BY DEF InitialHead, Heads
<1>2. snapshots \in Seq(Snapshots) /\ Len(snapshots) = 1
  BY <1>1 DEF Init, Snapshots
<1>3. TypeOK
  BY <1>1, <1>2 DEF Init, TypeOK, NoScan, NoCall, NoProbe, NoMatch
<1>4. Ordered(snapshots)
  BY <1>2 DEF Init, Ordered, InitialHead
<1>5. Placed(snapshots, head)
  BY <1>1, <1>2 DEF Init, Placed, IsBase, InitialHead
<1>6. Recorded(snapshots, head)
  BY <1>2 DEF Init, Recorded, InitialHead
<1>7. QED
  BY <1>3, <1>4, <1>5, <1>6 DEF Init, StructInv, CallOK

(* The tail of the snapshots that step drops leaves HEAD on the last one.  *)
LEMMA KeptAreOrdered ==
  ASSUME StructInv
  PROVE  /\ Ordered(KeptSnapshots)
         /\ Len(KeptSnapshots) = head.base
         /\ \A i \in 1 .. head.base : KeptSnapshots[i] = snapshots[i]
         /\ Placed(KeptSnapshots, head)
<1>1. head.base \in 1 .. Len(snapshots) /\ Len(snapshots) \in Nat
  BY DEF StructInv, TypeOK, Placed, IsBase
<1>2. /\ KeptSnapshots \in Seq(Snapshots)
      /\ Len(KeptSnapshots) = head.base
      /\ \A i \in 1 .. head.base : KeptSnapshots[i] = snapshots[i]
  BY <1>1, PrefixFacts DEF KeptSnapshots, StructInv, TypeOK
<1>3. Ordered(KeptSnapshots)
  BY <1>1, <1>2 DEF StructInv, Ordered
<1>4. Placed(KeptSnapshots, head)
  BY <1>1, <1>2 DEF StructInv, Placed, IsBase
<1>5. QED
  BY <1>2, <1>3, <1>4

(* The custom ticks a step keeps are a prefix of the recorded ones.        *)
LEMMA KeptCustomsTyped ==
  ASSUME StructInv
  PROVE  /\ KeptCustoms \in Seq(Customs)
         /\ Len(KeptCustoms) = IF Detached THEN head.nct ELSE Len(customs)
         /\ \A i \in 1 .. Len(KeptCustoms) : KeptCustoms[i] = customs[i]
         /\ head.nct <= Len(KeptCustoms)
         /\ head.nct \in Nat
<1>1. head.nct \in 0 .. Len(customs) /\ customs \in Seq(Customs)
  BY DEF StructInv, TypeOK, Placed, Heads
<1>2. QED
  BY <1>1, PrefixFacts DEF KeptCustoms

(* step and step_with. *)
LEMMA AdvanceStruct ==
  ASSUME StructInv, NEW t \in Tick, NEW ticks \in Seq(Customs),
         NEW n \in 0 .. Len(ticks), Advance(t, ticks, n)
  PROVE  StructInv'
<1> DEFINE next == [state |-> head.state + 1, base |-> head.base, nct |-> n]
           saved == [next EXCEPT !.base = Len(KeptSnapshots) + 1]
           m == Apply(t, mem)
           last == KeptSnapshots[Len(KeptSnapshots)].head.state
<1>1. /\ Ordered(KeptSnapshots)
      /\ Len(KeptSnapshots) = head.base
      /\ Placed(KeptSnapshots, head)
  BY KeptAreOrdered
<1>2. /\ head.state \in Nat
      /\ head.base \in Nat \ {0}
      /\ \A i \in 1 .. head.base : /\ KeptSnapshots[i].head.state \in Nat
                                   /\ KeptSnapshots[i].head.state <= head.state
  BY <1>1, SnapshotTypes DEF Placed, IsBase, Heads
<1>3. m \in Machine
  BY SimulatorAssumption DEF StructInv, TypeOK
<1>4. /\ next \in Heads /\ next.state = head.state + 1
      /\ next.base = head.base /\ next.nct = n
  BY <1>1, <1>2 DEF Heads
<1>5. /\ saved \in Heads /\ saved.state = head.state + 1
      /\ saved.base = head.base + 1 /\ saved.nct = n
  BY <1>1, <1>2, <1>4 DEF Heads
<1>6. /\ trace' \in Seq(Machine)
      /\ Len(trace') = head.state + 2
  <2>1. head.state + 1 \in 0 .. Len(trace) /\ trace \in Seq(Machine)
    BY <1>2, SMTT(30) DEF StructInv, Recorded, TypeOK
  <2>2. /\ SubSeq(trace, 1, head.state + 1) \in Seq(Machine)
        /\ Len(SubSeq(trace, 1, head.state + 1)) = head.state + 1
    BY <2>1, PrefixFacts
  <2>3. trace' = Append(SubSeq(trace, 1, head.state + 1), m)
    BY DEF Advance
  <2>4. QED
    BY <1>2, <1>3, <2>2, <2>3, AppendFacts
<1>7. UNCHANGED control /\ pc = "idle" /\ customs' = ticks /\ mem' = m
  BY DEF Advance
<1>8. /\ next.state - last > SnapshotInterval =>
           /\ head' = saved
           /\ snapshots' = Append(KeptSnapshots, [head |-> saved, mem |-> m])
      /\ ~(next.state - last > SnapshotInterval) =>
           /\ head' = next
           /\ snapshots' = KeptSnapshots
  BY DEF Advance
<1> HIDE DEF next, saved, m, last
<1>9. /\ Ordered(snapshots')
      /\ IsBase(snapshots', head'.base, head'.state)
      /\ head' \in Heads /\ head'.state = head.state + 1 /\ head'.nct = n
      /\ \A i \in 1 .. Len(snapshots') :
           snapshots'[i].head.state <= head.state + 1
  <2>1. CASE next.state - last > SnapshotInterval
    <3>1. PICK e \in Snapshots : e = [head |-> saved, mem |-> m]
      BY <1>3, <1>5 DEF Snapshots
    <3>2. /\ e.head = saved
          /\ \A i \in 1 .. Len(KeptSnapshots) :
                KeptSnapshots[i].head.state < e.head.state
      BY <1>1, <1>2, <1>5, <3>1
    <3>3. /\ Ordered(snapshots')
          /\ Len(snapshots') = head.base + 1
          /\ \A i \in 1 .. head.base : snapshots'[i] = KeptSnapshots[i]
          /\ snapshots'[head.base + 1] = e
          /\ IsBase(snapshots', head.base + 1, e.head.state)
      <4>1. snapshots' = Append(KeptSnapshots, e)
        BY <1>8, <2>1, <3>1
      <4>2. QED
        BY <1>1, <3>2, <4>1, PushOrdered
    <3>4. head' = saved
      BY <1>8, <2>1
    <3>5. \A i \in 1 .. Len(snapshots') :
            snapshots'[i].head.state <= head.state + 1
      <4>1. ASSUME NEW i \in 1 .. head.base
            PROVE  snapshots'[i].head.state <= head.state + 1
        <5>1. snapshots'[i] = KeptSnapshots[i]
          BY <3>3
        <5>2. /\ KeptSnapshots[i].head.state \in Nat
              /\ KeptSnapshots[i].head.state <= head.state
          BY <1>2
        <5>3. QED
          BY <1>2, <5>1, <5>2
      <4>2. snapshots'[head.base + 1].head.state = head.state + 1
        BY <1>5, <3>2, <3>3
      <4>3. QED
        BY <1>2, <3>3, <4>1, <4>2
    <3>6. QED
      BY <1>5, <3>2, <3>3, <3>4, <3>5
  <2>2. CASE ~(next.state - last > SnapshotInterval)
    <3>1. head' = next /\ snapshots' = KeptSnapshots
      BY <1>8, <2>2
    <3>2. IsBase(KeptSnapshots, head.base, head.state + 1)
      BY <1>1, <1>2 DEF IsBase
    <3>3. QED
      BY <1>1, <1>2, <1>4, <3>1, <3>2
  <2>3. QED
    BY <2>1, <2>2
<1>10. TypeOK'
  BY <1>3, <1>6, <1>7, <1>9 DEF StructInv, TypeOK, Ordered, control
<1>11. Placed(snapshots, head)' /\ Recorded(snapshots, head)'
  <2>1. head'.nct <= Len(customs')
    BY <1>7, <1>9
  <2>2. \A i \in 1 .. Len(snapshots') : snapshots'[i].head.state \in Nat
    BY <1>9, SnapshotTypes
  <2>3. Placed(snapshots, head)'
    BY <1>9, <2>1 DEF Placed, IsBase
  <2>4. head'.state < Len(trace')
    BY <1>2, <1>6, <1>9
  <2>5. \A i \in 1 .. Len(snapshots') : snapshots'[i].head.state < Len(trace')
    BY <1>2, <1>6, <1>9, <2>2
  <2>6. QED
    BY <2>3, <2>4, <2>5 DEF Recorded
<1>12. CallOK'
  BY <1>7 DEF CallOK, control
<1>13. QED
  BY <1>9, <1>10, <1>11, <1>12 DEF StructInv, Ordered
(* clear_forward_history, wherever it is called. *)
LEMMA ClearStruct ==
  ASSUME StructInv, ClearForwardHistory
  PROVE  StructInv'
<1>1. /\ Ordered(KeptSnapshots)
      /\ Len(KeptSnapshots) = head.base
      /\ \A i \in 1 .. head.base : KeptSnapshots[i] = snapshots[i]
      /\ Placed(KeptSnapshots, head)
  BY KeptAreOrdered
<1>2. /\ snapshots' = KeptSnapshots
      /\ customs' = SubSeq(customs, 1, head.nct)
      /\ trace' = SubSeq(trace, 1, head.state + 1)
      /\ UNCHANGED <<mem, head, control>>
      /\ pc = "idle"
  BY DEF ClearForwardHistory, KeptSnapshots
<1>3. customs' \in Seq(Customs) /\ Len(customs') = head.nct /\ head.nct \in Nat
  <2>1. head.nct \in 0 .. Len(customs) /\ customs \in Seq(Customs)
    BY DEF StructInv, TypeOK, Placed, Heads
  <2>2. QED
    BY <1>2, <2>1, PrefixFacts
<1>4. trace' \in Seq(Machine) /\ Len(trace') = head.state + 1 /\ head.state \in Nat
  <2>1. head.state + 1 \in 0 .. Len(trace) /\ trace \in Seq(Machine) /\ head.state \in Nat
    BY DEF StructInv, TypeOK, Recorded, Heads
  <2>2. QED
    BY <1>2, <2>1, PrefixFacts
<1>5. TypeOK'
  BY <1>1, <1>2, <1>3, <1>4 DEF StructInv, TypeOK, Ordered, control
<1>6. Placed(snapshots, head)'
  BY <1>1, <1>2, <1>3 DEF Placed, IsBase
<1>7. Recorded(snapshots, head)'
  <2>1. \A k \in 1 .. head.base : /\ KeptSnapshots[k].head.state \in Nat
                                  /\ KeptSnapshots[k].head.state <= head.state
    BY <1>1, SnapshotTypes DEF Placed, IsBase
  <2>2. QED
    BY <1>1, <1>2, <1>4, <2>1 DEF Recorded
<1>8. QED
  BY <1>1, <1>2, <1>5, <1>6, <1>7 DEF StructInv, CallOK, control, Ordered

(* undo_step, redo_step and go_to, up to their replay loop. *)
LEMMA TravelStruct ==
  ASSUME StructInv, NEW snaps, Ordered(snaps), NEW h, Placed(snaps, h),
         Recorded(snaps, h), NEW target \in Nat, GoToState(snaps, h, target),
         call' \in [op : {"none", "undo", "redo", "go_to", "undo_until"}, from : Nat]
  PROVE  StructInv'
<1>1. /\ snapshots' = snaps
      /\ Placed(snaps, head')
      /\ IsBase(snaps, head'.base, target)
      /\ head'.state <= target
      /\ mem' \in Machine
  BY GoToStateLands DEF StructInv
<1>2. /\ goal' = target
      /\ pc' = "replay"
      /\ UNCHANGED <<customs, scan, probe, trace>>
  BY DEF GoToState
<1>3. TypeOK'
  BY <1>1, <1>2 DEF StructInv, TypeOK, Ordered, Placed
<1>4. head'.state < Len(trace)
  <2>1. PICK k \in 1 .. Len(snaps) :
          IF h.state # target /\ (k # h.base \/ target < h.state)
            THEN GoToSnapshot(snaps, h, k) ELSE head' = h
    BY DEF GoToState
  <2>2. CASE GoToSnapshot(snaps, h, k)
    <3>1. head'.state = snaps[k].head.state
      BY <2>2, GoToSnapshotLands DEF StructInv
    <3>2. QED
      BY <3>1 DEF Recorded
  <2>3. CASE head' = h
    BY <2>3 DEF Recorded
  <2>4. QED
    BY <2>1, <2>2, <2>3
<1>5. QED
  BY <1>1, <1>2, <1>3, <1>4 DEF StructInv, Placed, Recorded, Ordered, CallOK

(* One replayed tick keeps HEAD between its base and the next snapshot, as *)
(* long as the state it replays to lies there.                             *)
LEMMA ReplayStepLands ==
  ASSUME StructInv, ReplayStep, NEW bound \in Nat, head.state < bound,
         IsBase(snapshots, head.base, bound)
  PROVE  /\ mem' \in Machine
         /\ snapshots' = snapshots
         /\ customs' = customs
         /\ head'.base = head.base
         /\ head'.state = head.state + 1
         /\ head.state \in Nat
         /\ trace' \in Seq(Machine)
         /\ Placed(snapshots, head')
         /\ Recorded(snapshots, head)'
<1> DEFINE isCustom == /\ head.nct < Len(customs)
                       /\ customs[head.nct + 1].step = head.state
           tick == IF isCustom THEN customs[head.nct + 1].tick ELSE PlainTick
           nct  == IF isCustom THEN head.nct + 1 ELSE head.nct
<1>1. /\ head \in Heads
      /\ head.state \in Nat /\ head.base \in Nat /\ head.nct \in Nat
      /\ head.nct <= Len(customs)
      /\ Len(customs) \in Nat
      /\ mem \in Machine
      /\ trace \in Seq(Machine)
      /\ Len(trace) \in Nat
      /\ head.state < Len(trace)
  BY DEF StructInv, TypeOK, Placed, Heads, Recorded
<1>2. tick \in Tick
  <2>1. CASE isCustom
    <3>1. customs[head.nct + 1] \in Customs
      BY <1>1, <2>1, ElementOfSeq DEF StructInv, TypeOK
    <3>2. QED
      BY <2>1, <3>1 DEF Customs, Tick
  <2>2. CASE ~isCustom
    BY <2>2 DEF Tick
  <2>3. QED
    BY <2>1, <2>2
<1>3. nct \in Nat /\ nct <= Len(customs)
  BY <1>1
<1>4. Apply(tick, mem) \in Machine
  BY <1>1, <1>2, SimulatorAssumption
<1>5. /\ mem' = Apply(tick, mem)
      /\ head' = [state |-> head.state + 1, base |-> head.base, nct |-> nct]
      /\ trace' = IF head.state + 1 = Len(trace)
                    THEN Append(trace, Apply(tick, mem)) ELSE trace
      /\ UNCHANGED <<snapshots, customs>>
  BY DEF ReplayStep
<1> HIDE DEF isCustom, tick, nct
<1>6. /\ head' \in Heads
      /\ head'.state = head.state + 1
      /\ head'.base = head.base
      /\ head'.nct = nct
  BY <1>1, <1>3, <1>5 DEF Heads
<1>7. /\ trace' \in Seq(Machine)
      /\ Len(trace') \in Nat
      /\ head.state + 1 < Len(trace')
      /\ Len(trace) <= Len(trace')
  <2>1. /\ Append(trace, Apply(tick, mem)) \in Seq(Machine)
        /\ Len(Append(trace, Apply(tick, mem))) = Len(trace) + 1
    BY <1>1, <1>4, AppendFacts
  <2>2. QED
    BY <1>1, <1>5, <2>1
<1>8. /\ Len(snapshots) \in Nat
      /\ \A i \in 1 .. Len(snapshots) : snapshots[i].head.state \in Nat
  BY SnapshotTypes DEF StructInv, TypeOK
<1>9. IsBase(snapshots, head.base, head.state + 1)
  <2>1. IsBase(snapshots, head.base, head.state)
    BY DEF StructInv, Placed
  <2>2. ASSUME NEW i \in 1 .. head.base
        PROVE  snapshots[i].head.state <= head.state + 1
    <3>1. snapshots[i].head.state <= head.state /\ i \in 1 .. Len(snapshots)
      BY <1>8, <2>1 DEF IsBase
    <3>2. QED
      BY <1>1, <1>8, <3>1
  <2>3. ASSUME NEW i \in head.base + 1 .. Len(snapshots)
        PROVE  snapshots[i].head.state > head.state + 1
    <3>1. snapshots[i].head.state > bound /\ i \in 1 .. Len(snapshots)
      BY <1>1, <1>8 DEF IsBase
    <3>2. QED
      BY <1>1, <1>8, <3>1
  <2>4. QED
    BY <2>1, <2>2, <2>3 DEF IsBase
<1>10. Recorded(snapshots, head)'
  <2>1. \A k \in 1 .. Len(snapshots) : snapshots[k].head.state < Len(trace')
    BY <1>1, <1>7, <1>8 DEF StructInv, Recorded
  <2>2. QED
    BY <1>5, <1>6, <1>7, <2>1 DEF Recorded
<1>11. QED
  BY <1>1, <1>3, <1>4, <1>5, <1>6, <1>7, <1>9, <1>10 DEF Placed
(* Every state of the segment being scanned has the segment's snapshot as  *)
(* its base.                                                               *)
LEMMA SegmentBase ==
  ASSUME StructInv, pc \in {"enter", "sweep"}, NEW s \in Nat,
         snapshots[scan.snap].head.state <= s, s < scan.top
  PROVE  IsBase(snapshots, scan.snap, s)
<1>1. /\ Len(snapshots) \in Nat
      /\ \A i \in 1 .. Len(snapshots) : snapshots[i].head.state \in Nat
  BY SnapshotTypes DEF StructInv, TypeOK
<1>2. /\ scan.snap \in 1 .. Len(snapshots) - 1
      /\ scan.top <= snapshots[scan.snap + 1].head.state
      /\ scan.top \in Nat
  BY DEF StructInv, CallOK, TypeOK
<1>3. ASSUME NEW i \in 1 .. scan.snap
      PROVE  snapshots[i].head.state <= s
  <2>1. i \in 1 .. Len(snapshots) /\ scan.snap \in 1 .. Len(snapshots)
    BY <1>1, <1>2
  <2>2. i < scan.snap => snapshots[i].head.state < snapshots[scan.snap].head.state
    BY <2>1 DEF StructInv, Ordered
  <2>3. QED
    BY <1>1, <2>1, <2>2
<1>4. ASSUME NEW i \in scan.snap + 1 .. Len(snapshots)
      PROVE  snapshots[i].head.state > s
  <2>1. i \in 1 .. Len(snapshots) /\ scan.snap + 1 \in 1 .. Len(snapshots)
    BY <1>1, <1>2
  <2>2. scan.snap + 1 < i =>
          snapshots[scan.snap + 1].head.state < snapshots[i].head.state
    BY <2>1 DEF StructInv, Ordered
  <2>3. QED
    BY <1>1, <1>2, <2>1, <2>2, SMTT(30)
<1>5. QED
  BY <1>1, <1>2, <1>3, <1>4 DEF IsBase

(* An iteration of the replay loop. *)
LEMMA ReplayStruct ==
  ASSUME StructInv, Replay
  PROVE  StructInv'
<1>1. pc = "replay" /\ head.state # goal /\ ReplayStep /\ UNCHANGED control
  BY DEF Replay
<1>2. /\ IsBase(snapshots, head.base, goal)
      /\ head.state <= goal /\ goal \in Nat /\ head.state \in Nat
  BY <1>1 DEF StructInv, CallOK, TypeOK, Heads
<1>3. /\ mem' \in Machine
      /\ snapshots' = snapshots
      /\ customs' = customs
      /\ head'.base = head.base
      /\ head'.state = head.state + 1
      /\ trace' \in Seq(Machine)
      /\ Placed(snapshots, head')
      /\ Recorded(snapshots, head)'
  BY <1>1, <1>2, ReplayStepLands
<1>4. TypeOK'
  BY <1>1, <1>3 DEF StructInv, TypeOK, Placed, control
<1>5. CallOK'
  BY <1>1, <1>2, <1>3 DEF CallOK, control
<1>6. QED
  BY <1>3, <1>4, <1>5 DEF StructInv, Ordered, Placed

(* The return of a call. *)
LEMMA ReturnStruct ==
  ASSUME StructInv, Return
  PROVE  StructInv'
  BY DEF StructInv, Return, EndCall, TypeOK, Ordered, Placed, Recorded, CallOK,
         IsBase, NoScan, NoCall, NoProbe, NoMatch

(* The start of undo_steps_until, before its first segment.                *)
LEMMA BeginScanStruct ==
  ASSUME StructInv, BeginScan
  PROVE  StructInv'
<1> DEFINE atSnapshot == SavedSnapshots[SavedHead.base].head.state = head.state
<1>1. /\ Ordered(SavedSnapshots)
      /\ Placed(SavedSnapshots, SavedHead)
      /\ Recorded(SavedSnapshots, SavedHead)
      /\ SavedHead.state = head.state
      /\ ~Detached => atSnapshot
      /\ SavedHead.base = Len(SavedSnapshots) <=> ~Detached
  BY SavingIsSound
<1>2. /\ snapshots' = SavedSnapshots
      /\ head' = SavedHead
      /\ pc' = "enter"
      /\ scan' = [snap |-> IF atSnapshot THEN SavedHead.base - 1 ELSE SavedHead.base,
                  top |-> head.state, match |-> NoMatch]
      /\ head.state > 0
      /\ UNCHANGED <<mem, customs, goal, trace>>
      /\ call' = [op |-> "undo_until", from |-> head.state]
      /\ probe' = [seen |-> {}, hits |-> {}, visited |-> head.state]
  BY DEF BeginScan
<1>3. /\ Len(SavedSnapshots) \in Nat
      /\ \A i \in 1 .. Len(SavedSnapshots) : SavedSnapshots[i].head.state \in Nat
      /\ head.state \in Nat
      /\ SavedHead.base \in 1 .. Len(SavedSnapshots)
      /\ SavedSnapshots[1].head.state = 0
  BY <1>1, SnapshotTypes DEF StructInv, TypeOK, Heads, Placed, IsBase, Ordered
<1>4. /\ scan'.snap \in 1 .. Len(SavedSnapshots) - 1
      /\ SavedSnapshots[scan'.snap].head.state < head.state
      /\ head.state <= SavedSnapshots[scan'.snap + 1].head.state
  <2>1. CASE atSnapshot
    <3>1. SavedHead.base # 1
      BY <1>2, <1>3, <2>1
    <3>2. scan'.snap = SavedHead.base - 1
      BY <1>2, <2>1
    <3>3. SavedSnapshots[SavedHead.base - 1].head.state < SavedSnapshots[SavedHead.base].head.state
      BY <1>1, <1>3, <3>1 DEF Ordered
    <3>4. QED
      BY <1>3, <2>1, <3>1, <3>2, <3>3
  <2>2. CASE ~atSnapshot
    <3>1. SavedHead.base # Len(SavedSnapshots) /\ scan'.snap = SavedHead.base
      BY <1>1, <1>2, <2>2
    <3>2. /\ SavedSnapshots[SavedHead.base].head.state <= head.state
          /\ head.state < SavedSnapshots[SavedHead.base + 1].head.state
      BY <1>1, <1>3, <3>1, SMTT(30) DEF Placed, IsBase
    <3>3. QED
      BY <1>3, <2>2, <3>1, <3>2
  <2>3. QED
    BY <2>1, <2>2
<1>5. scan'.top = head.state /\ scan'.match = NoMatch /\ scan'.snap \in Nat
  BY <1>2, <1>3, <1>4
<1>6. TypeOK'
  BY <1>1, <1>2, <1>3, <1>5 DEF StructInv, TypeOK, Ordered, Placed
<1>7. CallOK'
  BY <1>2, <1>4, <1>5 DEF CallOK
<1>8. QED
  BY <1>1, <1>2, <1>6, <1>7 DEF StructInv, Ordered, Placed, Recorded
(* pred only adds to what the call remembers. *)
LEMMA AskPredTyped ==
  ASSUME TypeOK, NEW some \in BOOLEAN, AskPred(some), head'.state \in Nat
  PROVE  /\ scan' \in [snap : Nat, top : Nat, match : Nat \cup {NoMatch}]
         /\ scan'.snap = scan.snap
         /\ scan'.top = scan.top
         /\ scan'.match = IF some THEN head'.state ELSE scan.match
         /\ probe' \in [seen : SUBSET Nat, hits : SUBSET Nat, visited : Nat]
<1>1. /\ scan' = [scan EXCEPT !.match = IF some THEN head'.state ELSE scan.match]
      /\ scan \in [snap : Nat, top : Nat, match : Nat \cup {NoMatch}]
  BY DEF AskPred, TypeOK
<1>2. /\ scan' \in [snap : Nat, top : Nat, match : Nat \cup {NoMatch}]
      /\ scan'.snap = scan.snap
      /\ scan'.top = scan.top
      /\ scan'.match = IF some THEN head'.state ELSE scan.match
  BY <1>1
<1>3. probe' \in [seen : SUBSET Nat, hits : SUBSET Nat, visited : Nat]
  BY DEF AskPred, TypeOK
<1>4. QED
  BY <1>2, <1>3

(* The start of a segment: HEAD at its snapshot. *)
LEMMA EnterStruct ==
  ASSUME StructInv, NEW some \in BOOLEAN, EnterSegment(some)
  PROVE  StructInv'
<1>1. /\ pc = "enter" /\ pc' = "sweep"
      /\ GoToSnapshot(snapshots, head, scan.snap)
      /\ AskPred(some)
      /\ UNCHANGED <<snapshots, customs, goal, call, trace>>
  BY DEF EnterSegment
<1>2. /\ scan.snap \in 1 .. Len(snapshots) - 1
      /\ snapshots[scan.snap].head.state < scan.top
      /\ scan.top <= snapshots[scan.snap + 1].head.state
      /\ Len(snapshots) \in Nat
  BY <1>1 DEF StructInv, CallOK, TypeOK
<1>3. /\ Placed(snapshots, head')
      /\ head'.state = snapshots[scan.snap].head.state
      /\ head'.base = scan.snap
      /\ mem' \in Machine
  BY <1>1, <1>2, GoToSnapshotLands DEF StructInv
<1>4. head'.state \in Nat
  BY <1>3 DEF Placed, Heads
<1>5. /\ scan' \in [snap : Nat, top : Nat, match : Nat \cup {NoMatch}]
      /\ scan'.snap = scan.snap
      /\ scan'.top = scan.top
      /\ scan'.match = IF some THEN head'.state ELSE scan.match
      /\ probe' \in [seen : SUBSET Nat, hits : SUBSET Nat, visited : Nat]
  BY <1>1, <1>4, AskPredTyped DEF StructInv
<1>6. TypeOK'
  BY <1>1, <1>3, <1>5 DEF StructInv, TypeOK, Placed
<1>7. Recorded(snapshots, head)'
  BY <1>1, <1>2, <1>3 DEF StructInv, Recorded
<1>8. Placed(snapshots, head)'
  BY <1>1, <1>3 DEF Placed, IsBase
<1>9. scan.match = NoMatch
  BY <1>1 DEF StructInv, CallOK
<1>10. CallOK'
  BY <1>1, <1>2, <1>3, <1>4, <1>5, <1>9 DEF CallOK
<1>11. QED
  BY <1>1, <1>6, <1>7, <1>8, <1>10 DEF StructInv, Ordered

(* The sweep of a segment: one replayed tick, and pred. *)
LEMMA SweepStruct ==
  ASSUME StructInv, NEW some \in BOOLEAN, SweepSegment(some)
  PROVE  StructInv'
<1>1. /\ pc = "sweep" /\ pc' = pc
      /\ head.state < scan.top - 1
      /\ ReplayStep
      /\ AskPred(some)
      /\ UNCHANGED <<goal, call>>
  BY DEF SweepSegment
<1>2. /\ scan.snap \in 1 .. Len(snapshots) - 1
      /\ snapshots[scan.snap].head.state < scan.top
      /\ scan.top <= snapshots[scan.snap + 1].head.state
      /\ head.base = scan.snap
      /\ scan.top \in Nat
      /\ head.state \in Nat
      /\ snapshots[scan.snap].head.state <= head.state
  BY <1>1 DEF StructInv, CallOK, TypeOK, Heads, Placed, IsBase
<1>3. scan.top - 1 \in Nat
  BY <1>1, <1>2
<1>4. IsBase(snapshots, head.base, scan.top - 1)
  <2>1. snapshots[scan.snap].head.state \in Nat
    BY <1>2, SnapshotTypes DEF StructInv, TypeOK
  <2>2. QED
    BY <1>1, <1>2, <1>3, <2>1, SegmentBase, SMTT(30)
<1>5. /\ mem' \in Machine
      /\ snapshots' = snapshots
      /\ customs' = customs
      /\ head'.base = head.base
      /\ head'.state = head.state + 1
      /\ trace' \in Seq(Machine)
      /\ Placed(snapshots, head')
      /\ Recorded(snapshots, head)'
  BY <1>1, <1>3, <1>4, ReplayStepLands
<1>6. /\ scan' \in [snap : Nat, top : Nat, match : Nat \cup {NoMatch}]
      /\ scan'.snap = scan.snap
      /\ scan'.top = scan.top
      /\ scan'.match = IF some THEN head'.state ELSE scan.match
      /\ probe' \in [seen : SUBSET Nat, hits : SUBSET Nat, visited : Nat]
  BY <1>1, <1>2, <1>5, AskPredTyped DEF StructInv
<1>7. TypeOK'
  BY <1>1, <1>5, <1>6 DEF StructInv, TypeOK, Placed
<1>8. Placed(snapshots, head)'
  BY <1>5 DEF Placed, IsBase
<1>9. scan.match # NoMatch => /\ snapshots[scan.snap].head.state <= scan.match
                              /\ scan.match <= head.state
                              /\ scan.match \in Nat
  BY <1>1 DEF StructInv, CallOK, TypeOK
<1>10. CallOK'
  <2>1. snapshots[scan.snap].head.state \in Nat
    BY <1>2, SnapshotTypes DEF StructInv, TypeOK
  <2>2. scan'.match # NoMatch =>
          /\ snapshots[scan.snap].head.state <= scan'.match
          /\ scan'.match <= head.state + 1
    BY <1>2, <1>5, <1>6, <1>9, <2>1
  <2>3. QED
    BY <1>1, <1>2, <1>5, <1>6, <2>2 DEF CallOK
<1>11. QED
  BY <1>5, <1>7, <1>8, <1>10 DEF StructInv, Ordered
(* A segment in which pred accepted a state: HEAD goes back to replay up   *)
(* to it.                                                                  *)
LEMMA MatchedStruct ==
  ASSUME StructInv, SegmentMatched
  PROVE  StructInv'
<1>1. /\ pc = "sweep" /\ pc' = "replay" /\ goal' = scan.match
      /\ scan.match # NoMatch
      /\ IF scan.match < head.state
           THEN GoToSnapshot(snapshots, head, scan.snap)
           ELSE UNCHANGED <<head, mem>>
      /\ UNCHANGED <<snapshots, customs, scan, call, probe, trace>>
  BY DEF SegmentMatched
<1>2. /\ scan.snap \in 1 .. Len(snapshots)
      /\ head.base = scan.snap
      /\ snapshots[scan.snap].head.state <= scan.match
      /\ scan.match <= head.state
      /\ head.state < scan.top
      /\ scan.match \in Nat /\ scan.top \in Nat /\ head.state \in Nat
  BY <1>1 DEF StructInv, CallOK, TypeOK, Heads
<1>3. IsBase(snapshots, scan.snap, scan.match)
  BY <1>1, <1>2, SegmentBase
<1>4. /\ Placed(snapshots, head')
      /\ head'.base = scan.snap
      /\ head'.state <= scan.match
      /\ head'.state < Len(trace)
      /\ mem' \in Machine
  <2>1. CASE scan.match < head.state
    <3>1. /\ Placed(snapshots, head')
          /\ head'.state = snapshots[scan.snap].head.state
          /\ head'.base = scan.snap
          /\ mem' \in Machine
      BY <1>1, <1>2, <2>1, GoToSnapshotLands DEF StructInv
    <3>2. QED
      BY <1>2, <3>1 DEF StructInv, Recorded
  <2>2. CASE ~(scan.match < head.state)
    BY <1>1, <1>2, <2>2 DEF StructInv, TypeOK, Recorded
  <2>3. QED
    BY <2>1, <2>2
<1>5. TypeOK'
  BY <1>1, <1>2, <1>4 DEF StructInv, TypeOK, Placed
<1>6. Placed(snapshots, head)' /\ Recorded(snapshots, head)'
  BY <1>1, <1>4 DEF StructInv, Placed, Recorded, IsBase
<1>7. CallOK'
  BY <1>1, <1>3, <1>4 DEF CallOK, IsBase
<1>8. QED
  BY <1>1, <1>5, <1>6, <1>7 DEF StructInv, Ordered

(* A segment without one: on to the segment before it, or, after the first *)
(* segment, to the start of history.                                       *)
LEMMA MissedStruct ==
  ASSUME StructInv, SegmentMissed
  PROVE  StructInv'
<1>1. /\ pc = "sweep"
      /\ scan.match = NoMatch
      /\ UNCHANGED <<snapshots, customs, trace>>
  BY DEF SegmentMissed
<1>2. /\ scan.snap \in 1 .. Len(snapshots) - 1
      /\ Len(snapshots) \in Nat
      /\ \A i \in 1 .. Len(snapshots) : snapshots[i].head.state \in Nat
  BY <1>1, SnapshotTypes DEF StructInv, CallOK, TypeOK
<1>3. CASE scan.snap > 1
  <2>1. /\ pc' = "enter"
        /\ scan' = [snap |-> scan.snap - 1,
                    top |-> snapshots[scan.snap].head.state, match |-> NoMatch]
        /\ probe' = [probe EXCEPT !.visited = head.state]
        /\ UNCHANGED <<head, mem, goal, call>>
    BY <1>2, <1>3 DEF SegmentMissed, ReachedStart
  <2>2. /\ scan' \in [snap : Nat, top : Nat, match : Nat \cup {NoMatch}]
        /\ scan'.snap = scan.snap - 1
        /\ scan'.top = snapshots[scan.snap].head.state
        /\ scan'.match = NoMatch
    BY <1>1, <1>2, <1>3, <2>1 DEF StructInv, TypeOK
  <2>3. probe' \in [seen : SUBSET Nat, hits : SUBSET Nat, visited : Nat]
    BY <2>1 DEF StructInv, TypeOK, Heads
  <2>4. snapshots[scan.snap - 1].head.state < snapshots[scan.snap].head.state
    <3>1. /\ scan.snap \in 1 .. Len(snapshots) /\ scan.snap - 1 \in 1 .. Len(snapshots)
          /\ scan.snap - 1 < scan.snap
      BY <1>2, <1>3
    <3>2. QED
      BY <3>1 DEF StructInv, Ordered
  <2>5. TypeOK'
    BY <1>1, <2>1, <2>2, <2>3 DEF StructInv, TypeOK
  <2>6. CallOK'
    BY <1>1, <1>2, <1>3, <2>1, <2>2, <2>4 DEF CallOK
  <2>7. QED
    BY <1>1, <2>1, <2>5, <2>6 DEF StructInv, Ordered, Placed, Recorded, IsBase
<1>4. CASE scan.snap = 1
  <2>1. GoToSnapshot(snapshots, head, 1) /\ EndCall
    BY <1>4 DEF SegmentMissed, ReachedStart
  <2>2. 1 \in 1 .. Len(snapshots)
    BY <1>2
  <2>3. /\ Placed(snapshots, head')
        /\ head'.state = snapshots[1].head.state
        /\ mem' \in Machine
    BY <2>1, <2>2, GoToSnapshotLands DEF StructInv
  <2>4. TypeOK'
    BY <1>1, <2>1, <2>3 DEF StructInv, TypeOK, Placed, EndCall, NoScan, NoCall,
                            NoProbe, NoMatch
  <2>5. Placed(snapshots, head)' /\ Recorded(snapshots, head)'
    BY <1>1, <2>2, <2>3 DEF StructInv, Placed, Recorded, IsBase
  <2>6. QED
    BY <1>1, <2>1, <2>4, <2>5 DEF StructInv, Ordered, CallOK, EndCall
<1>5. QED
  BY <1>2, <1>3, <1>4

(* A stuttering step changes nothing StructInv looks at. *)
LEMMA StutterStruct == StructInv /\ UNCHANGED vars => StructInv'
  BY DEF StructInv, TypeOK, Ordered, Placed, Recorded, CallOK, IsBase, vars, control

LEMMA NextStruct == StructInv /\ [Next]_vars => StructInv'
<1> SUFFICES ASSUME StructInv, [Next]_vars PROVE StructInv'
  OBVIOUS
<1>1. /\ KeptCustoms \in Seq(Customs)
      /\ head.nct \in 0 .. Len(KeptCustoms)
      /\ Len(KeptCustoms) \in Nat
      /\ head.state \in Nat
  BY KeptCustomsTyped DEF StructInv, TypeOK, Heads
<1>2. CASE Step
  BY <1>1, <1>2, AdvanceStruct DEF Step, Tick
<1>3. ASSUME NEW c \in CustomTick, StepWith(c) PROVE StructInv'
  <2> DEFINE entry == [step |-> head.state, tick |-> c]
  <2>1. entry \in Customs
    BY <1>1 DEF Customs
  <2>2. /\ Append(KeptCustoms, entry) \in Seq(Customs)
        /\ Len(Append(KeptCustoms, entry)) = Len(KeptCustoms) + 1
    BY <1>1, <2>1, AppendFacts
  <2>3. Len(KeptCustoms) \in 0 .. Len(Append(KeptCustoms, entry))
    BY <1>1, <2>2
  <2>4. Advance(c, Append(KeptCustoms, entry), Len(KeptCustoms)) /\ c \in Tick
    BY <1>3 DEF StepWith, Tick
  <2>5. QED
    BY <2>2, <2>3, <2>4, AdvanceStruct
<1>4. CASE ClearForwardHistory
  BY <1>4, ClearStruct
<1>5. CASE UndoStep
  <2>1. head.state - 1 \in Nat
    BY <1>1, <1>5 DEF UndoStep
  <2>2. call' \in [op : {"none", "undo", "redo", "go_to", "undo_until"}, from : Nat]
    BY <1>1, <1>5 DEF UndoStep
  <2>3. GoToState(SavedSnapshots, SavedHead, head.state - 1)
    BY <1>5 DEF UndoStep
  <2>4. QED
    BY <2>1, <2>2, <2>3, SavingIsSound, TravelStruct
<1>6. CASE RedoStep
  <2>1. call' \in [op : {"none", "undo", "redo", "go_to", "undo_until"}, from : Nat]
    BY <1>1, <1>6 DEF RedoStep
  <2>2. GoToState(snapshots, head, head.state + 1)
    BY <1>6 DEF RedoStep
  <2>3. QED
    BY <1>1, <2>1, <2>2, TravelStruct DEF StructInv
<1>7. ASSUME NEW n \in 0 .. MaxSteps, GoTo(n) PROVE StructInv'
  <2>1. call' \in [op : {"none", "undo", "redo", "go_to", "undo_until"}, from : Nat]
    BY <1>1, <1>7 DEF GoTo
  <2>2. GoToState(SavedSnapshots, SavedHead, n) /\ n \in Nat
    BY <1>7, SimulatorAssumption DEF GoTo
  <2>3. QED
    BY <2>1, <2>2, SavingIsSound, TravelStruct
<1>8. CASE BeginScan
  BY <1>8, BeginScanStruct
<1>9. CASE Internal
  BY <1>9, ReplayStruct, ReturnStruct, EnterStruct, SweepStruct, MatchedStruct,
     MissedStruct DEF Internal
<1>10. CASE UNCHANGED vars
  BY <1>10, StutterStruct
<1>11. QED
  BY <1>2, <1>3, <1>4, <1>5, <1>6, <1>7, <1>8, <1>9, <1>10 DEF Next

-----------------------------------------------------------------------------
(* The navigation invariant holds in every reachable state. *)
THEOREM Structure == Spec => []StructInv
<1>1. QED
  BY InitStruct, NextStruct, PTL DEF Spec

(* The variables of the simulator keep their types, whatever the machine.  *)
THEOREM TypeCorrect == Spec => []TypeOK
<1>1. StructInv => TypeOK
  BY DEF StructInv
<1>2. QED
  BY <1>1, Structure, PTL

(* simulator.rs:110 and :603: the snapshots stay in strictly increasing    *)
(* order, and base_snapshot_index is the last one before or on HEAD, at    *)
(* every point of every method.                                            *)
THEOREM SnapshotsOrdered == Spec => []SnapshotOrder
<1>1. StructInv => SnapshotOrder
  BY DEF StructInv, Ordered, Placed, SnapshotOrder
<1>2. QED
  BY <1>1, Structure, PTL

-----------------------------------------------------------------------------
(* undo_steps_until *)

(* Nothing would be lost if h went elsewhere. *)
Clean(snaps, h) ==
  h.base = Len(snaps) => h.state = snaps[Len(snaps)].head.state

(* What a call of undo_steps_until has found out so far.  In the middle of *)
(* a segment it has asked about that segment up to HEAD, and about all the *)
(* later ones, where pred accepted nothing.                                *)
ScanInv ==
  /\ pc = "idle" => call = NoCall
  /\ pc \in {"enter", "sweep"} => /\ call.op = "undo_until"
                                  /\ scan.top <= call.from
                                  /\ scan.top <= probe.visited
  /\ pc = "enter" => /\ Clean(snapshots, head)
                     /\ probe.hits = {}
                     /\ probe.seen = scan.top .. call.from - 1
  /\ pc = "sweep" =>
       /\ probe.seen = (snapshots[scan.snap].head.state .. head.state)
                         \cup (scan.top .. call.from - 1)
       /\ IF scan.match = NoMatch
            THEN probe.hits = {}
            ELSE /\ scan.match \in probe.hits
                 /\ \A i \in probe.hits : i <= scan.match
  /\ (pc = "replay" /\ call.op = "undo_until") =>
       /\ goal \in probe.hits
       /\ \A i \in probe.hits : i <= goal
       /\ goal .. call.from - 1 \subseteq probe.seen
       /\ goal < probe.visited

(* The types that the reasoning about a scan needs. *)
LEMMA ScanTypes ==
  ASSUME StructInv
  PROVE  /\ head.state \in Nat /\ scan.top \in Nat /\ scan.snap \in Nat
         /\ goal \in Nat /\ call.from \in Nat /\ probe.visited \in Nat
         /\ probe.seen \subseteq Nat /\ probe.hits \subseteq Nat
         /\ scan.match \in Nat \cup {NoMatch} /\ NoMatch = -1
         /\ probe \in [seen : SUBSET Nat, hits : SUBSET Nat, visited : Nat]
         /\ Len(snapshots) \in Nat
         /\ \A i \in 1 .. Len(snapshots) : snapshots[i].head.state \in Nat
<1>1. Len(snapshots) \in Nat /\ \A i \in 1 .. Len(snapshots) : snapshots[i].head.state \in Nat
  BY SnapshotTypes DEF StructInv, TypeOK
<1>2. QED
  BY <1>1 DEF StructInv, TypeOK, Heads, NoMatch

(* In the middle of a segment, what CallOK says of HEAD and the segment.   *)
LEMMA SweepTypes ==
  ASSUME StructInv, pc \in {"enter", "sweep"}
  PROVE  /\ scan.snap \in 1 .. Len(snapshots)
         /\ snapshots[scan.snap].head.state \in Nat
         /\ snapshots[scan.snap].head.state < scan.top
         /\ pc = "sweep" => /\ snapshots[scan.snap].head.state <= head.state
                            /\ head.state < scan.top
                            /\ head.base = scan.snap
<1>1. /\ scan.snap \in 1 .. Len(snapshots) - 1
      /\ snapshots[scan.snap].head.state < scan.top
      /\ pc = "sweep" => head.base = scan.snap /\ head.state < scan.top
  BY DEF StructInv, CallOK
<1>2. scan.snap \in 1 .. Len(snapshots) /\ snapshots[scan.snap].head.state \in Nat
  BY <1>1, ScanTypes
<1>3. pc = "sweep" => snapshots[scan.snap].head.state <= head.state
  BY <1>1, <1>2, ScanTypes, SMTT(30) DEF StructInv, Placed, IsBase
<1>4. QED
  BY <1>1, <1>2, <1>3

(* pred is asked about the state HEAD has moved to. *)
LEMMA AskPredAdds ==
  ASSUME StructInv, NEW some \in BOOLEAN, AskPred(some), head'.state \in Nat
  PROVE  /\ probe'.seen = probe.seen \cup {head'.state}
         /\ probe'.hits = IF some THEN probe.hits \cup {head'.state} ELSE probe.hits
         /\ probe'.visited = probe.visited
         /\ scan'.snap = scan.snap
         /\ scan'.top = scan.top
         /\ scan'.match = IF some THEN head'.state ELSE scan.match
<1>1. probe' = [probe EXCEPT
                  !.seen = probe.seen \cup {head'.state},
                  !.hits = IF some THEN probe.hits \cup {head'.state} ELSE probe.hits]
  BY DEF AskPred
<1>2. probe \in [seen : SUBSET Nat, hits : SUBSET Nat, visited : Nat]
  BY ScanTypes
<1>3. QED
  BY <1>1, <1>2, AskPredTyped DEF StructInv

(* What the start of a scan leaves to it: the newest state is saved.       *)
LEMMA SavedIsClean ==
  ASSUME StructInv
  PROVE  Clean(SavedSnapshots, SavedHead)
BY SavingIsSound DEF Clean

LEMMA BeginScanScan ==
  ASSUME StructInv, BeginScan
  PROVE  ScanInv'
<1>1. /\ snapshots' = SavedSnapshots /\ head' = SavedHead /\ pc' = "enter"
      /\ scan'.top = head.state
      /\ call'.op = "undo_until" /\ call'.from = head.state
      /\ probe'.seen = {} /\ probe'.hits = {} /\ probe'.visited = head.state
  BY DEF BeginScan
<1>2. head.state \in Nat
  BY ScanTypes
<1>3. Clean(snapshots, head)'
  BY <1>1, SavedIsClean DEF Clean
<1>4. probe'.seen = scan'.top .. call'.from - 1
  BY <1>1, <1>2
<1>5. QED
  BY <1>1, <1>2, <1>3, <1>4 DEF ScanInv

LEMMA EnterScan ==
  ASSUME StructInv, ScanInv, NEW some \in BOOLEAN, EnterSegment(some)
  PROVE  /\ ScanInv'
         /\ head'.state \notin probe.seen /\ head'.state < call.from
<1>1. /\ pc = "enter" /\ pc' = "sweep" /\ AskPred(some)
      /\ GoToSnapshot(snapshots, head, scan.snap)
      /\ UNCHANGED <<snapshots, call>>
  BY DEF EnterSegment
<1>2. /\ scan.snap \in 1 .. Len(snapshots)
      /\ snapshots[scan.snap].head.state \in Nat
      /\ snapshots[scan.snap].head.state < scan.top
  BY <1>1, SweepTypes
<1>3. head'.state = snapshots[scan.snap].head.state
  BY <1>1, <1>2, GoToSnapshotLands DEF StructInv
<1>4. /\ probe'.seen = probe.seen \cup {head'.state}
      /\ probe'.hits = IF some THEN probe.hits \cup {head'.state} ELSE probe.hits
      /\ probe'.visited = probe.visited
      /\ scan'.snap = scan.snap /\ scan'.top = scan.top
      /\ scan'.match = IF some THEN head'.state ELSE scan.match
  BY <1>1, <1>2, <1>3, AskPredAdds
<1>5. /\ probe.hits = {}
      /\ probe.seen = scan.top .. call.from - 1
      /\ scan.match = NoMatch
      /\ call.op = "undo_until"
      /\ scan.top <= call.from /\ scan.top <= probe.visited
  BY <1>1 DEF ScanInv, StructInv, CallOK
<1>6. probe'.seen = (snapshots'[scan'.snap].head.state .. head'.state)
                      \cup (scan'.top .. call'.from - 1)
  BY <1>1, <1>2, <1>3, <1>4, <1>5
<1>7. IF scan'.match = NoMatch
        THEN probe'.hits = {}
        ELSE scan'.match \in probe'.hits /\ \A i \in probe'.hits : i <= scan'.match
  BY <1>2, <1>3, <1>4, <1>5 DEF NoMatch
<1>8. ScanInv'
  BY <1>1, <1>4, <1>5, <1>6, <1>7 DEF ScanInv
<1>9. QED
  BY <1>2, <1>3, <1>5, <1>8, ScanTypes

LEMMA SweepScan ==
  ASSUME StructInv, ScanInv, NEW some \in BOOLEAN, SweepSegment(some)
  PROVE  /\ ScanInv'
         /\ head'.state \notin probe.seen /\ head'.state < call.from
<1> DEFINE low == snapshots[scan.snap].head.state
<1>1. /\ pc = "sweep" /\ pc' = pc /\ AskPred(some)
      /\ head.state < scan.top - 1
      /\ head'.state = head.state + 1
      /\ UNCHANGED <<snapshots, call>>
  BY DEF SweepSegment, ReplayStep
<1>2. /\ low \in Nat /\ head.state \in Nat /\ scan.top \in Nat /\ call.from \in Nat
      /\ low <= head.state
  BY <1>1, SweepTypes, ScanTypes
<1>3. /\ probe'.seen = probe.seen \cup {head.state + 1}
      /\ probe'.hits = IF some THEN probe.hits \cup {head.state + 1} ELSE probe.hits
      /\ probe'.visited = probe.visited
      /\ scan'.snap = scan.snap /\ scan'.top = scan.top
      /\ scan'.match = IF some THEN head.state + 1 ELSE scan.match
  <2>1. head'.state \in Nat
    BY <1>1, <1>2
  <2>2. QED
    BY <1>1, <2>1, AskPredAdds
<1>4. /\ probe.seen = (low .. head.state) \cup (scan.top .. call.from - 1)
      /\ IF scan.match = NoMatch
           THEN probe.hits = {}
           ELSE scan.match \in probe.hits /\ \A i \in probe.hits : i <= scan.match
      /\ call.op = "undo_until"
      /\ scan.top <= call.from /\ scan.top <= probe.visited
      /\ scan.match # NoMatch => scan.match <= head.state
  BY <1>1 DEF ScanInv, StructInv, CallOK
<1> HIDE DEF low
<1>5. probe'.seen = (low .. head.state + 1) \cup (scan.top .. call.from - 1)
  BY <1>2, <1>3, <1>4
<1>6. IF scan'.match = NoMatch
        THEN probe'.hits = {}
        ELSE scan'.match \in probe'.hits /\ \A i \in probe'.hits : i <= scan'.match
  <2>1. CASE some
    <3>1. \A i \in probe.hits : i <= head.state + 1
      BY <1>2, <1>4, ScanTypes
    <3>2. head.state + 1 # NoMatch
      BY <1>2 DEF NoMatch
    <3>3. QED
      BY <1>2, <1>3, <2>1, <3>1, <3>2
  <2>2. CASE ~some
    BY <1>3, <1>4, <2>2
  <2>3. QED
    BY <2>1, <2>2
<1>7. ScanInv'
  BY <1>1, <1>3, <1>4, <1>5, <1>6 DEF ScanInv, low
<1>8. head.state + 1 \notin probe.seen /\ head.state + 1 < call.from
  BY <1>1, <1>2, <1>4
<1>9. QED
  BY <1>1, <1>7, <1>8

LEMMA MatchedScan ==
  ASSUME StructInv, ScanInv, SegmentMatched
  PROVE  ScanInv'
<1>1. /\ pc = "sweep" /\ pc' = "replay" /\ goal' = scan.match
      /\ scan.match # NoMatch /\ head.state >= scan.top - 1
      /\ UNCHANGED <<scan, call, probe>>
  BY DEF SegmentMatched
<1>2. /\ probe.seen = (snapshots[scan.snap].head.state .. head.state)
                        \cup (scan.top .. call.from - 1)
      /\ scan.match \in probe.hits
      /\ \A i \in probe.hits : i <= scan.match
      /\ scan.top <= probe.visited
  BY <1>1 DEF ScanInv
<1>3. /\ snapshots[scan.snap].head.state <= scan.match
      /\ scan.match <= head.state /\ head.state < scan.top
  BY <1>1 DEF StructInv, CallOK
<1>4. /\ head.state \in Nat /\ scan.top \in Nat /\ scan.match \in Nat
      /\ call.from \in Nat /\ probe.visited \in Nat
      /\ snapshots[scan.snap].head.state \in Nat
  BY <1>1, SweepTypes, ScanTypes
<1>5. scan.match .. call.from - 1 \subseteq probe.seen /\ scan.match < probe.visited
  BY <1>1, <1>2, <1>3, <1>4
<1>6. QED
  BY <1>1, <1>2, <1>5 DEF ScanInv

(* A segment in which pred accepted nothing was swept to its end.          *)
LEMMA MissedSeen ==
  ASSUME StructInv, ScanInv, SegmentMissed
  PROVE  /\ pc = "sweep" /\ scan.match = NoMatch
         /\ probe.seen = snapshots[scan.snap].head.state .. call.from - 1
         /\ probe.hits = {}
         /\ head.state < probe.visited
         /\ snapshots[scan.snap].head.state <= head.state
         /\ head.state < call.from
         /\ call.op = "undo_until"
<1>1. /\ pc = "sweep" /\ scan.match = NoMatch /\ head.state >= scan.top - 1
  BY DEF SegmentMissed
<1>2. /\ probe.seen = (snapshots[scan.snap].head.state .. head.state)
                        \cup (scan.top .. call.from - 1)
      /\ probe.hits = {} /\ call.op = "undo_until"
      /\ scan.top <= probe.visited /\ scan.top <= call.from
  BY <1>1 DEF ScanInv
<1>3. /\ snapshots[scan.snap].head.state <= head.state /\ head.state < scan.top
      /\ snapshots[scan.snap].head.state \in Nat
      /\ head.state \in Nat /\ scan.top \in Nat /\ call.from \in Nat
      /\ probe.visited \in Nat
  BY <1>1, SweepTypes, ScanTypes
<1>4. QED
  BY <1>1, <1>2, <1>3

LEMMA MissedScan ==
  ASSUME StructInv, ScanInv, SegmentMissed
  PROVE  ScanInv'
<1>1. /\ pc = "sweep"
      /\ probe.seen = snapshots[scan.snap].head.state .. call.from - 1
      /\ probe.hits = {}
      /\ snapshots[scan.snap].head.state <= head.state
      /\ head.state < call.from
      /\ call.op = "undo_until"
  BY MissedSeen
<1>2. CASE scan.snap > 1 /\ ~ReachedStart
  <2>1. /\ pc' = "enter"
        /\ scan'.snap = scan.snap - 1
        /\ scan'.top = snapshots[scan.snap].head.state
        /\ probe' = [probe EXCEPT !.visited = head.state]
        /\ UNCHANGED <<head, call, snapshots>>
    BY <1>2 DEF SegmentMissed
  <2>2. probe'.visited = head.state /\ probe'.seen = probe.seen /\ probe'.hits = probe.hits
    BY <2>1, ScanTypes
  <2>3. head.base # Len(snapshots)
    BY <1>1, ScanTypes, SMTT(30) DEF StructInv, CallOK
  <2>4. Clean(snapshots, head)'
    BY <2>1, <2>3 DEF Clean
  <2>5. scan'.top <= call.from
    <3>1. /\ snapshots[scan.snap].head.state \in Nat
          /\ head.state \in Nat /\ call.from \in Nat
      BY <1>1, SweepTypes, ScanTypes
    <3>2. QED
      BY <1>1, <2>1, <3>1
  <2>6. QED
    BY <1>1, <2>1, <2>2, <2>4, <2>5 DEF ScanInv
<1>3. CASE ReachedStart
  BY <1>3 DEF ReachedStart, EndCall, ScanInv
<1>4. QED
  BY <1>2, <1>3 DEF SegmentMissed

(* undo_step, redo_step and go_to ask nothing.                             *)
LEMMA OtherScan ==
  ASSUME StructInv, ScanInv,
         \/ Step \/ (\E c \in CustomTick : StepWith(c)) \/ ClearForwardHistory
         \/ UndoStep \/ RedoStep \/ (\E n \in 0 .. MaxSteps : GoTo(n))
         \/ Replay \/ Return \/ UNCHANGED vars
  PROVE  ScanInv'
<1>1. CASE Step \/ (\E c \in CustomTick : StepWith(c)) \/ ClearForwardHistory
  <2>1. pc = "idle" /\ UNCHANGED control
    BY <1>1 DEF Step, StepWith, Advance, ClearForwardHistory
  <2>2. QED
    BY <2>1 DEF ScanInv, control
<1>2. CASE UndoStep \/ RedoStep \/ \E n \in 0 .. MaxSteps : GoTo(n)
  <2>1. pc' = "replay" /\ call'.op # "undo_until"
    BY <1>2 DEF UndoStep, RedoStep, GoTo, GoToState
  <2>2. QED
    BY <2>1 DEF ScanInv
<1>3. CASE Replay
  BY <1>3 DEF Replay, ScanInv, control
<1>4. CASE Return
  BY <1>4 DEF Return, EndCall, ScanInv
<1>5. CASE UNCHANGED vars
  BY <1>5 DEF vars, control, ScanInv, Clean
<1>6. QED
  BY <1>1, <1>2, <1>3, <1>4, <1>5

LEMMA NextScan == StructInv /\ ScanInv /\ [Next]_vars => ScanInv'
BY BeginScanScan, EnterScan, SweepScan, MatchedScan, MissedScan, OtherScan
   DEF Next, Internal

(* What a call in progress knows, in every reachable state. *)
LEMMA Scan == Spec => [](StructInv /\ ScanInv)
<1>1. Init => ScanInv
  BY DEF Init, ScanInv
<1>2. QED
  BY <1>1, InitStruct, NextStruct, NextScan, PTL DEF Spec

(* Only two steps end a call of undo_steps_until.                          *)
LEMMA ScanEnds ==
  ASSUME StructInv, ScanInv, [Next]_vars,
         call.op = "undo_until", call'.op = "none"
  PROVE  (pc = "replay" /\ Return) \/ (SegmentMissed /\ ReachedStart)
<1>1. pc # "idle"
  BY DEF ScanInv, NoCall
<1>2. call' # call
  OBVIOUS
<1>3. Internal
  BY <1>1, <1>2 DEF Next, Step, StepWith, Advance, ClearForwardHistory, UndoStep,
                    RedoStep, GoTo, BeginScan, vars, control
<1>4. Return \/ SegmentMissed
  BY <1>2, <1>3 DEF Internal, Replay, EnterSegment, SweepSegment, SegmentMatched, control
<1>5. QED
  BY <1>2, <1>4 DEF Return, SegmentMissed

LEMMA ScanStep ==
  ASSUME StructInv, ScanInv, [Next]_vars,
         call.op = "undo_until", call'.op = "none"
  PROVE  /\ IF probe.hits = {} THEN head'.state = 0 ELSE head'.state \in probe.hits
         /\ head'.state .. call.from - 1 \subseteq probe.seen
         /\ \A i \in probe.hits : i <= head'.state
<1>1. CASE pc = "replay" /\ Return
  <2>1. head' = head /\ head.state = goal
    BY <1>1 DEF Return
  <2>2. QED
    BY <1>1, <2>1 DEF ScanInv
<1>2. CASE SegmentMissed /\ ReachedStart
  <2>1. /\ probe.seen = snapshots[scan.snap].head.state .. call.from - 1
        /\ probe.hits = {}
    BY <1>2, MissedSeen
  <2>2. /\ scan.snap = 1 /\ GoToSnapshot(snapshots, head, 1)
    BY <1>2 DEF ReachedStart
  <2>3. 1 \in 1 .. Len(snapshots) /\ snapshots[1].head.state = 0
    BY ScanTypes DEF StructInv, Ordered
  <2>4. head'.state = 0
    BY <2>2, <2>3, GoToSnapshotLands DEF StructInv
  <2>5. QED
    BY <2>1, <2>2, <2>3, <2>4
<1>3. QED
  BY <1>1, <1>2, ScanEnds

(* Which step asks pred, and which ones let visit be called.               *)
LEMMA AskStep ==
  ASSUME StructInv, ScanInv, [Next]_vars, vars' # vars,
         pc \in {"enter", "sweep"}, pc' = "sweep"
  PROVE  head'.state \notin probe.seen /\ head'.state < call.from
<1>1. Internal
  BY DEF Next, Step, StepWith, Advance, ClearForwardHistory, UndoStep, RedoStep,
         GoTo, BeginScan
<1>2. \E some \in BOOLEAN : EnterSegment(some) \/ SweepSegment(some)
  BY <1>1 DEF Internal, Replay, Return, EndCall, SegmentMatched, SegmentMissed,
              ReachedStart
<1>3. QED
  BY <1>2, EnterScan, SweepScan

LEMMA VisitStep ==
  ASSUME StructInv, ScanInv, [Next]_vars,
         call.op = "undo_until", pc # "enter", pc' \in {"enter", "idle"}
  PROVE  head.state < probe.visited
<1>1. pc # "idle"
  BY DEF ScanInv, NoCall
<1>2. pc' # pc
  BY <1>1
<1>3. Internal
  BY <1>1, <1>2 DEF Next, Step, StepWith, Advance, ClearForwardHistory, UndoStep,
                    RedoStep, GoTo, BeginScan, vars, control
<1>4. Return \/ SegmentMissed
  BY <1>2, <1>3 DEF Internal, Replay, EnterSegment, SweepSegment, SegmentMatched, control
<1>5. CASE Return
  BY <1>5 DEF Return, ScanInv
<1>6. CASE SegmentMissed
  BY <1>6, MissedSeen
<1>7. QED
  BY <1>4, <1>5, <1>6

(* simulator.rs:330-349: undo_steps_until ends in the most recent past     *)
(* state pred accepted, or at the start; it asks about each state it       *)
(* passes once, and never about the one it started from; and it visits     *)
(* states in reverse order of time.                                        *)
THEOREM ScanIsRight == Spec => ScanContract
<1>1. StructInv /\ ScanInv /\ [Next]_vars =>
        [(call.op = "undo_until" /\ call'.op = "none") =>
           LET end == head'.state IN
           /\ IF probe.hits = {} THEN end = 0 ELSE end \in probe.hits
           /\ end .. call.from - 1 \subseteq probe.seen
           /\ \A i \in probe.hits : i <= end]_vars
  BY ScanStep
<1>2. StructInv /\ ScanInv /\ [Next]_vars =>
        [/\ (pc \in {"enter", "sweep"} /\ pc' = "sweep") =>
              head'.state \notin probe.seen /\ head'.state < call.from
         /\ (call.op = "undo_until" /\ pc # "enter" /\ pc' \in {"enter", "idle"}) =>
              head.state < probe.visited]_vars
  BY AskStep, VisitStep
<1>3. Spec => ScanFindsLatestMatch
  BY <1>1, Scan, PTL DEF Spec, ScanFindsLatestMatch
<1>4. Spec => CallbacksInOrder
  BY <1>2, Scan, PTL DEF Spec, CallbacksInOrder
<1>5. QED
  BY <1>3, <1>4 DEF ScanContract

-----------------------------------------------------------------------------
(* Travelling loses nothing *)

(* The newest state index that can be reached from h over snaps.           *)
Available(snaps, h) ==
  IF h.base # Len(snaps) THEN snaps[Len(snaps)].head.state ELSE h.state

(* Wherever HEAD goes over the same snapshots, what the last of them holds *)
(* stays available.                                                        *)
LEMMA LastIsAvailable ==
  ASSUME NEW snaps, Ordered(snaps), NEW h, h.state \in Nat,
         IsBase(snaps, h.base, h.state)
  PROVE  /\ Available(snaps, h) \in Nat
         /\ Available(snaps, h) >= snaps[Len(snaps)].head.state
<1>1. Len(snaps) \in Nat /\ Len(snaps) \in 1 .. Len(snaps)
  BY DEF Ordered
<1>2. snaps[Len(snaps)].head.state \in Nat
  BY <1>1, SnapshotTypes
<1>3. h.base = Len(snaps) => snaps[Len(snaps)].head.state <= h.state
  BY <1>1 DEF IsBase
<1>4. QED
  BY <1>2, <1>3 DEF Available

LEMMA SavingLosesNothing ==
  ASSUME StructInv
  PROVE  Available(SavedSnapshots, SavedHead) = Available(snapshots, head)
<1>1. CASE Detached
  BY <1>1 DEF Available, Detached, SavedSnapshots, SavedHead, Dirty
<1>2. CASE ~Detached
  BY <1>2, SavingIsSound DEF Available, Detached
<1>3. QED
  BY <1>1, <1>2

(* undo_step, redo_step and go_to leave a clean head.                      *)
LEMMA JumpLosesNothing ==
  ASSUME StructInv, NEW snaps, Ordered(snaps), NEW h, Placed(snaps, h),
         Clean(snaps, h), Available(snaps, h) = Available(snapshots, head),
         NEW target \in Nat, GoToState(snaps, h, target)
  PROVE  Available(snapshots, head)' >= Available(snapshots, head)
<1>1. snapshots' = snaps /\ Placed(snaps, head')
  BY GoToStateLands DEF StructInv
<1>2. Available(snaps, h) = snaps[Len(snaps)].head.state
  BY DEF Available, Clean
<1>3. Available(snaps, head') >= snaps[Len(snaps)].head.state
  BY <1>1, LastIsAvailable DEF Placed, Heads
<1>4. QED
  BY <1>1, <1>2, <1>3 DEF Available

(* The moves of undo_steps_until: HEAD is clean when it starts a segment,  *)
(* and detached in the middle of one.                                      *)
LEMMA ScanLosesNothing ==
  ASSUME StructInv, ScanInv, StructInv', pc \in {"enter", "sweep"},
         snapshots' = snapshots
  PROVE  Available(snapshots, head)' >= Available(snapshots, head)
<1>1. Available(snapshots, head) = snapshots[Len(snapshots)].head.state
  <2>1. CASE pc = "enter"
    BY <2>1 DEF ScanInv, Clean, Available
  <2>2. CASE pc = "sweep"
    BY <2>2, ScanTypes DEF StructInv, CallOK, Available
  <2>3. QED
    BY <2>1, <2>2
<1>2. Ordered(snapshots) /\ head'.state \in Nat /\ IsBase(snapshots, head'.base, head'.state)
  BY DEF StructInv, Placed, Heads, IsBase
<1>3. Available(snapshots, head') >= snapshots[Len(snapshots)].head.state
  BY <1>2, LastIsAvailable
<1>4. QED
  BY <1>1, <1>3 DEF Available

LEMMA TravelStep ==
  ASSUME StructInv, ScanInv, StructInv', [Next]_vars, call # NoCall \/ call' # NoCall
  PROVE  Available(snapshots, head)' >= Available(snapshots, head)
<1>1. /\ Available(snapshots, head) \in Nat
      /\ head.state \in Nat
  BY LastIsAvailable DEF StructInv, Placed, Heads
<1>2. CASE UndoStep
  <2>1. head.state - 1 \in Nat /\ GoToState(SavedSnapshots, SavedHead, head.state - 1)
    BY <1>1, <1>2 DEF UndoStep
  <2>2. QED
    BY <2>1, SavingIsSound, SavedIsClean, SavingLosesNothing, JumpLosesNothing
<1>3. CASE RedoStep
  <2>1. /\ head.state + 1 \in Nat /\ GoToState(snapshots, head, head.state + 1)
        /\ head.base # Len(snapshots)
    BY <1>1, <1>3 DEF RedoStep, Detached
  <2>2. Clean(snapshots, head) /\ Ordered(snapshots) /\ Placed(snapshots, head)
    BY <2>1 DEF Clean, StructInv
  <2>3. QED
    BY <2>1, <2>2, JumpLosesNothing
<1>4. ASSUME NEW n \in 0 .. MaxSteps, GoTo(n)
      PROVE  Available(snapshots, head)' >= Available(snapshots, head)
  <2>1. n \in Nat /\ GoToState(SavedSnapshots, SavedHead, n)
    BY <1>4, SimulatorAssumption DEF GoTo
  <2>2. QED
    BY <2>1, SavingIsSound, SavedIsClean, SavingLosesNothing, JumpLosesNothing
<1>5. CASE BeginScan
  <2>1. Available(snapshots, head)' = Available(SavedSnapshots, SavedHead)
    BY <1>5 DEF BeginScan, Available
  <2>2. QED
    BY <1>1, <2>1, SavingLosesNothing
<1>6. CASE Replay
  <2>1. /\ snapshots' = snapshots /\ head'.base = head.base
        /\ head'.state = head.state + 1
    BY <1>6 DEF Replay, ReplayStep
  <2>2. QED
    BY <1>1, <2>1 DEF Available
<1>7. CASE Return \/ UNCHANGED vars
  BY <1>1, <1>7 DEF Return, vars, Available
<1>8. ASSUME NEW some \in BOOLEAN,
             EnterSegment(some) \/ SweepSegment(some) \/ SegmentMatched \/ SegmentMissed
      PROVE  Available(snapshots, head)' >= Available(snapshots, head)
  <2>1. pc \in {"enter", "sweep"} /\ snapshots' = snapshots
    BY <1>8 DEF EnterSegment, SweepSegment, ReplayStep, SegmentMatched, SegmentMissed
  <2>2. QED
    BY <2>1, ScanLosesNothing
<1>9. CASE Step \/ (\E c \in CustomTick : StepWith(c)) \/ ClearForwardHistory
  <2>1. pc = "idle" /\ call' = call
    BY <1>9 DEF Step, StepWith, Advance, ClearForwardHistory, control
  <2>2. QED
    BY <2>1 DEF ScanInv
<1>10. QED
  BY <1>2, <1>3, <1>4, <1>5, <1>6, <1>7, <1>8, <1>9 DEF Next, Internal

(* No undo, redo, jump or scan makes fewer states available than there     *)
(* were, at any point of it: the newest state is in a snapshot before HEAD *)
(* leaves it.                                                              *)
THEOREM NothingIsLost == Spec => TravelLosesNothing
<1>1. Available(snapshots, head) = AvailableSteps
  BY DEF Available, AvailableSteps, Detached
<1>2. Available(snapshots, head)' = AvailableSteps'
  BY DEF Available, AvailableSteps, Detached
<1>3. /\ StructInv /\ ScanInv /\ StructInv' /\ [Next]_vars
      => [(call # NoCall \/ call' # NoCall) => AvailableSteps' >= AvailableSteps]_vars
  BY <1>1, <1>2, TravelStep
<1>4. QED
  BY <1>3, Scan, PTL DEF Spec, TravelLosesNothing

-----------------------------------------------------------------------------
(* Time travel *)

(***************************************************************************)
(* Time travel in Simulator is exact, for every machine: whatever sequence *)
(* of steps, custom steps, undos, redos, jumps and scans led to it, the    *)
(* state HEAD shows is the one history has at that index.  From that, the  *)
(* simulator implements Timeline.                                          *)
(*                                                                         *)
(* The result needs clear_forward_history to be called on a detached HEAD  *)
(* only, as step and step_with do (ClearAnywhere = FALSE): at the end of   *)
(* history next_custom_tick_index is not the number of custom ticks, and   *)
(* StructInv, on which the proof builds, says nothing of it.               *)
(***************************************************************************)

(* What HEAD h with content m, over the snapshots snaps, shows of history. *)
Shown(snaps, h, m) ==
  /\ Len(trace) = 1 + (IF h.base = Len(snaps) THEN h.state
                                              ELSE snaps[Len(snaps)].head.state)
  /\ m = trace[h.state + 1]
  /\ \A k \in 1 .. Len(snaps) : snaps[k].mem = trace[snaps[k].head.state + 1]
  /\ \A i \in 1 .. h.nct : customs[i].step < h.state
  /\ h.base # Len(snaps) =>
       \A i \in h.nct + 1 .. Len(customs) : customs[i].step >= h.state

TicksOrdered ==
  /\ \A i, j \in 1 .. Len(customs) : i < j => customs[i].step < customs[j].step
  /\ \A i \in 1 .. Len(customs) : customs[i].step + 1 < Len(trace)

(* TickOf for another sequence of custom ticks than the current one. *)
TickIn(ticks, i, t) ==
  \/ \E k \in 1 .. Len(ticks) : ticks[k].step = i /\ ticks[k].tick = t
  \/ /\ \A k \in 1 .. Len(ticks) : ticks[k].step # i
     /\ t = PlainTick

HistoryInv ==
  /\ Shown(snapshots, head, mem)
  /\ TicksOrdered
  /\ Replayable
  /\ pc = "enter" => Clean(snapshots, head)

-----------------------------------------------------------------------------
(* The types the arithmetic below needs. *)
LEMMA Types ==
  ASSUME StructInv
  PROVE  /\ mem \in Machine /\ trace \in Seq(Machine) /\ customs \in Seq(Customs)
         /\ Len(trace) \in Nat /\ Len(customs) \in Nat /\ Len(snapshots) \in Nat
         /\ head.state \in Nat /\ head.base \in Nat /\ head.nct \in Nat
         /\ head.state < Len(trace)
         /\ head.nct <= Len(customs)
         /\ head.base >= 1 /\ head.base <= Len(snapshots)
BY DEF StructInv, TypeOK, Placed, Recorded, IsBase, Heads

LEMMA CustomTypes ==
  ASSUME StructInv, NEW i \in 1 .. Len(customs)
  PROVE  customs[i].step \in Nat /\ customs[i].tick \in CustomTick
<1>1. customs[i] \in Customs
  BY ElementOfSeq DEF StructInv, TypeOK
<1>2. QED
  BY <1>1 DEF Customs

LEMMA StateTypes ==
  ASSUME StructInv, NEW k \in 1 .. Len(snapshots)
  PROVE  snapshots[k].head.state \in Nat /\ snapshots[k].head.state < Len(trace)
BY SnapshotTypes DEF StructInv, Recorded

(* A checkout of a snapshot shows history at that snapshot. *)
LEMMA GoToSnapshotShown ==
  ASSUME StructInv, TicksOrdered, NEW snaps, Ordered(snaps), NEW h,
         Placed(snaps, h), NEW k \in 1 .. Len(snaps),
         Shown(snaps, h, mem), Clean(snaps, h), GoToSnapshot(snaps, h, k),
         customs' = customs, trace' = trace
  PROVE  /\ Shown(snaps, head, mem)'
         /\ Clean(snaps, head)'
<1>1. /\ Len(snaps) \in Nat
      /\ \A i \in 1 .. Len(snaps) : snaps[i].head.state \in Nat
  BY SnapshotTypes DEF Ordered
<1>2. CASE h.state = snaps[k].head.state
  BY <1>2 DEF GoToSnapshot, Shown, Clean
<1>3. CASE h.state # snaps[k].head.state
  <2>1. PICK n \in 0 .. Len(customs) :
          /\ IsNextTick(n, snaps[k].head.state)
          /\ head' = [state |-> snaps[k].head.state, base |-> k, nct |-> n]
          /\ mem' = snaps[k].mem
    BY <1>3 DEF GoToSnapshot
  <2>2. /\ head'.state = snaps[k].head.state
        /\ head'.base = k
        /\ head'.nct = n
    BY <2>1
  <2>3. Len(trace) = 1 + snaps[Len(snaps)].head.state
    BY DEF Shown, Clean
  <2>4. /\ mem' = trace[snaps[k].head.state + 1]
        /\ \A i \in 1 .. Len(snaps) : snaps[i].mem = trace[snaps[i].head.state + 1]
    BY <2>1 DEF Shown
  <2>5. Clean(snaps, head)'
    BY <2>2 DEF Clean
  <2>6. Shown(snaps, head, mem)'
    BY <2>1, <2>2, <2>3, <2>4 DEF Shown, IsNextTick
  <2>7. QED
    BY <2>5, <2>6
<1>4. QED
  BY <1>2, <1>3

(* What is saved of a dirty HEAD is what it shows. *)
LEMMA SavedShown ==
  ASSUME StructInv, HistoryInv
  PROVE  /\ Shown(SavedSnapshots, SavedHead, mem)
         /\ Clean(SavedSnapshots, SavedHead)
<1>1. CASE ~Dirty
  BY <1>1 DEF Dirty, AtSnapshot, Detached, SavedSnapshots, SavedHead, HistoryInv, Clean
<1>2. CASE Dirty
  <2>1. head.base = Len(snapshots)
    BY <1>2 DEF Dirty, Detached
  <2>2. /\ Len(SavedSnapshots) = Len(snapshots) + 1
        /\ \A i \in 1 .. Len(snapshots) : SavedSnapshots[i] = snapshots[i]
        /\ SavedSnapshots[Len(snapshots) + 1] = [head |-> SavedHead, mem |-> mem]
        /\ SavedHead.state = head.state
        /\ SavedHead.nct = head.nct
        /\ SavedHead.base = Len(snapshots) + 1
    <3>1. /\ SavedHead = [head EXCEPT !.base = Len(snapshots) + 1]
          /\ SavedSnapshots = Append(snapshots, [head |-> SavedHead, mem |-> mem])
      BY <1>2 DEF SavedHead, SavedSnapshots
    <3>2. head \in Heads /\ Len(snapshots) \in Nat /\ mem \in Machine
      BY Types DEF StructInv, Placed
    <3>3. /\ SavedHead \in Heads
          /\ SavedHead.state = head.state
          /\ SavedHead.nct = head.nct
          /\ SavedHead.base = Len(snapshots) + 1
      BY <3>1, <3>2 DEF Heads
    <3>4. [head |-> SavedHead, mem |-> mem] \in Snapshots
      BY <3>2, <3>3 DEF Snapshots
    <3>5. QED
      BY <3>1, <3>3, <3>4, AppendFacts DEF StructInv, TypeOK
  <2>3. \A k \in 1 .. Len(SavedSnapshots) :
          SavedSnapshots[k].mem = trace[SavedSnapshots[k].head.state + 1]
    <3>1. \A k \in 1 .. Len(snapshots) :
            SavedSnapshots[k].mem = trace[SavedSnapshots[k].head.state + 1]
      BY <2>2 DEF HistoryInv, Shown
    <3>2. /\ SavedSnapshots[Len(snapshots) + 1].mem = mem
          /\ SavedSnapshots[Len(snapshots) + 1].head.state = head.state
      BY <2>2
    <3>3. mem = trace[head.state + 1]
      BY DEF HistoryInv, Shown
    <3>4. QED
      BY <2>2, <3>1, <3>2, <3>3, Types
  <2>4. Len(trace) = head.state + 1
    <3>1. head.state \in Nat
      BY Types
    <3>2. Len(trace) = 1 + head.state
      BY <2>1 DEF HistoryInv, Shown
    <3>3. QED
      BY <3>1, <3>2
  <2>5. SavedSnapshots[Len(snapshots) + 1].head.state = head.state
    BY <2>2
  <2>6. \A i \in 1 .. SavedHead.nct : customs[i].step < SavedHead.state
    BY <2>2 DEF HistoryInv, Shown
  <2>7. mem = trace[SavedHead.state + 1]
    BY <2>2 DEF HistoryInv, Shown
  <2>8. Len(trace) = 1 + SavedHead.state
    BY <2>2, <2>4, Types
  <2>9. SavedHead.base = Len(SavedSnapshots)
    BY <2>2
  <2>10. Shown(SavedSnapshots, SavedHead, mem)
    BY <2>3, <2>6, <2>7, <2>8, <2>9 DEF Shown
  <2>11. Clean(SavedSnapshots, SavedHead)
    BY <2>2, <2>5 DEF Clean
  <2>12. QED
    BY <2>10, <2>11
<1>3. QED
  BY <1>1, <1>2

(* A replayed tick shows the next state of history: the recorded one while *)
(* there is one, a new one past the end.                                   *)
LEMMA ReplayStepShown ==
  ASSUME StructInv, HistoryInv, ReplayStep, NEW bound \in Nat,
         head.state < bound, IsBase(snapshots, head.base, bound)
  PROVE  Shown(snapshots, head, mem)' /\ TicksOrdered' /\ Replayable'
<1> DEFINE isCustom == /\ head.nct < Len(customs)
                       /\ customs[head.nct + 1].step = head.state
           tick == IF isCustom THEN customs[head.nct + 1].tick ELSE PlainTick
           nct  == IF isCustom THEN head.nct + 1 ELSE head.nct
           s == head.state
<1>1. /\ mem' = Apply(tick, mem)
      /\ head' = [state |-> s + 1, base |-> head.base, nct |-> nct]
      /\ trace' = IF s + 1 = Len(trace) THEN Append(trace, Apply(tick, mem)) ELSE trace
      /\ snapshots' = snapshots
      /\ customs' = customs
  BY DEF ReplayStep
<1>2. /\ head'.state = s + 1
      /\ head'.base = head.base
      /\ head'.nct = nct
  BY <1>1
<1>3. /\ mem \in Machine /\ trace \in Seq(Machine)
      /\ Len(trace) \in Nat /\ Len(customs) \in Nat /\ Len(snapshots) \in Nat
      /\ s \in Nat /\ head.base \in Nat /\ head.nct \in Nat
      /\ s < Len(trace)
      /\ head.nct <= Len(customs)
      /\ head.base >= 1 /\ head.base <= Len(snapshots)
  BY Types
<1>4. /\ mem = trace[s + 1]
      /\ \A k \in 1 .. Len(snapshots) :
           snapshots[k].mem = trace[snapshots[k].head.state + 1]
      /\ Len(trace) = 1 + (IF head.base = Len(snapshots)
                             THEN s ELSE snapshots[Len(snapshots)].head.state)
      /\ \A i \in 1 .. head.nct : customs[i].step < s
      /\ head.base # Len(snapshots) =>
           \A i \in head.nct + 1 .. Len(customs) : customs[i].step >= s
  BY DEF HistoryInv, Shown
<1>5. \A i \in 1 .. Len(customs) : /\ customs[i].step \in Nat
                                   /\ customs[i].tick \in CustomTick
  BY CustomTypes
<1>6. \A k \in 1 .. Len(snapshots) : /\ snapshots[k].head.state \in Nat
                                     /\ snapshots[k].head.state < Len(trace)
  BY StateTypes
<1>7. /\ \A i, j \in 1 .. Len(customs) : i < j => customs[i].step < customs[j].step
      /\ \A i \in 1 .. Len(customs) : customs[i].step + 1 < Len(trace)
  BY DEF HistoryInv, TicksOrdered
<1>8. isCustom => head.nct + 1 \in 1 .. Len(customs)
  BY <1>3
<1>9. tick \in Tick
  BY <1>5, <1>8 DEF Tick
<1> HIDE DEF s
<1>10. CASE head.base # Len(snapshots)
  <2>1. s + 1 < Len(trace)
    <3>1. /\ head.base + 1 \in 1 .. Len(snapshots)
          /\ head.base + 1 \in head.base + 1 .. Len(snapshots)
      BY <1>3, <1>10
    <3>2. bound < snapshots[head.base + 1].head.state
      BY <1>6, <3>1 DEF IsBase
    <3>3. QED
      BY <1>3, <1>6, <3>1, <3>2, SMTT(30) DEF s
  <2>2. trace' = trace
    BY <1>1, <1>3, <2>1
  <2>3. ASSUME ~isCustom, NEW i \in 1 .. Len(customs)
        PROVE  customs[i].step # s
    <3>1. CASE i <= head.nct
      BY <1>3, <1>4, <1>5, <3>1
    <3>2. CASE i = head.nct + 1
      BY <1>3, <2>3, <3>2 DEF s
    <3>3. CASE i > head.nct + 1
      <4>1. /\ head.nct + 1 \in 1 .. Len(customs)
            /\ head.nct + 1 \in head.nct + 1 .. Len(customs)
        BY <1>3, <3>3
      <4>2. customs[head.nct + 1].step >= s
        BY <1>4, <1>10, <4>1
      <4>3. customs[head.nct + 1].step < customs[i].step
        BY <1>7, <3>3, <4>1
      <4>4. QED
        BY <1>3, <1>5, <4>1, <4>2, <4>3
    <3>4. QED
      BY <1>3, <3>1, <3>2, <3>3
  <2>4. TickOf(s, tick)
    <3>1. CASE isCustom
      BY <1>8, <3>1 DEF TickOf, s
    <3>2. CASE ~isCustom
      BY <2>3, <3>2 DEF TickOf
    <3>3. QED
      BY <3>1, <3>2
  <2>5. mem' = trace[s + 2]
    <3>1. s \in 0 .. Len(trace) - 2
      BY <1>3, <2>1
    <3>2. trace[s + 2] = Apply(tick, trace[s + 1])
      BY <1>9, <2>4, <3>1 DEF HistoryInv, Replayable
    <3>3. QED
      BY <1>1, <1>4, <3>2
  <2>6. \A i \in 1 .. nct : customs[i].step < s + 1
    <3>1. ASSUME NEW i \in 1 .. nct PROVE customs[i].step < s + 1
      <4>1. CASE i <= head.nct
        BY <1>3, <1>4, <1>5, <4>1
      <4>2. CASE ~(i <= head.nct)
        <5>1. isCustom /\ i = head.nct + 1
          BY <1>3, <4>2
        <5>2. QED
          BY <1>3, <5>1 DEF s
      <4>3. QED
        BY <4>1, <4>2
    <3>2. QED
      BY <3>1
  <2>7. \A i \in nct + 1 .. Len(customs) : customs[i].step >= s + 1
    <3>1. ASSUME NEW i \in nct + 1 .. Len(customs)
          PROVE  customs[i].step >= s + 1
      <4>1. i \in 1 .. Len(customs) /\ i \in head.nct + 1 .. Len(customs)
        BY <1>3
      <4>2. customs[i].step >= s /\ customs[i].step \in Nat
        BY <1>4, <1>5, <1>10, <4>1
      <4>3. customs[i].step # s
        <5>1. CASE isCustom
          <6>1. head.nct + 1 \in 1 .. Len(customs) /\ head.nct + 1 < i
            BY <1>3, <5>1
          <6>2. customs[head.nct + 1].step < customs[i].step
            BY <1>7, <4>1, <6>1
          <6>3. QED
            BY <1>3, <1>5, <4>1, <5>1, <6>1, <6>2 DEF s
        <5>2. CASE ~isCustom
          BY <2>3, <4>1, <5>2
        <5>3. QED
          BY <5>1, <5>2
      <4>4. QED
        BY <1>3, <4>2, <4>3
    <3>2. QED
      BY <3>1
  <2> HIDE DEF isCustom, tick, nct
  <2>8. Shown(snapshots, head, mem)'
    <3>1. (s + 1) + 1 = s + 2
      BY <1>3
    <3>2. QED
      BY <1>1, <1>2, <1>4, <1>10, <2>2, <2>5, <2>6, <2>7, <3>1 DEF Shown
  <2>9. TicksOrdered'
    BY <1>1, <1>7, <2>2 DEF TicksOrdered
  <2>10. Replayable'
    BY <1>1, <2>2 DEF HistoryInv, Replayable, TickOf
  <2>11. QED
    BY <2>8, <2>9, <2>10
<1>11. CASE head.base = Len(snapshots)
  <2>1. Len(trace) = s + 1
    BY <1>3, <1>4, <1>11
  <2>2. \A i \in 1 .. Len(customs) : customs[i].step < s
    BY <1>3, <1>5, <1>7, <2>1
  <2>3. ~isCustom
    BY <1>3, <1>5, <1>8, <2>2 DEF s
  <2>4. tick = PlainTick /\ nct = head.nct
    BY <2>3
  <2> HIDE DEF isCustom, tick, nct
  <2>5. Apply(PlainTick, mem) \in Machine /\ PlainTick \in Tick
    BY <1>3, SimulatorAssumption DEF Tick
  <2>6. trace' = Append(trace, Apply(PlainTick, mem))
    BY <1>1, <2>1, <2>4
  <2>7. /\ Len(trace') = s + 2
        /\ \A i \in 1 .. s + 1 : trace'[i] = trace[i]
        /\ trace'[s + 2] = Apply(PlainTick, mem)
    <3>1. /\ Len(trace') = Len(trace) + 1
          /\ \A i \in 1 .. Len(trace) : trace'[i] = trace[i]
          /\ trace'[Len(trace) + 1] = Apply(PlainTick, mem)
      BY <1>3, <2>5, <2>6, AppendFacts
    <3>2. Len(trace) + 1 = s + 2
      BY <1>3, <2>1
    <3>3. QED
      BY <2>1, <3>1, <3>2
  <2>8. Shown(snapshots, head, mem)'
    <3>1. mem' = trace'[s + 2]
      BY <1>1, <2>4, <2>7
    <3>2. \A k \in 1 .. Len(snapshots) :
            snapshots[k].mem = trace'[snapshots[k].head.state + 1]
      <4>1. ASSUME NEW k \in 1 .. Len(snapshots)
            PROVE  snapshots[k].mem = trace'[snapshots[k].head.state + 1]
        <5>1. snapshots[k].head.state + 1 \in 1 .. s + 1
          BY <1>3, <1>6, <2>1
        <5>2. snapshots[k].mem = trace[snapshots[k].head.state + 1]
          BY <1>4
        <5>3. QED
          BY <2>7, <5>1, <5>2
      <4>2. QED
        BY <4>1
    <3>3. \A i \in 1 .. head.nct : customs[i].step < s + 1
      BY <1>3, <1>4, <1>5
    <3>4. (s + 1) + 1 = s + 2 /\ 1 + (s + 1) = s + 2
      BY <1>3
    <3>5. QED
      BY <1>1, <1>2, <1>11, <2>4, <2>7, <3>1, <3>2, <3>3, <3>4 DEF Shown
  <2>9. TicksOrdered'
    <3>1. \A i \in 1 .. Len(customs) : customs[i].step + 1 < Len(trace')
      BY <1>3, <1>5, <2>2, <2>7
    <3>2. QED
      BY <1>1, <1>7, <3>1 DEF TicksOrdered
  <2>10. Replayable'
    <3>1. ASSUME NEW i \in 0 .. Len(trace') - 2, NEW t \in Tick, TickOf(i, t)
          PROVE  trace'[i + 2] = Apply(t, trace'[i + 1])
      <4>1. CASE i < s
        <5>1. i \in 0 .. Len(trace) - 2 /\ i + 1 \in 1 .. s + 1 /\ i + 2 \in 1 .. s + 1
          BY <1>3, <2>1, <4>1
        <5>2. trace[i + 2] = Apply(t, trace[i + 1])
          BY <3>1, <5>1 DEF HistoryInv, Replayable
        <5>3. QED
          BY <2>7, <5>1, <5>2
      <4>2. CASE i = s
        <5>1. t = PlainTick
          BY <1>3, <1>5, <2>2, <3>1, <4>2 DEF TickOf
        <5>2. s + 1 \in 1 .. s + 1
          BY <1>3
        <5>3. QED
          BY <1>4, <2>7, <4>2, <5>1, <5>2
      <4>3. QED
        BY <1>3, <2>7, <4>1, <4>2
    <3>2. QED
      BY <1>1, <3>1 DEF Replayable, TickOf
  <2>11. QED
    BY <2>8, <2>9, <2>10
<1>12. QED
  BY <1>10, <1>11

-----------------------------------------------------------------------------
(* The actions *)

LEMMA InitHistory == Init => HistoryInv
<1> SUFFICES ASSUME Init PROVE HistoryInv
  OBVIOUS
<1>1. /\ mem = ResetState /\ customs = <<>> /\ trace = <<ResetState>>
      /\ snapshots = <<[head |-> InitialHead, mem |-> ResetState]>>
      /\ head = InitialHead /\ pc = "idle"
  BY DEF Init
<1>2. /\ Len(customs) = 0 /\ Len(trace) = 1 /\ trace[1] = ResetState
      /\ Len(snapshots) = 1 /\ snapshots[1].mem = ResetState
      /\ snapshots[1].head.state = 0
      /\ head.state = 0 /\ head.base = 1 /\ head.nct = 0
  BY <1>1 DEF InitialHead
<1>3. Shown(snapshots, head, mem)
  BY <1>1, <1>2 DEF Shown
<1>4. TicksOrdered /\ Replayable
  BY <1>2 DEF TicksOrdered, Replayable
<1>5. QED
  BY <1>1, <1>3, <1>4 DEF HistoryInv

(* What clear_forward_history keeps of the custom ticks: those before HEAD. *)
LEMMA KeptTicks ==
  ASSUME StructInv, HistoryInv
  PROVE  /\ KeptCustoms \in Seq(Customs)
         /\ Len(KeptCustoms) \in 0 .. Len(customs)
         /\ \A i \in 1 .. Len(KeptCustoms) : /\ KeptCustoms[i] = customs[i]
                                             /\ customs[i].step < head.state
         /\ \A i \in Len(KeptCustoms) + 1 .. Len(customs) :
              customs[i].step >= head.state
<1>1. /\ customs \in Seq(Customs) /\ head.state \in Nat
      /\ head.nct \in 0 .. Len(customs) /\ Len(trace) \in Nat
      /\ Len(customs) \in Nat
      /\ \A i \in 1 .. Len(customs) : customs[i].step \in Nat
  BY Types, CustomTypes
<1>2. CASE Detached
  <2>1. /\ Len(KeptCustoms) = head.nct
        /\ KeptCustoms \in Seq(Customs)
        /\ \A i \in 1 .. head.nct : KeptCustoms[i] = customs[i]
    BY <1>1, <1>2, PrefixFacts DEF KeptCustoms
  <2>2. /\ \A i \in 1 .. head.nct : customs[i].step < head.state
        /\ \A i \in head.nct + 1 .. Len(customs) : customs[i].step >= head.state
    BY <1>2 DEF Detached, HistoryInv, Shown
  <2>3. QED
    BY <1>1, <2>1, <2>2
<1>3. CASE ~Detached
  <2>1. KeptCustoms = customs
    BY <1>3 DEF KeptCustoms
  <2>2. Len(trace) = 1 + head.state
    BY <1>3 DEF Detached, HistoryInv, Shown
  <2>3. ASSUME NEW i \in 1 .. Len(customs) PROVE customs[i].step < head.state
    <3>1. customs[i].step + 1 < Len(trace)
      BY DEF HistoryInv, TicksOrdered
    <3>2. QED
      BY <1>1, <2>2, <3>1
  <2>4. QED
    BY <1>1, <2>1, <2>3
<1>4. QED
  BY <1>2, <1>3

(* A new step: history up to HEAD is kept, and the ticks recorded for it   *)
(* are those of ticks; those of ticks at HEAD say t.                       *)
LEMMA AdvanceHistory ==
  ASSUME StructInv, HistoryInv, NEW t \in Tick, NEW ticks \in Seq(Customs),
         NEW n \in 0 .. Len(ticks), Advance(t, ticks, n),
         \A i, j \in 1 .. Len(ticks) : i < j => ticks[i].step < ticks[j].step,
         \A i \in 1 .. Len(ticks) : ticks[i].step <= head.state,
         \A i \in 0 .. head.state - 1, u \in Tick :
           TickIn(ticks, i, u) => TickOf(i, u),
         \A u \in Tick : TickIn(ticks, head.state, u) => u = t
  PROVE  HistoryInv'
<1> DEFINE s == head.state
           m == Apply(t, mem)
           next == [state |-> s + 1, base |-> head.base, nct |-> n]
           saved == [next EXCEPT !.base = Len(KeptSnapshots) + 1]
           last == KeptSnapshots[Len(KeptSnapshots)].head.state
<1>1. /\ mem \in Machine /\ trace \in Seq(Machine)
      /\ Len(trace) \in Nat /\ Len(ticks) \in Nat
      /\ s \in Nat /\ s < Len(trace) /\ s + 1 \in 0 .. Len(trace)
      /\ n \in Nat /\ n <= Len(ticks)
      /\ head.base \in Nat
  BY Types
<1>2. /\ mem' = m /\ customs' = ticks /\ pc' = "idle"
      /\ trace' = Append(SubSeq(trace, 1, s + 1), m)
      /\ next.state - last > SnapshotInterval =>
           /\ head' = saved
           /\ snapshots' = Append(KeptSnapshots, [head |-> saved, mem |-> m])
      /\ ~(next.state - last > SnapshotInterval) =>
           /\ head' = next
           /\ snapshots' = KeptSnapshots
  BY DEF Advance, control
<1>3. m \in Machine
  BY <1>1, SimulatorAssumption
<1>4. /\ trace' \in Seq(Machine)
      /\ Len(trace') = s + 2
      /\ \A i \in 1 .. s + 1 : trace'[i] = trace[i]
      /\ trace'[s + 2] = m
  <2>1. /\ SubSeq(trace, 1, s + 1) \in Seq(Machine)
        /\ Len(SubSeq(trace, 1, s + 1)) = s + 1
        /\ \A i \in 1 .. s + 1 : SubSeq(trace, 1, s + 1)[i] = trace[i]
    BY <1>1, PrefixFacts
  <2> DEFINE past == SubSeq(trace, 1, s + 1)
  <2> HIDE DEF past
  <2>2. past \in Seq(Machine) /\ Len(past) = s + 1
    BY <2>1 DEF past
  <2>3. /\ Append(past, m) \in Seq(Machine)
        /\ Len(Append(past, m)) = Len(past) + 1
        /\ \A i \in 1 .. Len(past) : Append(past, m)[i] = past[i]
        /\ Append(past, m)[Len(past) + 1] = m
    BY <1>3, <2>2, AppendFacts
  <2>4. trace' = Append(past, m)
    BY <1>2 DEF past
  <2>5. (s + 1) + 1 = s + 2
    BY <1>1
  <2>6. QED
    BY <2>1, <2>2, <2>3, <2>4, <2>5 DEF past
<1>5. /\ Ordered(KeptSnapshots)
      /\ Len(KeptSnapshots) = head.base
      /\ \A k \in 1 .. head.base : KeptSnapshots[k] = snapshots[k]
      /\ Placed(KeptSnapshots, head)
      /\ head.base \in 1 .. Len(snapshots)
  BY KeptAreOrdered, Types
<1>6. /\ next.state = s + 1 /\ next.base = head.base /\ next.nct = n
      /\ saved.state = s + 1 /\ saved.base = head.base + 1 /\ saved.nct = n
      /\ saved \in Heads
  BY <1>1, <1>5 DEF Heads
<1>7. ASSUME NEW k \in 1 .. head.base
      PROVE  /\ KeptSnapshots[k].mem = trace'[KeptSnapshots[k].head.state + 1]
             /\ KeptSnapshots[k].head.state \in Nat
  <2>1. /\ KeptSnapshots[k].head.state \in Nat
        /\ KeptSnapshots[k].head.state <= s
    BY <1>5, SnapshotTypes DEF Placed, IsBase
  <2>2. KeptSnapshots[k].head.state + 1 \in 1 .. s + 1
    BY <1>1, <2>1
  <2>3. KeptSnapshots[k].mem = trace[KeptSnapshots[k].head.state + 1]
    <3>1. k \in 1 .. Len(snapshots)
      BY <1>1, <1>5, Types
    <3>2. QED
      BY <1>5, <3>1 DEF HistoryInv, Shown
  <2>4. QED
    BY <1>4, <2>1, <2>2, <2>3
<1> HIDE DEF next, saved, last, m
<1>8. /\ head'.state = s + 1
      /\ head'.nct = n
      /\ head'.base = Len(snapshots')
      /\ \A k \in 1 .. Len(snapshots') :
           snapshots'[k].mem = trace'[snapshots'[k].head.state + 1]
  <2>1. CASE next.state - last > SnapshotInterval
    <3>1. [head |-> saved, mem |-> m] \in Snapshots
      BY <1>3, <1>6 DEF Snapshots
    <3>2. /\ Len(snapshots') = head.base + 1
          /\ \A k \in 1 .. head.base : snapshots'[k] = KeptSnapshots[k]
          /\ snapshots'[head.base + 1] = [head |-> saved, mem |-> m]
      <4>1. PICK e \in Snapshots : e = [head |-> saved, mem |-> m]
        BY <3>1
      <4>2. snapshots' = Append(KeptSnapshots, e)
        BY <1>2, <2>1, <4>1
      <4>3. KeptSnapshots \in Seq(Snapshots)
        BY <1>5 DEF Ordered
      <4>4. /\ Len(snapshots') = Len(KeptSnapshots) + 1
            /\ \A k \in 1 .. Len(KeptSnapshots) : snapshots'[k] = KeptSnapshots[k]
            /\ snapshots'[Len(KeptSnapshots) + 1] = e
        BY <4>2, <4>3, AppendFacts
      <4>5. QED
        BY <1>5, <4>1, <4>4
    <3>3. head' = saved
      BY <1>2, <2>1
    <3>4. /\ snapshots'[head.base + 1].mem = m
          /\ snapshots'[head.base + 1].head.state + 1 = s + 2
      BY <1>1, <1>6, <3>2
    <3>5. \A k \in 1 .. Len(snapshots') : k \in 1 .. head.base \/ k = head.base + 1
      BY <1>1, <3>2
    <3>6. \A k \in 1 .. Len(snapshots') :
            snapshots'[k].mem = trace'[snapshots'[k].head.state + 1]
      BY <1>4, <1>7, <3>2, <3>4, <3>5
    <3>7. QED
      BY <1>6, <3>2, <3>3, <3>6
  <2>2. CASE ~(next.state - last > SnapshotInterval)
    BY <1>2, <1>5, <1>6, <1>7, <2>2
  <2>3. QED
    BY <2>1, <2>2
<1>9. \A i \in 1 .. Len(ticks) : ticks[i] \in Customs /\ ticks[i].step \in Nat
  <2>1. \A i \in 1 .. Len(ticks) : ticks[i] \in Customs
    BY ElementOfSeq
  <2>2. QED
    BY <2>1 DEF Customs
<1>10. Shown(snapshots, head, mem)'
  <2>1. \A i \in 1 .. n : ticks[i].step < s + 1
    BY <1>1, <1>9
  <2>2. 1 + (s + 1) = s + 2 /\ (s + 1) + 1 = s + 2
    BY <1>1
  <2>3. mem' = trace'[s + 2]
    BY <1>2, <1>4
  <2>4. QED
    BY <1>2, <1>4, <1>8, <2>1, <2>2, <2>3 DEF Shown
<1>11. TicksOrdered'
  <2>1. \A i \in 1 .. Len(ticks) : ticks[i].step + 1 < Len(trace')
    BY <1>1, <1>4, <1>9, SMTT(30)
  <2>2. QED
    BY <1>2, <2>1 DEF TicksOrdered
<1>12. Replayable'
  <2>1. ASSUME NEW i \in 0 .. Len(trace') - 2, NEW u \in Tick,
               TickIn(ticks, i, u)
        PROVE  trace'[i + 2] = Apply(u, trace'[i + 1])
    <3>0. i \in 0 .. s
      BY <1>1, <1>4
    <3>1. CASE i < s
      <4>1. /\ i \in 0 .. s - 1 /\ i \in 0 .. Len(trace) - 2
            /\ i + 1 \in 1 .. s + 1 /\ i + 2 \in 1 .. s + 1
        <5>1. /\ i \in Nat /\ s \in Nat /\ Len(trace) \in Nat
              /\ i + 1 <= s /\ s + 1 <= Len(trace)
          BY <1>1, <3>0, <3>1
        <5> HIDE DEF s
        <5>2. i \in 0 .. s - 1
          BY <5>1
        <5>3. i \in 0 .. Len(trace) - 2
          BY <5>1
        <5>4. i + 1 \in 1 .. s + 1 /\ i + 2 \in 1 .. s + 1
          BY <5>1
        <5>5. QED
          BY <5>2, <5>3, <5>4
      <4>2. TickOf(i, u)
        BY <2>1, <4>1
      <4>3. trace[i + 2] = Apply(u, trace[i + 1])
        BY <4>1, <4>2 DEF HistoryInv, Replayable
      <4>4. QED
        BY <1>4, <4>1, <4>3
    <3>2. CASE i = s
      <4>1. u = t
        <5>1. \A v \in Tick : TickIn(ticks, s, v) => v = t
          OBVIOUS
        <5>2. QED
          BY <2>1, <3>2, <5>1
      <4>2. trace'[s + 1] = mem
        <5>1. s + 1 \in 1 .. s + 1
          BY <1>1
        <5>2. QED
          BY <1>4, <5>1 DEF HistoryInv, Shown
      <4>3. QED
        BY <1>4, <3>2, <4>1, <4>2 DEF m
    <3>3. QED
      BY <1>1, <3>0, <3>1, <3>2
  <2>2. \A i \in 0 .. Len(trace') - 2, u \in Tick :
          TickOf(i, u)' <=> TickIn(ticks, i, u)
    BY <1>2 DEF TickOf, TickIn
  <2>3. QED
    BY <2>1, <2>2 DEF Replayable
<1>13. QED
  BY <1>2, <1>10, <1>11, <1>12 DEF HistoryInv

LEMMA StepHistory ==
  ASSUME StructInv, HistoryInv, Step
  PROVE  HistoryInv'
<1>1. /\ KeptCustoms \in Seq(Customs)
      /\ Len(KeptCustoms) \in 0 .. Len(customs)
      /\ \A i \in 1 .. Len(KeptCustoms) : /\ KeptCustoms[i] = customs[i]
                                          /\ customs[i].step < head.state
      /\ \A i \in Len(KeptCustoms) + 1 .. Len(customs) :
           customs[i].step >= head.state
  BY KeptTicks
<1>2. /\ Len(customs) \in Nat /\ head.state \in Nat
      /\ \A i \in 1 .. Len(customs) : customs[i].step \in Nat
  BY Types, CustomTypes
<1>3. head.nct \in 0 .. Len(KeptCustoms)
  BY KeptCustomsTyped
<1>4. \A i, j \in 1 .. Len(KeptCustoms) :
        i < j => KeptCustoms[i].step < KeptCustoms[j].step
  <2>1. \A i \in 1 .. Len(KeptCustoms) : i \in 1 .. Len(customs)
    BY <1>1, <1>2
  <2>2. QED
    BY <1>1, <2>1 DEF HistoryInv, TicksOrdered
<1>5. \A i \in 1 .. Len(KeptCustoms) : KeptCustoms[i].step <= head.state
  BY <1>1, <1>2
<1>6. ASSUME NEW i \in 0 .. head.state - 1, NEW u \in Tick, TickIn(KeptCustoms, i, u)
      PROVE  TickOf(i, u)
  <2>1. i < head.state /\ i \in Nat
    BY <1>2
  <2>2. \A k \in 1 .. Len(customs) :
          k \in 1 .. Len(KeptCustoms) \/ k \in Len(KeptCustoms) + 1 .. Len(customs)
    BY <1>1, <1>2
  <2>3. \A k \in 1 .. Len(KeptCustoms) : k \in 1 .. Len(customs)
    BY <1>1, <1>2
  <2>4. \A k \in Len(KeptCustoms) + 1 .. Len(customs) : customs[k].step # i
    <3>1. ASSUME NEW k \in Len(KeptCustoms) + 1 .. Len(customs)
          PROVE  customs[k].step # i
      <4>1. customs[k].step >= head.state
        BY <1>1
      <4>2. k \in 1 .. Len(customs)
        BY <1>1, <1>2
      <4>3. QED
        BY <1>2, <2>1, <4>1, <4>2
    <3>2. QED
      BY <3>1
  <2>5. CASE \E k \in 1 .. Len(KeptCustoms) :
               KeptCustoms[k].step = i /\ KeptCustoms[k].tick = u
    BY <1>1, <2>3, <2>5 DEF TickOf
  <2>6. CASE /\ \A k \in 1 .. Len(KeptCustoms) : KeptCustoms[k].step # i
             /\ u = PlainTick
    BY <1>1, <2>2, <2>4, <2>6 DEF TickOf
  <2>7. QED
    BY <1>6, <2>5, <2>6 DEF TickIn
<1>7. ASSUME NEW u \in Tick, TickIn(KeptCustoms, head.state, u)
      PROVE  u = PlainTick
  <2>1. ASSUME NEW k \in 1 .. Len(KeptCustoms)
        PROVE  KeptCustoms[k].step # head.state
    <3>1. k \in 1 .. Len(customs)
      BY <1>1, <1>2
    <3>2. QED
      BY <1>1, <1>2, <3>1
  <2>2. QED
    BY <1>7, <2>1 DEF TickIn
<1>8. Advance(PlainTick, KeptCustoms, head.nct) /\ PlainTick \in Tick
  BY DEF Step, Tick
<1>9. QED
  BY <1>1, <1>3, <1>4, <1>5, <1>6, <1>7, <1>8, AdvanceHistory

LEMMA StepWithHistory ==
  ASSUME StructInv, HistoryInv, NEW c \in CustomTick, StepWith(c)
  PROVE  HistoryInv'
<1> DEFINE entry == [step |-> head.state, tick |-> c]
           n == Len(KeptCustoms)
           ticks == Append(KeptCustoms, entry)
<1>1. /\ KeptCustoms \in Seq(Customs)
      /\ n \in 0 .. Len(customs)
      /\ \A i \in 1 .. n : /\ KeptCustoms[i] = customs[i]
                           /\ customs[i].step < head.state
      /\ \A i \in n + 1 .. Len(customs) : customs[i].step >= head.state
  BY KeptTicks
<1>2. /\ Len(customs) \in Nat /\ head.state \in Nat
      /\ \A i \in 1 .. Len(customs) : customs[i].step \in Nat
      /\ n \in Nat
  BY <1>1, Types, CustomTypes
<1>3. entry \in Customs /\ entry.step = head.state /\ entry.tick = c
  BY <1>2 DEF Customs
<1>4. Advance(c, ticks, n) /\ c \in Tick
  BY DEF StepWith, Tick
<1> HIDE DEF entry
<1>5. /\ ticks \in Seq(Customs)
      /\ Len(ticks) = n + 1
      /\ \A i \in 1 .. n : ticks[i] = KeptCustoms[i]
      /\ ticks[n + 1] = entry
  BY <1>1, <1>3, AppendFacts
<1> HIDE DEF ticks, n
<1>6. \A i \in 1 .. n : /\ ticks[i] = customs[i]
                        /\ ticks[i].step \in Nat
                        /\ ticks[i].step < head.state
                        /\ i \in 1 .. Len(customs)
  BY <1>1, <1>2, <1>5
<1>7. \A i \in 1 .. Len(ticks) : i \in 1 .. n \/ i = n + 1
  BY <1>2, <1>5
<1>8. ticks[n + 1].step = head.state /\ ticks[n + 1].tick = c
  BY <1>3, <1>5
<1>9. ASSUME NEW i \in 1 .. Len(ticks), NEW j \in 1 .. Len(ticks), i < j
      PROVE  ticks[i].step < ticks[j].step
  <2>1. i \in 1 .. n
    BY <1>2, <1>5, <1>9
  <2>2. CASE j \in 1 .. n
    <3>1. customs[i].step < customs[j].step
      BY <1>6, <1>9, <2>1, <2>2 DEF HistoryInv, TicksOrdered
    <3>2. QED
      BY <1>6, <2>1, <2>2, <3>1
  <2>3. CASE j = n + 1
    BY <1>6, <1>8, <2>1, <2>3
  <2>4. QED
    BY <1>7, <2>2, <2>3
<1>10. \A i \in 1 .. Len(ticks) : ticks[i].step <= head.state
  BY <1>2, <1>6, <1>7, <1>8
<1>11. ASSUME NEW i \in 0 .. head.state - 1, NEW u \in Tick, TickIn(ticks, i, u)
       PROVE  TickOf(i, u)
  <2>1. i < head.state /\ i \in Nat /\ head.state # i
    BY <1>2
  <2>2. \A k \in 1 .. Len(customs) :
          k \in 1 .. n \/ k \in n + 1 .. Len(customs)
    BY <1>2
  <2>3. \A k \in 1 .. n : k \in 1 .. Len(ticks)
    BY <1>2, <1>5
  <2>4. \A k \in n + 1 .. Len(customs) : customs[k].step # i
    <3>1. ASSUME NEW k \in n + 1 .. Len(customs)
          PROVE  customs[k].step # i
      <4>1. customs[k].step >= head.state
        BY <1>1
      <4>2. k \in 1 .. Len(customs)
        BY <1>2
      <4>3. QED
        BY <1>2, <2>1, <4>1, <4>2
    <3>2. QED
      BY <3>1
  <2>5. CASE \E k \in 1 .. Len(ticks) : ticks[k].step = i /\ ticks[k].tick = u
    <3>1. PICK k \in 1 .. Len(ticks) : ticks[k].step = i /\ ticks[k].tick = u
      BY <2>5
    <3>2. k \in 1 .. n
      BY <1>7, <1>8, <2>1, <3>1
    <3>3. QED
      BY <1>6, <3>1, <3>2 DEF TickOf
  <2>6. CASE /\ \A k \in 1 .. Len(ticks) : ticks[k].step # i
             /\ u = PlainTick
    BY <1>6, <2>2, <2>3, <2>4, <2>6 DEF TickOf
  <2>7. QED
    BY <1>11, <2>5, <2>6 DEF TickIn
<1>12. ASSUME NEW u \in Tick, TickIn(ticks, head.state, u)
       PROVE  u = c
  <2>1. n + 1 \in 1 .. Len(ticks)
    BY <1>2, <1>5
  <2>2. PICK k \in 1 .. Len(ticks) :
          ticks[k].step = head.state /\ ticks[k].tick = u
    BY <1>8, <1>12, <2>1 DEF TickIn
  <2>3. k = n + 1
    BY <1>2, <1>6, <1>7, <2>2
  <2>4. QED
    BY <1>8, <2>2, <2>3
<1>13. n \in 0 .. Len(ticks)
  BY <1>2, <1>5
<1>14. QED
  BY <1>4, <1>5, <1>9, <1>10, <1>11, <1>12, <1>13, AdvanceHistory

(* clear_forward_history on a detached HEAD. *)
LEMMA ClearHistory ==
  ASSUME StructInv, HistoryInv, ClearForwardHistory, Detached
  PROVE  HistoryInv'
<1>1. /\ snapshots' = KeptSnapshots
      /\ customs' = SubSeq(customs, 1, head.nct)
      /\ trace' = SubSeq(trace, 1, head.state + 1)
      /\ mem' = mem /\ head' = head /\ pc' = pc /\ pc = "idle"
  BY DEF ClearForwardHistory, KeptSnapshots, control
<1>2. /\ head.state \in Nat /\ head.nct \in Nat /\ head.base \in Nat
      /\ Len(trace) \in Nat /\ Len(customs) \in Nat
      /\ head.state + 1 \in 0 .. Len(trace)
      /\ head.nct \in 0 .. Len(customs)
      /\ trace \in Seq(Machine) /\ customs \in Seq(Customs)
      /\ head.base \in 1 .. Len(snapshots) /\ Len(snapshots) \in Nat
      /\ \A i \in 1 .. Len(customs) : customs[i].step \in Nat
  BY Types, CustomTypes
<1>3. /\ Ordered(KeptSnapshots)
      /\ Len(KeptSnapshots) = head.base
      /\ \A k \in 1 .. head.base : KeptSnapshots[k] = snapshots[k]
      /\ Placed(KeptSnapshots, head)
  BY KeptAreOrdered
<1>4. /\ Len(trace') = head.state + 1
      /\ \A i \in 1 .. head.state + 1 : trace'[i] = trace[i]
  BY <1>1, <1>2, PrefixFacts
<1>5. /\ Len(customs') = head.nct
      /\ \A i \in 1 .. head.nct : customs'[i] = customs[i]
  BY <1>1, <1>2, PrefixFacts
<1>6. /\ \A i \in 1 .. head.nct : customs[i].step < head.state
      /\ \A i \in head.nct + 1 .. Len(customs) : customs[i].step >= head.state
  BY DEF Detached, HistoryInv, Shown
<1>7. ASSUME NEW k \in 1 .. head.base
      PROVE  KeptSnapshots[k].mem = trace'[KeptSnapshots[k].head.state + 1]
  <2>1. /\ KeptSnapshots[k].head.state \in Nat
        /\ KeptSnapshots[k].head.state <= head.state
    BY <1>3, SnapshotTypes DEF Placed, IsBase
  <2>2. KeptSnapshots[k].head.state + 1 \in 1 .. head.state + 1
    BY <1>2, <2>1, SMTT(30)
  <2>3. k \in 1 .. Len(snapshots)
    BY <1>2
  <2>4. KeptSnapshots[k].mem = trace[KeptSnapshots[k].head.state + 1]
    BY <1>3, <2>3 DEF HistoryInv, Shown
  <2>5. QED
    BY <1>4, <2>2, <2>4
<1>8. Shown(snapshots, head, mem)'
  <2>1. mem = trace'[head.state + 1]
    <3>1. head.state + 1 \in 1 .. head.state + 1
      BY <1>2
    <3>2. QED
      BY <1>4, <3>1 DEF HistoryInv, Shown
  <2>2. \A i \in 1 .. head.nct : customs'[i].step < head.state
    BY <1>5, <1>6
  <2>3. 1 + head.state = head.state + 1
    BY <1>2
  <2>4. QED
    BY <1>1, <1>3, <1>4, <1>7, <2>1, <2>2, <2>3 DEF Shown
<1>9. TicksOrdered'
  <2>1. \A i \in 1 .. head.nct : i \in 1 .. Len(customs)
    BY <1>2
  <2>2. \A i, j \in 1 .. head.nct : i < j => customs'[i].step < customs'[j].step
    BY <1>5, <2>1 DEF HistoryInv, TicksOrdered
  <2>3. \A i \in 1 .. head.nct : customs'[i].step + 1 < Len(trace')
    BY <1>2, <1>4, <1>5, <1>6, <2>1
  <2>4. QED
    BY <1>5, <2>2, <2>3 DEF TicksOrdered
<1>10. Replayable'
  <2>1. ASSUME NEW i \in 0 .. Len(trace') - 2, NEW u \in Tick, TickIn(customs', i, u)
        PROVE  trace'[i + 2] = Apply(u, trace'[i + 1])
    <3>1. /\ i \in Nat /\ i < head.state
          /\ i \in 0 .. Len(trace) - 2
          /\ i + 1 \in 1 .. head.state + 1 /\ i + 2 \in 1 .. head.state + 1
      BY <1>2, <1>4, SMTT(30)
    <3>2. \A k \in 1 .. head.nct : k \in 1 .. Len(customs)
      BY <1>2
    <3>3. \A k \in 1 .. Len(customs) :
            k \in 1 .. head.nct \/ k \in head.nct + 1 .. Len(customs)
      BY <1>2
    <3>4. \A k \in head.nct + 1 .. Len(customs) : customs[k].step # i
      <4>1. ASSUME NEW k \in head.nct + 1 .. Len(customs)
            PROVE  customs[k].step # i
        <5>1. customs[k].step >= head.state
          BY <1>6
        <5>2. k \in 1 .. Len(customs)
          BY <1>2
        <5>3. QED
          BY <1>2, <3>1, <5>1, <5>2
      <4>2. QED
        BY <4>1
    <3>5. TickOf(i, u)
      <4>1. CASE \E k \in 1 .. head.nct : customs'[k].step = i /\ customs'[k].tick = u
        BY <1>5, <3>2, <4>1 DEF TickOf
      <4>2. CASE (\A k \in 1 .. head.nct : customs'[k].step # i) /\ u = PlainTick
        BY <1>5, <3>3, <3>4, <4>2 DEF TickOf
      <4>3. QED
        BY <1>5, <2>1, <4>1, <4>2 DEF TickIn
    <3>6. trace[i + 2] = Apply(u, trace[i + 1])
      BY <3>1, <3>5 DEF HistoryInv, Replayable
    <3>7. QED
      BY <1>4, <3>1, <3>6
  <2>2. \A i \in 0 .. Len(trace') - 2, u \in Tick :
          TickOf(i, u)' <=> TickIn(customs', i, u)
    BY DEF TickOf, TickIn
  <2>3. QED
    BY <2>1, <2>2 DEF Replayable
<1>11. QED
  BY <1>1, <1>8, <1>9, <1>10 DEF HistoryInv

(* undo_step, redo_step and go_to, up to their replay loop. *)
LEMMA TravelHistory ==
  ASSUME StructInv, HistoryInv, NEW snaps, Ordered(snaps), NEW h,
         Placed(snaps, h), Shown(snaps, h, mem), Clean(snaps, h),
         NEW target \in Nat, GoToState(snaps, h, target)
  PROVE  HistoryInv'
<1>1. /\ snapshots' = snaps /\ pc' = "replay"
      /\ customs' = customs /\ trace' = trace
  BY DEF GoToState
<1>2. TicksOrdered' /\ Replayable'
  BY <1>1 DEF HistoryInv, TicksOrdered, Replayable, TickOf
<1>3. PICK k \in 1 .. Len(snaps) :
        IF h.state # target /\ (k # h.base \/ target < h.state)
          THEN GoToSnapshot(snaps, h, k)
          ELSE head' = h /\ mem' = mem
  BY DEF GoToState
<1>4. Shown(snapshots, head, mem)'
  <2>1. CASE GoToSnapshot(snaps, h, k)
    <3>1. Shown(snaps, head, mem)'
      BY <1>1, <2>1, GoToSnapshotShown DEF HistoryInv
    <3>2. QED
      BY <1>1, <3>1 DEF Shown
  <2>2. CASE head' = h /\ mem' = mem
    BY <1>1, <2>2 DEF Shown
  <2>3. QED
    BY <1>3, <2>1, <2>2
<1>5. QED
  BY <1>1, <1>2, <1>4 DEF HistoryInv

(* The start of undo_steps_until. *)
LEMMA BeginScanHistory ==
  ASSUME StructInv, HistoryInv, BeginScan
  PROVE  HistoryInv'
<1>1. /\ snapshots' = SavedSnapshots /\ head' = SavedHead /\ pc' = "enter"
      /\ mem' = mem /\ customs' = customs /\ trace' = trace
  BY DEF BeginScan
<1>2. Shown(SavedSnapshots, SavedHead, mem) /\ Clean(SavedSnapshots, SavedHead)
  BY SavedShown
<1>3. TicksOrdered' /\ Replayable'
  BY <1>1 DEF HistoryInv, TicksOrdered, Replayable, TickOf
<1>4. Shown(snapshots, head, mem)' /\ Clean(snapshots, head)'
  BY <1>1, <1>2 DEF Shown, Clean
<1>5. QED
  BY <1>3, <1>4 DEF HistoryInv

(* The replayed ticks of either loop. *)
LEMMA ReplayHistory ==
  ASSUME StructInv, HistoryInv, Replay
  PROVE  HistoryInv'
<1>1. pc = "replay" /\ pc' = "replay" /\ head.state # goal /\ ReplayStep
  BY DEF Replay, control
<1>2. /\ IsBase(snapshots, head.base, goal)
      /\ goal \in Nat /\ head.state < goal
  BY <1>1, Types DEF StructInv, CallOK, TypeOK
<1>3. QED
  BY <1>1, <1>2, ReplayStepShown DEF HistoryInv

LEMMA SweepHistory ==
  ASSUME StructInv, HistoryInv, NEW some \in BOOLEAN, SweepSegment(some)
  PROVE  HistoryInv'
<1>1. /\ pc = "sweep" /\ pc' = "sweep" /\ ReplayStep
      /\ head.state < scan.top - 1
  BY DEF SweepSegment
<1>2. /\ scan.snap \in 1 .. Len(snapshots)
      /\ head.base = scan.snap
      /\ scan.top \in Nat /\ head.state \in Nat
      /\ snapshots[scan.snap].head.state <= head.state
      /\ snapshots[scan.snap].head.state \in Nat
  BY <1>1, StateTypes, SMTT(30) DEF StructInv, CallOK, TypeOK, Heads, Placed, IsBase
<1>3. scan.top - 1 \in Nat /\ scan.top - 1 < scan.top
  BY <1>1, <1>2
<1>4. IsBase(snapshots, head.base, scan.top - 1)
  <2>1. snapshots[scan.snap].head.state <= scan.top - 1
    BY <1>1, <1>2
  <2>2. QED
    BY <1>1, <1>2, <1>3, <2>1, SegmentBase
<1>5. QED
  BY <1>1, <1>3, <1>4, ReplayStepShown DEF HistoryInv

(* A checkout in the middle of undo_steps_until: HEAD is in a segment that *)
(* later snapshots follow, so leaving it loses nothing.                    *)
LEMMA CheckoutHistory ==
  ASSUME StructInv, HistoryInv, Clean(snapshots, head),
         NEW k \in 1 .. Len(snapshots), GoToSnapshot(snapshots, head, k),
         snapshots' = snapshots, customs' = customs, trace' = trace
  PROVE  HistoryInv'
<1>1. Shown(snapshots, head, mem)' /\ Clean(snapshots, head)'
  <2>1. Ordered(snapshots) /\ Placed(snapshots, head)
    BY DEF StructInv
  <2>2. Shown(snapshots, head, mem) /\ TicksOrdered
    BY DEF HistoryInv
  <2>3. \A snaps :
          /\ Ordered(snaps) /\ Placed(snaps, head) /\ k \in 1 .. Len(snaps)
          /\ Shown(snaps, head, mem) /\ Clean(snaps, head)
          /\ GoToSnapshot(snaps, head, k)
          /\ snapshots' = snaps
          => Shown(snapshots, head, mem)' /\ Clean(snapshots, head)'
    <3>1. SUFFICES ASSUME NEW snaps, Ordered(snaps), Placed(snaps, head),
                          k \in 1 .. Len(snaps),
                          Shown(snaps, head, mem), Clean(snaps, head),
                          GoToSnapshot(snaps, head, k), snapshots' = snaps
                   PROVE  Shown(snapshots, head, mem)' /\ Clean(snapshots, head)'
      OBVIOUS
    <3>2. Shown(snaps, head, mem)' /\ Clean(snaps, head)'
      BY <2>2, <3>1, GoToSnapshotShown
    <3>3. QED
      BY <3>1, <3>2 DEF Shown, Clean
  <2>4. QED
    BY <2>1, <2>2, <2>3
<1>2. TicksOrdered' /\ Replayable'
  BY DEF HistoryInv, TicksOrdered, Replayable, TickOf
<1>3. QED
  BY <1>1, <1>2 DEF HistoryInv

LEMMA UnchangedHistory ==
  ASSUME HistoryInv, UNCHANGED <<mem, snapshots, customs, head, trace>>,
         pc' = "enter" => Clean(snapshots, head)
  PROVE  HistoryInv'
<1>1. Shown(snapshots, head, mem)' /\ TicksOrdered' /\ Replayable'
  BY DEF HistoryInv, Shown, TicksOrdered, Replayable, TickOf
<1>2. pc' = "enter" => Clean(snapshots, head)'
  BY DEF Clean
<1>3. QED
  BY <1>1, <1>2 DEF HistoryInv

(* The segment loop of undo_steps_until. *)
LEMMA SegmentHistory ==
  ASSUME StructInv, HistoryInv,
         (\E some \in BOOLEAN : EnterSegment(some)) \/ SegmentMatched \/ SegmentMissed
  PROVE  HistoryInv'
<1>1. /\ pc \in {"enter", "sweep"}
      /\ snapshots' = snapshots /\ customs' = customs /\ trace' = trace
  BY DEF EnterSegment, SegmentMatched, SegmentMissed
<1>2. /\ scan.snap \in 1 .. Len(snapshots) /\ scan.snap # Len(snapshots)
      /\ 1 \in 1 .. Len(snapshots)
  BY <1>1, Types DEF StructInv, CallOK
<1>3. Clean(snapshots, head)
  BY <1>1, <1>2 DEF HistoryInv, StructInv, CallOK, Clean
<1>4. CASE GoToSnapshot(snapshots, head, scan.snap) \/ GoToSnapshot(snapshots, head, 1)
  BY <1>1, <1>2, <1>3, <1>4, CheckoutHistory
<1>5. CASE UNCHANGED <<head, mem>>
  BY <1>1, <1>3, <1>5, UnchangedHistory
<1>6. QED
  BY <1>4, <1>5 DEF EnterSegment, SegmentMatched, SegmentMissed,
               ReachedStart

LEMMA NextHistory ==
  ASSUME ClearAnywhere = FALSE, StructInv, HistoryInv, [Next]_vars
  PROVE  HistoryInv'
<1>1. head.state \in Nat
  BY Types
<1>2. CASE Step
  BY <1>2, StepHistory
<1>3. ASSUME NEW c \in CustomTick, StepWith(c) PROVE HistoryInv'
  BY <1>3, StepWithHistory
<1>4. CASE ClearForwardHistory
  BY <1>4, ClearHistory DEF ClearForwardHistory
<1>5. CASE UndoStep
  <2>1. head.state - 1 \in Nat /\ GoToState(SavedSnapshots, SavedHead, head.state - 1)
    BY <1>1, <1>5 DEF UndoStep
  <2>2. QED
    BY <2>1, SavingIsSound, SavedShown, TravelHistory
<1>6. CASE RedoStep
  <2>1. GoToState(snapshots, head, head.state + 1) /\ Clean(snapshots, head)
    BY <1>6 DEF RedoStep, Clean, Detached
  <2>2. QED
    BY <1>1, <2>1, TravelHistory DEF StructInv, HistoryInv
<1>7. ASSUME NEW n \in 0 .. MaxSteps, GoTo(n) PROVE HistoryInv'
  <2>1. n \in Nat /\ GoToState(SavedSnapshots, SavedHead, n)
    BY <1>7, SimulatorAssumption DEF GoTo
  <2>2. QED
    BY <2>1, SavingIsSound, SavedShown, TravelHistory
<1>8. CASE BeginScan
  BY <1>8, BeginScanHistory
<1>9. CASE Internal
  <2>1. CASE Replay
    BY <2>1, ReplayHistory
  <2>2. CASE Return
    BY <2>2, UnchangedHistory DEF Return, EndCall
  <2>3. CASE \E some \in BOOLEAN : SweepSegment(some)
    BY <2>3, SweepHistory
  <2>4. CASE (\E some \in BOOLEAN : EnterSegment(some)) \/ SegmentMatched \/ SegmentMissed
    BY <2>4, SegmentHistory
  <2>5. QED
    BY <1>9, <2>1, <2>2, <2>3, <2>4 DEF Internal
<1>10. CASE UNCHANGED vars
  BY <1>10, UnchangedHistory DEF vars, control, HistoryInv, Clean
<1>11. QED
  BY <1>2, <1>3, <1>4, <1>5, <1>6, <1>7, <1>8, <1>9, <1>10 DEF Next

-----------------------------------------------------------------------------
(* Every reachable state of a simulator whose forward history is cleared   *)
(* on a detached HEAD only.                                                *)
LEMMA History ==
  ASSUME ClearAnywhere = FALSE
  PROVE  Spec => [](StructInv /\ HistoryInv)
<1>1. Init => StructInv /\ HistoryInv
  BY InitStruct, InitHistory
<1>2. StructInv /\ HistoryInv /\ [Next]_vars => (StructInv /\ HistoryInv)'
  BY NextStruct, NextHistory
<1>3. QED
  BY <1>1, <1>2, PTL DEF Spec

(* simulator.rs:95, "a full linear simulation history with undo and redo   *)
(* capabilities": the state HEAD shows is the one history has there, for   *)
(* every machine, snapshot interval and sequence of calls.                 *)
THEOREM TimeTravelIsExact ==
  ASSUME ClearAnywhere = FALSE
  PROVE  Spec => []TimeTravel
<1>1. StructInv /\ HistoryInv => TimeTravel
  BY DEF StructInv, Recorded, HistoryInv, Shown, TimeTravel
<1>2. QED
  BY <1>1, History, PTL

(* What is stored, snapshots and custom ticks, is enough to recompute all  *)
(* of history.                                                             *)
THEOREM HistoryIsReplayable ==
  ASSUME ClearAnywhere = FALSE
  PROVE  Spec => []Replayable
<1>1. StructInv /\ HistoryInv => Replayable
  BY DEF HistoryInv
<1>2. QED
  BY <1>1, History, PTL

-----------------------------------------------------------------------------
(* The tick a replay_step applies, and what it shows to history. *)
LEMMA ReplayIsATick ==
  ASSUME StructInv, ReplayStep
  PROVE  \E t \in Tick :
           /\ mem' = Apply(t, mem)
           /\ head'.state = head.state + 1
           /\ trace' = IF head.state + 1 = Len(trace) THEN Append(trace, mem')
                                                      ELSE trace
<1> DEFINE isCustom == /\ head.nct < Len(customs)
                       /\ customs[head.nct + 1].step = head.state
           tick == IF isCustom THEN customs[head.nct + 1].tick ELSE PlainTick
<1>1. isCustom => head.nct + 1 \in 1 .. Len(customs)
  BY Types
<1>2. tick \in Tick
  BY <1>1, CustomTypes DEF Tick
<1>3. /\ mem' = Apply(tick, mem)
      /\ head'.state = head.state + 1
      /\ trace' = IF head.state + 1 = Len(trace) THEN Append(trace, mem') ELSE trace
  BY DEF ReplayStep
<1>4. QED
  BY <1>2, <1>3

(* HEAD is always at a state of history and shows it. *)
LEMMA TravelTarget ==
  ASSUME StructInv', HistoryInv', trace' = trace
  PROVE  /\ head'.state \in 0 .. Len(trace) - 1
         /\ mem' = trace[head'.state + 1]
<1>1. /\ head'.state \in Nat
      /\ head'.state < Len(trace')
      /\ Len(trace') \in Nat
  BY DEF StructInv, Recorded, TypeOK, Heads
<1>2. mem' = trace'[head'.state + 1]
  BY DEF HistoryInv, Shown
<1>3. QED
  BY <1>1, <1>2

(* A replayed tick is a jump along history, or a new step at its end. *)
LEMMA ReplayRefines ==
  ASSUME StructInv, StructInv', HistoryInv, HistoryInv', ReplayStep
  PROVE  TL!Next
<1>1. PICK t \in Tick :
        /\ mem' = Apply(t, mem)
        /\ head'.state = head.state + 1
        /\ trace' = IF head.state + 1 = Len(trace) THEN Append(trace, mem')
                                                   ELSE trace
  BY ReplayIsATick
<1>2. /\ trace \in Seq(Machine) /\ Len(trace) \in Nat /\ head.state \in Nat
      /\ mem = trace[head.state + 1]
  BY Types DEF HistoryInv, Shown
<1>3. CASE head.state + 1 = Len(trace)
  <2>1. SubSeq(trace, 1, head.state + 1) = trace
    BY <1>2, <1>3
  <2>2. TL!Advance(t)
    BY <1>1, <1>2, <1>3, <2>1 DEF TL!Advance
  <2>3. QED
    BY <2>2 DEF TL!Next, TL!Tick, Tick
<1>4. CASE head.state + 1 # Len(trace)
  <2>1. trace' = trace
    BY <1>1, <1>4
  <2>2. head'.state \in 0 .. Len(trace) - 1 /\ mem' = trace[head'.state + 1]
    BY <2>1, TravelTarget
  <2>3. QED
    BY <2>1, <2>2 DEF TL!Next, TL!Travel
<1>5. QED
  BY <1>3, <1>4

LEMMA NextRefines ==
  ASSUME StructInv, StructInv', HistoryInv, HistoryInv', [Next]_vars
  PROVE  [TL!Next]_(TL!tvars)
<1>1. mem = trace[head.state + 1] /\ head.state \in Nat
  BY Types DEF HistoryInv, Shown
<1>2. ASSUME trace' = trace PROVE TL!Next
  BY <1>2, TravelTarget DEF TL!Next, TL!Travel
<1>3. ASSUME NEW t \in Tick, NEW ticks, NEW n, Advance(t, ticks, n) PROVE TL!Next
  <2>1. head'.state = head.state + 1
    BY <1>3 DEF Advance
  <2>2. TL!Advance(t)
    BY <1>1, <1>3, <2>1 DEF Advance, TL!Advance
  <2>3. QED
    BY <2>2 DEF TL!Next, TL!Tick, Tick
<1>4. CASE Step \/ \E c \in CustomTick : StepWith(c)
  BY <1>3, <1>4 DEF Step, StepWith, Tick
<1>5. CASE ClearForwardHistory
  BY <1>5 DEF ClearForwardHistory, TL!Next, TL!ForgetFuture
<1>6. CASE UndoStep \/ RedoStep \/ (\E n \in 0 .. MaxSteps : GoTo(n)) \/ BeginScan
  BY <1>2, <1>6 DEF UndoStep, RedoStep, GoTo, GoToState, BeginScan
<1>7. CASE Internal
  <2>1. CASE ReplayStep
    BY <2>1, ReplayRefines
  <2>2. CASE trace' = trace
    BY <1>2, <2>2
  <2>3. QED
    BY <1>7, <2>1, <2>2 DEF Internal, Replay, Return, EnterSegment, SweepSegment,
                            SegmentMatched, SegmentMissed
<1>8. CASE UNCHANGED vars
  BY <1>8 DEF vars, TL!tvars
<1>9. QED
  BY <1>4, <1>5, <1>6, <1>7, <1>8 DEF Next

(* The simulator implements the linear history it promises: each of its    *)
(* steps, those of its loops included, is a step of Timeline or changes    *)
(* nothing a user sees.                                                    *)
THEOREM Refinement ==
  ASSUME ClearAnywhere = FALSE
  PROVE  Spec => ImplementsTimeline
<1>1. Init => TL!Init
  BY DEF Init, InitialHead, TL!Init
<1>2. /\ StructInv /\ HistoryInv
      /\ (StructInv /\ HistoryInv)'
      /\ [Next]_vars
      => [TL!Next]_(TL!tvars)
  BY NextRefines
<1>3. QED
  BY <1>1, <1>2, History, PTL DEF Spec, ImplementsTimeline, TL!Spec
=============================================================================
