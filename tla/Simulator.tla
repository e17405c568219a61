------------------------------ MODULE Simulator ------------------------------
(***************************************************************************)
(* The time-travelling simulator of red-planet-core/src/simulator.rs.      *)
(*                                                                         *)
(* It keeps a linear history without storing every state of it: a few      *)
(* snapshots, the closures ("custom ticks") passed to step_with, and the   *)
(* working state.  Any other state is recomputed by checking out a         *)
(* snapshot before it and replaying the ticks in between.                  *)
(*                                                                         *)
(* Every public method that changes state is an action.  The methods that  *)
(* replay do so in a loop that calls back into user code (the ticks, and   *)
(* the pred and visit closures of undo_steps_until), so an iteration of a  *)
(* loop is an action too: pc says which loop of which call is running, and *)
(* no other method can start before it ends, as the methods take           *)
(* `&mut self`.                                                            *)
(*                                                                         *)
(* Indices: state indices count from 0 as in the code; base_snapshot_index *)
(* counts from 1, as snapshots is a TLA+ sequence; nct is                  *)
(* next_custom_tick_index, the number of custom ticks before the next one. *)
(***************************************************************************)
EXTENDS Naturals, Integers, Sequences

CONSTANTS
  Machine, ResetState, PlainTick, CustomTick,   \* see module Timeline
  Apply(_, _),
  SnapshotInterval,  \* steps without a snapshot that are tolerated (2048)
  MaxSteps,          \* bound on state indices (usize::MAX in the code)
  ClearAnywhere      \* may clear_forward_history be called at the end of
                     \* history, as the delete-future command allows?

Tick == CustomTick \cup {PlainTick}

ASSUME SimulatorAssumption ==
  /\ ResetState \in Machine
  /\ \A t \in Tick, m \in Machine : Apply(t, m) \in Machine
  /\ SnapshotInterval \in Nat
  /\ MaxSteps \in Nat
  /\ ClearAnywhere \in BOOLEAN

VARIABLES
  mem,        \* the machine state in the allocator's HEAD
  snapshots,  \* sequence of [head, mem]: HEAD at the snapshot, and its content
  customs,    \* sequence of [step, tick]: the recorded custom ticks
  head,       \* [state, base, nct]
  pc,         \* where in a method the simulator is
  goal,       \* target of the replay loop
  scan,       \* locals of undo_steps_until: snapshot_index, top, last match
  call,       \* history variable: the call in progress, and where it started
  probe,      \* history variable: what pred and visit have seen in this call
  trace       \* history variable: trace[i + 1] is the machine state that was
              \* current when state index i was first reached

control == <<pc, goal, scan, call, probe>>
vars == <<mem, snapshots, customs, head, control, trace>>

NoMatch == -1
NoScan  == [snap |-> 0, top |-> 0, match |-> NoMatch]
NoCall  == [op |-> "none", from |-> 0]
NoProbe == [seen |-> {}, hits |-> {}, visited |-> 0]

Heads     == [state : Nat, base : Nat, nct : Nat]
Snapshots == [head : Heads, mem : Machine]
Customs   == [step : Nat, tick : CustomTick]

TypeOK ==
  /\ mem \in Machine
  /\ snapshots \in Seq(Snapshots)
  /\ customs \in Seq(Customs)
  /\ head \in Heads
  /\ pc \in {"idle", "replay", "enter", "sweep"}
  /\ goal \in Nat
  /\ scan \in [snap : Nat, top : Nat, match : Nat \cup {NoMatch}]
  /\ call \in [op : {"none", "undo", "redo", "go_to", "undo_until"}, from : Nat]
  /\ probe \in [seen : SUBSET Nat, hits : SUBSET Nat, visited : Nat]
  /\ trace \in Seq(Machine)

-----------------------------------------------------------------------------
Detached   == head.base # Len(snapshots)
AtSnapshot == snapshots[head.base].head.state = head.state
NeverDirty == FALSE                              \* mutant: nothing is saved
Dirty      == ~Detached /\ ~AtSnapshot

AvailableSteps ==
  IF Detached THEN snapshots[Len(snapshots)].head.state ELSE head.state

(* Mutant of IsNextTick: partition_point with <= instead of <. *)
IsTickAfter(n, s) ==
  /\ n \in 0 .. Len(customs)
  /\ \A i \in 1 .. n : customs[i].step <= s
  /\ \A i \in n + 1 .. Len(customs) : customs[i].step > s

(* n is the partition point of custom_ticks for state index s. *)
IsNextTick(n, s) ==
  /\ n \in 0 .. Len(customs)
  /\ \A i \in 1 .. n : customs[i].step < s
  /\ \A i \in n + 1 .. Len(customs) : customs[i].step >= s

(* k is the last of snaps that is before or on state index s. *)
IsBase(snaps, k, s) ==
  /\ k \in 1 .. Len(snaps)
  /\ \A i \in 1 .. k : snaps[i].head.state <= s
  /\ \A i \in k + 1 .. Len(snaps) : snaps[i].head.state > s

(* Mutant of SavedHead: make_snapshot leaves base_snapshot_index alone. *)
UnmovedHead == head

(* What undo_step, undo_steps_until and go_to save before they leave a     *)
(* newest state that no snapshot holds.                                    *)
SavedHead == IF Dirty THEN [head EXCEPT !.base = Len(snapshots) + 1] ELSE head
SavedSnapshots ==
  IF Dirty THEN Append(snapshots, [head |-> SavedHead, mem |-> mem])
           ELSE snapshots

(* go_to_snapshot, called while HEAD is h; it leaves everything alone when *)
(* HEAD is at that state already.                                          *)
GoToSnapshot(snaps, h, k) ==
  \/ /\ h.state = snaps[k].head.state
     /\ head' = h
     /\ UNCHANGED mem
  \/ /\ h.state # snaps[k].head.state
     /\ mem' = snaps[k].mem
     /\ \E n \in 0 .. Len(customs) :
          /\ IsNextTick(n, snaps[k].head.state)
          /\ head' = [state |-> snaps[k].head.state, base |-> k, nct |-> n]

(* go_to_state up to its replay loop. *)
GoToState(snaps, h, target) ==
  /\ snapshots' = snaps
  /\ goal' = target
  /\ pc' = "replay"
  /\ \E k \in 1 .. Len(snaps) :
       /\ IsBase(snaps, k, target)
       /\ IF h.state # target /\ (k # h.base \/ target < h.state)
            THEN GoToSnapshot(snaps, h, k)
            ELSE head' = h /\ UNCHANGED mem
  /\ UNCHANGED <<customs, scan, probe, trace>>

(* One replay_step: the recorded custom tick of this step, if it has one.  *)
ReplayStep ==
  LET isCustom == /\ head.nct < Len(customs)
                  /\ customs[head.nct + 1].step = head.state
      tick == IF isCustom THEN customs[head.nct + 1].tick ELSE PlainTick
      nct  == IF isCustom THEN head.nct + 1 ELSE head.nct
  IN  /\ mem' = Apply(tick, mem)
      /\ head' = [state |-> head.state + 1, base |-> head.base, nct |-> nct]
      /\ trace' = IF head.state + 1 = Len(trace)
                    THEN Append(trace, Apply(tick, mem)) ELSE trace
      /\ UNCHANGED <<snapshots, customs>>

-----------------------------------------------------------------------------
(* new: a snapshot is made right after construction. *)
InitialHead == [state |-> 0, base |-> 1, nct |-> 0]

Init ==
  /\ mem = ResetState
  /\ snapshots = <<[head |-> InitialHead, mem |-> ResetState]>>
  /\ customs = <<>>
  /\ head = InitialHead
  /\ pc = "idle" /\ goal = 0 /\ scan = NoScan /\ call = NoCall
  /\ probe = NoProbe
  /\ trace = <<ResetState>>

(* clear_forward_history, as step and step_with call it. *)
AllSnapshots  == snapshots        \* mutant: the snapshots are not drained
AllCustoms    == customs          \* mutant: custom_ticks is not truncated
KeptSnapshots == SubSeq(snapshots, 1, head.base)
KeptCustoms   == IF Detached THEN SubSeq(customs, 1, head.nct) ELSE customs

(* The common part of step and step_with: tick, advance HEAD, and make a   *)
(* snapshot when the last one is too far back.                             *)
Advance(tick, ticks, nct) ==
  LET m    == Apply(tick, mem)
      next == [state |-> head.state + 1, base |-> head.base, nct |-> nct]
      saved == [next EXCEPT !.base = Len(KeptSnapshots) + 1]
      last == KeptSnapshots[Len(KeptSnapshots)].head.state
  IN  /\ pc = "idle"
      /\ head.state < MaxSteps
      /\ mem' = m
      /\ customs' = ticks
      /\ trace' = Append(SubSeq(trace, 1, head.state + 1), m)
      /\ IF next.state - last > SnapshotInterval
           THEN /\ head' = saved
                /\ snapshots' = Append(KeptSnapshots, [head |-> saved, mem |-> m])
           ELSE /\ head' = next
                /\ snapshots' = KeptSnapshots
      /\ UNCHANGED control

(* Mutant of Step: an ordinary tick is recorded like a custom one. *)
StepRecorded ==
  Advance(PlainTick, Append(KeptCustoms, [step |-> head.state, tick |-> PlainTick]),
          Len(KeptCustoms))

Step == Advance(PlainTick, KeptCustoms, head.nct)

(* next_custom_tick_index is assigned before the tick is pushed. *)
StepWith(c) ==
  Advance(c, Append(KeptCustoms, [step |-> head.state, tick |-> c]),
          Len(KeptCustoms))

(* clear_forward_history called from outside (the delete-future command).  *)
ClearForwardHistory ==
  /\ pc = "idle"
  /\ ClearAnywhere \/ Detached
  /\ snapshots' = SubSeq(snapshots, 1, head.base)
  /\ customs' = SubSeq(customs, 1, head.nct)
  /\ trace' = SubSeq(trace, 1, head.state + 1)
  /\ UNCHANGED <<mem, head, control>>

UndoStep ==
  /\ pc = "idle"
  /\ head.state > 0
  /\ call' = [op |-> "undo", from |-> head.state]
  /\ GoToState(SavedSnapshots, SavedHead, head.state - 1)

RedoStep ==
  /\ pc = "idle"
  /\ Detached
  /\ call' = [op |-> "redo", from |-> head.state]
  /\ GoToState(snapshots, head, head.state + 1)

(* go_to also goes beyond the end of history, by ordinary ticks. *)
GoTo(n) ==
  /\ pc = "idle"
  /\ call' = [op |-> "go_to", from |-> head.state]
  /\ GoToState(SavedSnapshots, SavedHead, n)

(* The replay loop of go_to_state, and the last one of undo_steps_until.   *)
Replay ==
  /\ pc = "replay"
  /\ head.state # goal
  /\ ReplayStep
  /\ UNCHANGED control

EndCall ==
  /\ pc' = "idle"
  /\ scan' = NoScan /\ call' = NoCall /\ probe' = NoProbe /\ goal' = 0

(* The end of either loop: the call returns, undo_steps_until after visit. *)
Return ==
  /\ pc = "replay"
  /\ head.state = goal
  /\ EndCall
  /\ UNCHANGED <<mem, snapshots, customs, head, trace>>

-----------------------------------------------------------------------------
(* undo_steps_until: segment by segment from the snapshot before the       *)
(* current state back to the first, replaying each up to where the         *)
(* previous one began, and asking pred in every state on the way.          *)
BeginScan ==
  /\ pc = "idle"
  /\ head.state > 0
  /\ snapshots' = SavedSnapshots
  /\ head' = SavedHead
  /\ pc' = "enter"
  /\ scan' = [snap  |-> IF SavedSnapshots[SavedHead.base].head.state = head.state
                          THEN SavedHead.base - 1 ELSE SavedHead.base,
              top   |-> head.state,
              match |-> NoMatch]
  /\ call' = [op |-> "undo_until", from |-> head.state]
  /\ probe' = [seen |-> {}, hits |-> {}, visited |-> head.state]
  /\ UNCHANGED <<mem, customs, goal, trace>>

(* pred is an FnMut that also looks at the command channel, so its answer  *)
(* is not a function of the machine state: it is any answer.               *)
AskPred(some) ==
  /\ scan' = [scan EXCEPT !.match = IF some THEN head'.state ELSE @]
  /\ probe' = [probe EXCEPT !.seen = @ \cup {head'.state},
                            !.hits = IF some THEN @ \cup {head'.state} ELSE @]

EnterSegment(some) ==
  /\ pc = "enter"
  /\ GoToSnapshot(snapshots, head, scan.snap)
  /\ AskPred(some)
  /\ pc' = "sweep"
  /\ UNCHANGED <<snapshots, customs, goal, call, trace>>

(* Mutant of SweepSegment: the upper bound of the sweep is included. *)
SweepInclusive(some) ==
  /\ pc = "sweep"
  /\ head.state < scan.top
  /\ ReplayStep
  /\ AskPred(some)
  /\ UNCHANGED <<pc, goal, call>>

SweepSegment(some) ==
  /\ pc = "sweep"
  /\ head.state < scan.top - 1
  /\ ReplayStep
  /\ AskPred(some)
  /\ UNCHANGED <<pc, goal, call>>

SegmentMatched ==
  /\ pc = "sweep"
  /\ head.state >= scan.top - 1
  /\ scan.match # NoMatch
  /\ IF scan.match < head.state
       THEN GoToSnapshot(snapshots, head, scan.snap)
       ELSE UNCHANGED <<head, mem>>
  /\ goal' = scan.match
  /\ pc' = "replay"
  /\ UNCHANGED <<snapshots, customs, scan, call, probe, trace>>

(* After the first segment: UndoStepStopReason::ReachedStart. *)
ReachedStart ==
  /\ scan.snap = 1
  /\ GoToSnapshot(snapshots, head, 1)
  /\ EndCall

(* Mutant of SegmentMissed: the same segment is scanned again and again.   *)
MissedSameSegment ==
  /\ pc = "sweep"
  /\ head.state >= scan.top - 1
  /\ scan.match = NoMatch
  /\ pc' = "enter"
  /\ UNCHANGED <<head, mem, goal, call, scan, probe, snapshots, customs, trace>>

SegmentMissed ==
  /\ pc = "sweep"
  /\ head.state >= scan.top - 1
  /\ scan.match = NoMatch
  /\ \/ /\ scan.snap > 1
        /\ pc' = "enter"
        /\ scan' = [snap  |-> scan.snap - 1,
                    top   |-> snapshots[scan.snap].head.state,
                    match |-> NoMatch]
        /\ probe' = [probe EXCEPT !.visited = head.state]
        /\ UNCHANGED <<head, mem, goal, call>>
     \/ ReachedStart
  /\ UNCHANGED <<snapshots, customs, trace>>

-----------------------------------------------------------------------------
Internal ==
  \/ Replay
  \/ Return
  \/ \E some \in BOOLEAN : EnterSegment(some) \/ SweepSegment(some)
  \/ SegmentMatched
  \/ SegmentMissed

Next ==
  \/ Step
  \/ \E c \in CustomTick : StepWith(c)
  \/ ClearForwardHistory
  \/ UndoStep
  \/ RedoStep
  \/ \E n \in 0 .. MaxSteps : GoTo(n)
  \/ BeginScan
  \/ Internal

Spec == Init /\ [][Next]_vars

(* A call runs on the thread that made it until it returns. *)
FairSpec == Spec /\ WF_vars(Internal)

-----------------------------------------------------------------------------
(* The snapshots are in strictly increasing order of state index, and      *)
(* HEAD's base is the last one before or on HEAD (simulator.rs:110 and     *)
(* :603).  Everything that navigates relies on it, in the middle of a      *)
(* replay as well.                                                         *)
SnapshotOrder ==
  /\ Len(snapshots) > 0
  /\ snapshots[1].head.state = 0
  /\ \A i, j \in 1 .. Len(snapshots) :
       i < j => snapshots[i].head.state < snapshots[j].head.state
  /\ IsBase(snapshots, head.base, head.state)

(* The custom tick recorded for the step out of state i, if there is one.  *)
TickOf(i, t) ==
  \/ \E k \in 1 .. Len(customs) : customs[k].step = i /\ customs[k].tick = t
  \/ /\ \A k \in 1 .. Len(customs) : customs[k].step # i
     /\ t = PlainTick

(* Time travel is exact: the state HEAD shows is the state that was there  *)
(* when this index was first reached (simulator.rs:95: "a full linear      *)
(* simulation history with undo and redo capabilities").                   *)
TimeTravel ==
  /\ head.state < Len(trace)
  /\ mem = trace[head.state + 1]

(* The recorded ticks tell how each state of history follows from the one  *)
(* before it, so any of them can be recomputed from any snapshot.          *)
Replayable ==
  \A i \in 0 .. Len(trace) - 2, t \in Tick :
    TickOf(i, t) => trace[i + 2] = Apply(t, trace[i + 1])

(* Travelling never loses history: no undo, redo, jump or scan makes fewer *)
(* states available than there were, at any point of it.  (A newest state  *)
(* that is in no snapshot must be saved before HEAD leaves it.)            *)
TravelLosesNothing ==
  [][(call # NoCall \/ call' # NoCall) => AvailableSteps' >= AvailableSteps]_vars

(* undo_steps_until ends in the most recent past state pred accepted, or   *)
(* at the start if there is none, having asked about every state it passed *)
(* (simulator.rs:330-334, :340-342).                                       *)
ScanFindsLatestMatch ==
  [][(call.op = "undo_until" /\ call'.op = "none") =>
       LET end == head'.state IN
       /\ IF probe.hits = {} THEN end = 0 ELSE end \in probe.hits
       /\ end .. call.from - 1 \subseteq probe.seen
       /\ \A i \in probe.hits : i <= end]_vars

(* pred is called at most once per state, and never in the state the call  *)
(* started from, though segments are scanned forwards and share their ends *)
(* (simulator.rs:336, :340-341); visit is called in reverse order of time  *)
(* (simulator.rs:345-349).                                                 *)
CallbacksInOrder ==
  [][/\ (pc \in {"enter", "sweep"} /\ pc' = "sweep") =>
          head'.state \notin probe.seen /\ head'.state < call.from
     /\ (call.op = "undo_until" /\ pc # "enter" /\ pc' \in {"enter", "idle"}) =>
          head.state < probe.visited]_vars

(* What undo_steps_until promises: the state it ends in, and the questions *)
(* it asks on the way (simulator.rs:330-349).                              *)
ScanContract == ScanFindsLatestMatch /\ CallbacksInOrder

(* Every call returns. *)
CallsReturn == (pc # "idle") ~> (pc = "idle")

(* The simulator implements the abstract linear history.                   *)
TL == INSTANCE Timeline WITH cursor <- head.state, view <- mem
ImplementsTimeline == TL!Spec
=============================================================================
