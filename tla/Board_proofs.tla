---------------------------- MODULE Board_proofs ----------------------------
(***************************************************************************)
(* Proofs about Board, for words of any size.                              *)
(***************************************************************************)
EXTENDS Board, TLAPS

(***************************************************************************)
(* Halves                                                                  *)
(***************************************************************************)

LEMMA Halving ==
  ASSUME NEW h \in Word, NEW l \in Word
  PROVE  /\ h * Base + l \in Wide
         /\ (h * Base + l) % Base = l
         /\ (h * Base + l) \div Base = h
BY BaseAssumption DEF Word, Wide

LEMMA SquareIsLarge == Base * Base \in Nat /\ Base * Base > 1
BY BaseAssumption

LEMMA Smaller ==
  ASSUME NEW n \in Nat, NEW m \in Nat, n < m
  PROVE  n % m = n
OBVIOUS

LEMMA WholeIsZero ==
  ASSUME NEW m \in Nat, m > 0
  PROVE  m % m = 0
OBVIOUS

LEMMA BumpFacts ==
  ASSUME NEW w \in Word
  PROVE  /\ Bump(w) \in Word
         /\ w < Base - 1 => Bump(w) = w + 1 /\ Bump(w) # 0
         /\ w = Base - 1 => Bump(w) = 0
<1>1. w < Base - 1 => Bump(w) = w + 1
  BY BaseAssumption, Smaller DEF Bump, Word
<1>2. w = Base - 1 => Bump(w) = 0
  BY BaseAssumption, WholeIsZero DEF Bump, Word
<1>3. QED
  BY <1>1, <1>2, BaseAssumption DEF Word

(* The increment with its carry is the increment of the wide number. *)
LEMMA IncrementedWide ==
  ASSUME NEW r \in Counter
  PROVE  /\ Incremented(r) \in Counter
         /\ Incremented(r).skip = r.skip
         /\ Wideness(Incremented(r)) = (Wideness(r) + 1) % (Base * Base)
<1> DEFINE l == r.lo
           h == r.hi
           s == Incremented(r)
<1>1. l \in Word /\ h \in Word /\ r.skip \in BOOLEAN
  BY DEF Counter
<1>2. /\ s.lo = Bump(l)
      /\ s.hi = (IF Bump(l) = 0 THEN Bump(h) ELSE h)
      /\ s.skip = r.skip
  <2>1. r = [lo |-> l, hi |-> h, skip |-> r.skip]
    BY DEF Counter
  <2>2. \A p, q : LET t == [r EXCEPT !.lo = p, !.hi = q] IN t.lo = p /\ t.hi = q /\ t.skip = r.skip
    BY <2>1
  <2>3. s = [r EXCEPT !.lo = Bump(l), !.hi = IF Bump(l) = 0 THEN Bump(h) ELSE h]
    BY DEF Incremented
  <2>4. QED
    BY <2>2, <2>3
<1>3. s \in Counter /\ s.skip = r.skip
  <2>1. Bump(l) \in Word /\ (IF Bump(l) = 0 THEN Bump(h) ELSE h) \in Word
    BY <1>1, BumpFacts
  <2>2. \A p, q \in Word : [r EXCEPT !.lo = p, !.hi = q] \in Counter
    BY DEF Counter
  <2>3. s = [r EXCEPT !.lo = Bump(l), !.hi = IF Bump(l) = 0 THEN Bump(h) ELSE h]
    BY DEF Incremented
  <2>4. QED
    BY <1>2, <2>1, <2>2, <2>3
<1>4. Wideness(s) = s.hi * Base + s.lo /\ Wideness(r) = h * Base + l
  BY DEF Wideness
<1>5. CASE l < Base - 1
  <2>1. s.lo = l + 1 /\ s.hi = h
    BY <1>1, <1>2, <1>5, BumpFacts
  <2>2. l + 1 \in Word
    BY <1>1, <1>5, BaseAssumption DEF Word
  <2>3. h * Base + (l + 1) \in Wide
    BY <1>1, <2>2, Halving
  <2>4. h * Base + (l + 1) = (h * Base + l) + 1
    BY <1>1, BaseAssumption DEF Word
  <2>5. ((h * Base + l) + 1) % (Base * Base) = (h * Base + l) + 1
    BY <2>3, <2>4, Smaller, SquareIsLarge DEF Wide
  <2>6. QED
    BY <1>3, <1>4, <2>1, <2>4, <2>5
<1>6. CASE l = Base - 1 /\ h < Base - 1
  <2>1. s.lo = 0 /\ s.hi = h + 1
    BY <1>1, <1>2, <1>6, BumpFacts
  <2>2. h + 1 \in Word /\ 0 \in Word
    BY <1>1, <1>6, BaseAssumption DEF Word
  <2>3. (h + 1) * Base + 0 \in Wide
    BY <2>2, Halving
  <2>4. (h + 1) * Base + 0 = (h * Base + l) + 1
    <3>1. \A p \in Nat : (p + 1) * Base = p * Base + Base
      BY BaseAssumption
    <3>2. h \in Nat /\ h * Base \in Nat /\ Base \in Nat
      BY <1>1, BaseAssumption DEF Word
    <3>3. (h + 1) * Base = h * Base + Base
      BY <3>1, <3>2
    <3>4. QED
      BY <1>6, <3>2, <3>3
  <2>5. ((h * Base + l) + 1) % (Base * Base) = (h * Base + l) + 1
    BY <2>3, <2>4, Smaller, SquareIsLarge DEF Wide
  <2>6. QED
    BY <1>3, <1>4, <2>1, <2>4, <2>5
<1>7. CASE l = Base - 1 /\ h = Base - 1
  <2>1. s.lo = 0 /\ s.hi = 0
    BY <1>1, <1>2, <1>7, BumpFacts
  <2>2. (h * Base + l) + 1 = Base * Base
    BY <1>7, BaseAssumption
  <2>3. ((h * Base + l) + 1) % (Base * Base) = 0
    BY <2>2, WholeIsZero, SquareIsLarge
  <2>4. 0 * Base + 0 = 0
    BY BaseAssumption
  <2>5. QED
    BY <1>3, <1>4, <2>1, <2>3, <2>4
<1>8. QED
  BY <1>1, <1>5, <1>6, <1>7, BaseAssumption DEF Word

(* A half that is written is replaced in the wide number. *)
LEMMA HalfWritten ==
  ASSUME NEW r \in Counter, NEW half \in Halves, NEW v \in Word,
         NEW s, s = [[r EXCEPT ![half] = v] EXCEPT !.skip = TRUE]
  PROVE  /\ s \in Counter
         /\ s.skip
         /\ Wideness(s) = Promised!WithHalf(Wideness(r), half, v)
<1>1. r.lo \in Word /\ r.hi \in Word
  BY DEF Counter
<1>2. Wideness(r) % Base = r.lo /\ Wideness(r) \div Base = r.hi
  BY <1>1, Halving DEF Wideness
<1>3. CASE half = "lo"
  <2>1. s = [lo |-> v, hi |-> r.hi, skip |-> TRUE]
    BY <1>3 DEF Counter
  <2>2. QED
    BY <1>1, <1>2, <1>3, <2>1 DEF Counter, Wideness, Promised!WithHalf
<1>4. CASE half = "hi"
  <2>1. s = [lo |-> r.lo, hi |-> v, skip |-> TRUE]
    BY <1>4 DEF Counter
  <2>2. QED
    BY <1>1, <1>2, <1>4, <2>1 DEF Counter, Wideness, Promised!WithHalf
<1>5. QED
  BY <1>3, <1>4 DEF Halves

(***************************************************************************)
(* The counters                                                            *)
(***************************************************************************)

Counts(b) == [c \in Counters |-> Wideness(b.counters[c])]
Fresh(b)  == {c \in Counters : b.counters[c].skip}

(* b and n differ in nothing but the counters. *)
CountersOnly(b, n) ==
  /\ n.inhibit = b.inhibit /\ n.mtime = b.mtime /\ n.mtimecmp = b.mtimecmp
  /\ n.line = b.line /\ n.off = b.off /\ n.ahead = b.ahead

Replace(b, c, q) == [b EXCEPT !.counters[c] = q]

LEMMA Replaced ==
  ASSUME NEW b \in Boards, NEW c \in Counters, NEW q \in Counter
  PROVE  /\ Replace(b, c, q) \in Boards
         /\ CountersOnly(b, Replace(b, c, q))
         /\ \A d \in Counters :
              Replace(b, c, q).counters[d] = IF d = c THEN q ELSE b.counters[d]
<1> DEFINE n == Replace(b, c, q)
<1>1. n = [b EXCEPT !.counters = [b.counters EXCEPT ![c] = q]]
  BY DEF Replace
<1>2. b.counters \in [Counters -> Counter]
  BY DEF Boards
<1>3. [b.counters EXCEPT ![c] = q] \in [Counters -> Counter]
  BY <1>2
<1>4. \A d \in Counters : [b.counters EXCEPT ![c] = q][d] = IF d = c THEN q ELSE b.counters[d]
  BY <1>2
<1>5. n.counters = [b.counters EXCEPT ![c] = q] /\ CountersOnly(b, n) /\ n \in Boards
  BY <1>1, <1>3 DEF Boards, CountersOnly
<1>6. QED
  BY <1>4, <1>5

LEMMA CountFacts ==
  ASSUME NEW b \in Boards, NEW c \in Counters, NEW n, n = Count(b, c)
  PROVE  /\ n \in Boards
         /\ CountersOnly(b, n)
         /\ Counts(n) = Promised!Moved(Counts(b), {c}, Fresh(b) \cup b.inhibit)
         /\ Fresh(n) = Fresh(b) \ {c}
<1> DEFINE r == b.counters[c]
           q == IF r.skip THEN [r EXCEPT !.skip = FALSE]
                ELSE IF c \in b.inhibit THEN r ELSE Incremented(r)
<1>1. n = Replace(b, c, q)
  BY DEF Count, Replace
<1>2. r \in Counter /\ r.skip \in BOOLEAN
  BY DEF Boards, Counter
<1>3. /\ q \in Counter
      /\ ~q.skip
      /\ Wideness(q) = IF r.skip \/ c \in b.inhibit THEN Wideness(r)
                       ELSE (Wideness(r) + 1) % (Base * Base)
  <2>1. CASE r.skip
    <3>1. q = [r EXCEPT !.skip = FALSE]
      BY <2>1
    <3>2. q \in Counter /\ q.skip = FALSE /\ q.lo = r.lo /\ q.hi = r.hi
      BY <1>2, <3>1 DEF Counter
    <3>3. QED
      BY <2>1, <3>2 DEF Wideness
  <2>2. CASE ~r.skip /\ c \in b.inhibit
    BY <1>2, <2>2
  <2>3. CASE ~r.skip /\ c \notin b.inhibit
    BY <1>2, <2>3, IncrementedWide
  <2>4. QED
    BY <2>1, <2>2, <2>3
<1>4. /\ n \in Boards
      /\ CountersOnly(b, n)
      /\ \A d \in Counters : n.counters[d] = IF d = c THEN q ELSE b.counters[d]
  <2> HIDE DEF q
  <2>1. QED
    BY <1>1, <1>3, Replaced
<1> HIDE DEF q
<1>5. Fresh(n) = Fresh(b) \ {c}
  BY <1>3, <1>4 DEF Fresh
<1>6. Counts(n) = Promised!Moved(Counts(b), {c}, Fresh(b) \cup b.inhibit)
  <2>1. ASSUME NEW d \in Counters
        PROVE  Wideness(n.counters[d]) =
                 IF d \in {c} \ (Fresh(b) \cup b.inhibit)
                 THEN Promised!Plus1(Counts(b)[d]) ELSE Counts(b)[d]
    <3>1. CASE d = c
      BY <1>3, <1>4, <3>1 DEF Counts, Fresh, Promised!Plus1
    <3>2. CASE d # c
      BY <1>4, <3>2 DEF Counts
    <3>3. QED
      BY <3>1, <3>2
  <2>2. QED
    BY <2>1 DEF Counts, Promised!Moved, Promised!Counters, Counters
<1>7. QED
  BY <1>4, <1>5, <1>6

(* An instruction that retires moves both counts, as they were before it. *)
LEMMA BothCounted ==
  ASSUME NEW b \in Boards, NEW n, n = Count(Count(b, "cycle"), "instret")
  PROVE  /\ n \in Boards
         /\ CountersOnly(b, n)
         /\ Counts(n) = Promised!Moved(Counts(b), Counters, Fresh(b) \cup b.inhibit)
         /\ Fresh(n) = {}
<1> DEFINE m == Count(b, "cycle")
<1>1. "cycle" \in Counters /\ "instret" \in Counters
  BY DEF Counters
<1>2. /\ m \in Boards /\ CountersOnly(b, m)
      /\ Counts(m) = Promised!Moved(Counts(b), {"cycle"}, Fresh(b) \cup b.inhibit)
      /\ Fresh(m) = Fresh(b) \ {"cycle"}
  BY <1>1, CountFacts
<1>3. /\ n \in Boards /\ CountersOnly(m, n)
      /\ Counts(n) = Promised!Moved(Counts(m), {"instret"}, Fresh(m) \cup m.inhibit)
      /\ Fresh(n) = Fresh(m) \ {"instret"}
  <2> HIDE DEF m
  <2>1. QED
    BY <1>1, <1>2, CountFacts DEF m
<1>4. CountersOnly(b, n)
  BY <1>2, <1>3 DEF CountersOnly
<1>5. Fresh(n) = {}
  BY <1>2, <1>3 DEF Fresh, Counters
<1>6. Counts(n) = Promised!Moved(Counts(b), Counters, Fresh(b) \cup b.inhibit)
  <2> DEFINE still == Fresh(b) \cup b.inhibit
             still2 == Fresh(m) \cup m.inhibit
  <2> HIDE DEF m
  <2>1. "instret" \in still2 <=> "instret" \in still
    BY <1>2 DEF CountersOnly
  <2>2. Promised!Moved(Counts(b), {"cycle"}, still) =
          [c \in Counters |-> IF c = "cycle" /\ c \notin still THEN Promised!Plus1(Counts(b)[c]) ELSE Counts(b)[c]]
    BY DEF Promised!Moved, Promised!Counters, Counters
  <2>3. Promised!Moved(Counts(m), {"instret"}, still2) =
          [c \in Counters |-> IF c = "instret" /\ c \notin still2 THEN Promised!Plus1(Counts(m)[c]) ELSE Counts(m)[c]]
    BY DEF Promised!Moved, Promised!Counters, Counters
  <2>4. Promised!Moved(Counts(b), Counters, still) =
          [c \in Counters |-> IF c \notin still THEN Promised!Plus1(Counts(b)[c]) ELSE Counts(b)[c]]
    BY DEF Promised!Moved, Promised!Counters, Counters
  <2> HIDE DEF still, still2
  <2>5. ASSUME NEW c \in Counters
        PROVE  (IF c = "instret" /\ c \notin still2 THEN Promised!Plus1(Counts(m)[c]) ELSE Counts(m)[c])
                 = IF c \notin still THEN Promised!Plus1(Counts(b)[c]) ELSE Counts(b)[c]
    <3>1. Counts(m)[c] = IF c = "cycle" /\ c \notin still THEN Promised!Plus1(Counts(b)[c]) ELSE Counts(b)[c]
      BY <1>2, <2>2 DEF still
    <3>2. CASE c = "cycle"
      BY <3>1, <3>2
    <3>3. CASE c = "instret"
      BY <2>1, <3>1, <3>3
    <3>4. QED
      BY <3>2, <3>3 DEF Counters
  <2>6. QED
    BY <1>3, <2>3, <2>4, <2>5 DEF still, still2
<1>7. QED
  BY <1>3, <1>4, <1>5, <1>6

LEMMA WriteFacts ==
  ASSUME NEW b \in Boards, NEW c \in Counters, NEW half \in Halves, NEW v \in Word,
         NEW n, n = WriteCounter(b, c, half, v)
  PROVE  /\ n \in Boards
         /\ CountersOnly(b, n)
         /\ Counts(n) = [Counts(b) EXCEPT ![c] = Promised!WithHalf(@, half, v)]
         /\ Fresh(n) = Fresh(b) \cup {c}
<1> DEFINE r == b.counters[c]
           q == [[r EXCEPT ![half] = v] EXCEPT !.skip = TRUE]
<1>1. n = Replace(b, c, q)
  BY DEF WriteCounter, Replace
<1>2. r \in Counter
  BY DEF Boards
<1>3. q \in Counter /\ q.skip /\ Wideness(q) = Promised!WithHalf(Wideness(r), half, v)
  BY <1>2, HalfWritten
<1>4. /\ n \in Boards
      /\ CountersOnly(b, n)
      /\ \A d \in Counters : n.counters[d] = IF d = c THEN q ELSE b.counters[d]
  <2> HIDE DEF q
  <2>1. QED
    BY <1>1, <1>3, Replaced
<1> HIDE DEF q
<1>5. Fresh(n) = Fresh(b) \cup {c}
  BY <1>3, <1>4 DEF Fresh
<1>6. \A d \in Counters :
        Wideness(n.counters[d]) = IF d = c THEN Promised!WithHalf(Counts(b)[d], half, v) ELSE Counts(b)[d]
  BY <1>3, <1>4 DEF Counts
<1>7. Counts(n) = [Counts(b) EXCEPT ![c] = Promised!WithHalf(@, half, v)]
  BY <1>6 DEF Counts
<1>8. QED
  BY <1>4, <1>5, <1>7

(***************************************************************************)
(* The timer                                                               *)
(***************************************************************************)

(* The inductive form of TimerLine: a comparison that fails is remembered. *)
Line(b) ==
  /\ b.line <=> b.ahead /\ NeedsInterrupt(b)
  /\ NeedsInterrupt(b) \/ b.ahead

(* Edges are enough, because the line agrees with the comparison already. *)
LEMMA UpdateFacts ==
  ASSUME NEW b \in Boards, NEW timer \in Timers, NEW w \in Wide, NEW n, n = Update(b, timer, w)
  PROVE  /\ n \in Boards
         /\ n.counters = b.counters /\ n.inhibit = b.inhibit /\ n.off = b.off
         /\ n.mtime = IF timer = "mtime" THEN w ELSE b.mtime
         /\ Line(b) => Line(n)
<1> DEFINE new == [b EXCEPT ![timer] = w]
           line == IF NeedsInterrupt(b) = NeedsInterrupt(new) THEN b.line ELSE NeedsInterrupt(new)
           ahead == b.ahead \/ ~NeedsInterrupt(new)
<1>1. /\ new \in Boards
      /\ new.counters = b.counters /\ new.inhibit = b.inhibit /\ new.off = b.off
      /\ new.line = b.line /\ new.ahead = b.ahead
      /\ new.mtime = IF timer = "mtime" THEN w ELSE b.mtime
  <2>1. CASE timer = "mtime"
    BY <2>1 DEF Boards
  <2>2. CASE timer = "mtimecmp"
    BY <2>2 DEF Boards
  <2>3. QED
    BY <2>1, <2>2 DEF Timers
<1>2. NeedsInterrupt(b) \in BOOLEAN /\ NeedsInterrupt(new) \in BOOLEAN
  BY DEF NeedsInterrupt
<1>3. b.line \in BOOLEAN /\ b.ahead \in BOOLEAN
  BY DEF Boards
<1>4. line \in BOOLEAN /\ ahead \in BOOLEAN
  BY <1>2, <1>3, Zenon
<1>5. n = [new EXCEPT !.line = line, !.ahead = ahead]
  BY <1>1 DEF Update
<1> HIDE DEF new, line, ahead
<1>6. /\ n \in Boards
      /\ n.counters = new.counters /\ n.inhibit = new.inhibit /\ n.off = new.off
      /\ n.mtime = new.mtime /\ n.mtimecmp = new.mtimecmp
      /\ n.line = line /\ n.ahead = ahead
  BY <1>1, <1>4, <1>5 DEF Boards
<1>7. NeedsInterrupt(n) = NeedsInterrupt(new)
  BY <1>6 DEF NeedsInterrupt
<1>8. ASSUME Line(b)
      PROVE  (line <=> ahead /\ NeedsInterrupt(new)) /\ (NeedsInterrupt(new) \/ ahead)
  <2>1. NeedsInterrupt(new) \/ ahead
    BY DEF ahead
  <2>2. CASE NeedsInterrupt(b) = NeedsInterrupt(new)
    <3>1. line <=> b.line
      BY <2>2 DEF line
    <3>2. NeedsInterrupt(new) => (ahead <=> b.ahead)
      BY DEF ahead
    <3>3. QED
      BY <1>8, <2>1, <2>2, <3>1, <3>2 DEF Line
  <2>3. CASE NeedsInterrupt(b) # NeedsInterrupt(new)
    <3>1. line <=> NeedsInterrupt(new)
      BY <2>3 DEF line
    <3>2. NeedsInterrupt(new) => b.ahead
      BY <1>2, <1>8, <2>3 DEF Line
    <3>3. b.ahead => ahead
      BY DEF ahead
    <3>4. QED
      BY <2>1, <3>1, <3>2, <3>3
  <2>4. QED
    BY <2>2, <2>3
<1>9. QED
  BY <1>1, <1>6, <1>7, <1>8 DEF Line

LEMMA CountingKeepsLine ==
  ASSUME NEW b, NEW n, CountersOnly(b, n)
  PROVE  Line(b) => Line(n)
BY DEF CountersOnly, Line, NeedsInterrupt

(***************************************************************************)
(* The step                                                                *)
(***************************************************************************)

Passes(b, n) ==
  \E moved \in Promised!Moves :
    /\ Counts(n) = Promised!Moved(Counts(b), moved, Fresh(b) \cup b.inhibit)
    /\ Fresh(n) = Fresh(b) \ moved
    /\ n.inhibit = b.inhibit

Writes(b, n) ==
  \E c \in Counters, half \in {"hi", "lo"}, v \in Word :
    /\ Counts(n) = Promised!Moved([Counts(b) EXCEPT ![c] = Promised!WithHalf(@, half, v)], Counters,
                                  Fresh(b) \cup b.inhibit \cup {c})
    /\ Fresh(n) = {}
    /\ n.inhibit = b.inhibit

Stops(b, n) ==
  /\ n.inhibit \in SUBSET Counters
  /\ Counts(n) = Promised!Moved(Counts(b), Counters, Fresh(b) \cup n.inhibit)
  /\ Fresh(n) = {}

(* What a store leaves of the counters *)
Stores(b, n) ==
  /\ Counts(n) = Promised!Moved(Counts(b), Counters, Fresh(b) \cup b.inhibit)
  /\ Fresh(n) = Fresh(b) \ Counters
  /\ n.inhibit = b.inhibit

(* What one instruction does, without the CLINT's step *)
Executed(b, n) ==
  /\ n \in Boards
  /\ n.mtime # b.mtime => Stores(b, n)
  /\ Line(b) => Line(n)
  /\ Passes(b, n) \/ Writes(b, n) \/ Stops(b, n)

LEMMA CountsOfParts ==
  ASSUME NEW b, NEW e, e.counters = b.counters
  PROVE  Counts(e) = Counts(b) /\ Fresh(e) = Fresh(b)
BY DEF Counts, Fresh

LEMMA Retired ==
  ASSUME NEW b \in Boards, NEW e \in Boards, Line(b) => Line(e), e.counters = b.counters, e.inhibit = b.inhibit,
         NEW n, n = Count(Count(e, "cycle"), "instret")
  PROVE  Executed(b, n)
<1>1. /\ n \in Boards /\ CountersOnly(e, n)
      /\ Counts(n) = Promised!Moved(Counts(e), Counters, Fresh(e) \cup e.inhibit)
      /\ Fresh(n) = {}
  BY BothCounted
<1>2. Counts(e) = Counts(b) /\ Fresh(e) = Fresh(b)
  BY CountsOfParts
<1>3. Counters \in Promised!Moves /\ Fresh(b) \ Counters = {}
  BY DEF Promised!Moves, Counters, Fresh
<1>4. Stores(b, n)
  BY <1>1, <1>2, <1>3 DEF Stores, CountersOnly
<1>5. Passes(b, n)
  BY <1>3, <1>4 DEF Passes, Stores
<1>6. QED
  BY <1>1, <1>4, <1>5, CountingKeepsLine DEF Executed

LEMMA StepWithFacts ==
  ASSUME NEW b \in Boards, NEW i \in Instructions, NEW n, n = StepWith(b, i)
  PROVE  Executed(b, n)
<1>0. "cycle" \in Counters /\ "instret" \in Counters
  BY DEF Counters
<1>1. CASE i.kind = "plain"
  <2>1. n = Count(Count(b, "cycle"), "instret")
    BY <1>1 DEF StepWith, Execute
  <2>2. QED
    BY <2>1, Retired
<1>2. CASE i.kind = "ecall"
  <2>1. n = Count(b, "cycle")
    BY <1>2 DEF StepWith, Execute
  <2>2. /\ n \in Boards /\ CountersOnly(b, n)
        /\ Counts(n) = Promised!Moved(Counts(b), {"cycle"}, Fresh(b) \cup b.inhibit)
        /\ Fresh(n) = Fresh(b) \ {"cycle"}
    BY <1>0, <2>1, CountFacts
  <2>3. Passes(b, n)
    BY <2>2 DEF Passes, Promised!Moves, CountersOnly
  <2>4. QED
    BY <2>2, <2>3, CountingKeepsLine DEF Executed, CountersOnly
<1>3. CASE i.kind = "power_down"
  <2> DEFINE e == [b EXCEPT !.off = TRUE]
  <2>1. n = Count(Count(e, "cycle"), "instret")
    BY <1>3 DEF StepWith, Execute
  <2>2. /\ e \in Boards /\ e.counters = b.counters /\ e.inhibit = b.inhibit
        /\ e.mtime = b.mtime /\ e.mtimecmp = b.mtimecmp /\ e.line = b.line /\ e.ahead = b.ahead
    BY DEF Boards
  <2> HIDE DEF e
  <2>3. Line(b) => Line(e)
    BY <2>2 DEF Line, NeedsInterrupt
  <2>4. QED
    BY <2>1, <2>2, <2>3, Retired
<1>4. CASE i.kind = "store"
  <2> DEFINE e == WriteHalf(b, i.timer)
  <2>1. n = Count(Count(e, "cycle"), "instret")
    BY <1>4 DEF StepWith, Execute
  <2>2. i.timer \in Timers
    BY <1>4 DEF Instructions
  <2>3. 0 \in Wide
    BY SquareIsLarge DEF Wide
  <2>4. /\ e \in Boards /\ e.counters = b.counters /\ e.inhibit = b.inhibit
        /\ (Line(b) => Line(e))
    BY <2>2, <2>3, UpdateFacts DEF WriteHalf
  <2> HIDE DEF e
  <2>5. QED
    BY <2>1, <2>4, Retired
<1>5. CASE i.kind = "inhibit"
  <2> DEFINE e == WriteInhibit(b, i.set)
  <2>1. n = Count(Count(e, "cycle"), "instret")
    BY <1>5 DEF StepWith, Execute
  <2>2. i.set \in SUBSET Counters
    BY <1>5 DEF Instructions
  <2>3. /\ e \in Boards /\ e.counters = b.counters /\ e.inhibit = i.set
        /\ e.mtime = b.mtime /\ e.mtimecmp = b.mtimecmp /\ e.line = b.line /\ e.ahead = b.ahead
    BY <2>2 DEF Boards, WriteInhibit
  <2> HIDE DEF e
  <2>4. Line(b) => Line(e)
    BY <2>3 DEF Line, NeedsInterrupt
  <2>5. /\ n \in Boards /\ CountersOnly(e, n)
        /\ Counts(n) = Promised!Moved(Counts(e), Counters, Fresh(e) \cup e.inhibit)
        /\ Fresh(n) = {}
    BY <2>1, <2>3, BothCounted
  <2>6. Counts(e) = Counts(b) /\ Fresh(e) = Fresh(b)
    BY <2>3, CountsOfParts
  <2>7. Stops(b, n)
    BY <2>2, <2>3, <2>5, <2>6 DEF Stops, CountersOnly
  <2>8. QED
    BY <2>3, <2>4, <2>5, <2>7, CountingKeepsLine DEF Executed, CountersOnly
<1>6. CASE i.kind = "counter"
  <2> DEFINE e == WriteCounter(b, i.counter, i.half, i.value)
  <2>1. n = Count(Count(e, "cycle"), "instret")
    BY <1>6 DEF StepWith, Execute
  <2>2. i.counter \in Counters /\ i.half \in Halves /\ i.value \in Word
    BY <1>6 DEF Instructions
  <2>3. /\ e \in Boards /\ CountersOnly(b, e)
        /\ Counts(e) = [Counts(b) EXCEPT ![i.counter] = Promised!WithHalf(@, i.half, i.value)]
        /\ Fresh(e) = Fresh(b) \cup {i.counter}
    BY <2>2, WriteFacts
  <2> HIDE DEF e
  <2>4. /\ n \in Boards /\ CountersOnly(e, n)
        /\ Counts(n) = Promised!Moved(Counts(e), Counters, Fresh(e) \cup e.inhibit)
        /\ Fresh(n) = {}
    BY <2>1, <2>3, BothCounted
  <2>5. CountersOnly(b, n)
    BY <2>3, <2>4 DEF CountersOnly
  <2>6. Fresh(e) \cup e.inhibit = Fresh(b) \cup b.inhibit \cup {i.counter}
    BY <2>3 DEF CountersOnly
  <2>7. Writes(b, n)
    <3>1. Counts(n) = Promised!Moved([Counts(b) EXCEPT ![i.counter] = Promised!WithHalf(@, i.half, i.value)],
                                     Counters, Fresh(b) \cup b.inhibit \cup {i.counter})
      BY <2>3, <2>4, <2>6
    <3>2. i.half \in {"hi", "lo"} /\ n.inhibit = b.inhibit
      BY <2>2, <2>5 DEF Halves, CountersOnly
    <3>3. QED
      BY <2>2, <2>4, <3>1, <3>2, Zenon DEF Writes
  <2>8. QED
    BY <2>4, <2>5, <2>7, CountingKeepsLine DEF Executed, CountersOnly
<1>7. QED
  BY <1>1, <1>2, <1>3, <1>4, <1>5, <1>6 DEF Instructions

LEMMA ClintStepFacts ==
  ASSUME NEW b \in Boards, NEW n, n = ClintStep(b)
  PROVE  /\ n \in Boards
         /\ n.counters = b.counters /\ n.inhibit = b.inhibit /\ n.off = b.off
         /\ n.mtime = Promised!Plus1(b.mtime)
         /\ Line(b) => Line(n)
<1> DEFINE w == (b.mtime + 1) % (Base * Base)
<1>1. b.mtime \in Int
  BY SquareIsLarge DEF Boards, Wide
<1>2. w \in Wide
  BY <1>1, SquareIsLarge DEF Wide
<1>3. "mtime" \in Timers
  BY DEF Timers
<1> HIDE DEF w
<1>4. n = Update(b, "mtime", w)
  BY DEF ClintStep, w
<1>5. QED
  BY <1>2, <1>3, <1>4, UpdateFacts DEF Promised!Plus1, w

(***************************************************************************)
(* The invariant                                                           *)
(***************************************************************************)

IInv == board \in Boards /\ Line(board)

LEMMA InitIInv == Init => IInv
<1> SUFFICES ASSUME Init PROVE IInv
  OBVIOUS
<1>1. 0 \in Word /\ 0 \in Wide
  BY BaseAssumption, SquareIsLarge DEF Word, Wide
<1>2. [c \in Counters |-> [lo |-> 0, hi |-> 0, skip |-> FALSE]] \in [Counters -> Counter]
  BY <1>1 DEF Counter
<1>3. board \in Boards
  BY <1>1, <1>2 DEF Init, Boards
<1>4. Line(board)
  BY <1>1 DEF Init, Line, NeedsInterrupt
<1>5. QED
  BY <1>3, <1>4 DEF IInv

(* What the debugger's writes and a reset do beside the timer *)
LEMMA PokesKeep ==
  ASSUME NEW b \in Boards, NEW n \in Boards, Line(b),
         n.mtime = b.mtime, n.mtimecmp = b.mtimecmp, n.line = b.line, n.ahead = b.ahead
  PROVE  Line(n)
BY DEF Line, NeedsInterrupt

LEMMA ResetFacts ==
  ASSUME NEW b \in Boards, NEW n,
         n = [b EXCEPT !.counters = [c \in Counters |-> [lo |-> 0, hi |-> 0, skip |-> FALSE]],
                       !.inhibit = {}]
  PROVE  /\ n \in Boards
         /\ n.inhibit = {} /\ n.off = b.off
         /\ n.mtime = b.mtime /\ n.mtimecmp = b.mtimecmp /\ n.line = b.line /\ n.ahead = b.ahead
         /\ Counts(n) = [c \in Counters |-> 0]
         /\ Fresh(n) = {}
<1> DEFINE zero == [c \in Counters |-> [lo |-> 0, hi |-> 0, skip |-> FALSE]]
<1>1. 0 \in Word
  BY BaseAssumption DEF Word
<1>2. zero \in [Counters -> Counter] /\ (\A c \in Counters : zero[c].lo = 0 /\ zero[c].hi = 0 /\ ~zero[c].skip)
  BY <1>1 DEF Counter
<1> HIDE DEF zero
<1>3. n = [b EXCEPT !.counters = zero, !.inhibit = {}]
  BY DEF zero
<1>4. /\ n \in Boards /\ n.counters = zero
      /\ n.inhibit = {} /\ n.off = b.off
      /\ n.mtime = b.mtime /\ n.mtimecmp = b.mtimecmp /\ n.line = b.line /\ n.ahead = b.ahead
  BY <1>2, <1>3 DEF Boards
<1>5. 0 * Base + 0 = 0
  BY BaseAssumption
<1>6. QED
  BY <1>2, <1>4, <1>5 DEF Counts, Fresh, Wideness

LEMMA NextIInv == IInv /\ [Next]_vars => IInv'
<1> SUFFICES ASSUME IInv, [Next]_vars PROVE IInv'
  OBVIOUS
<1>0. board \in Boards /\ Line(board)
  BY DEF IInv
<1>1. ASSUME NEW i \in Instructions, Step(i)
      PROVE  IInv'
  <2>1. Executed(board, StepWith(board, i))
    BY <1>0, StepWithFacts
  <2>2. board' = ClintStep(StepWith(board, i))
    BY <1>1 DEF Step
  <2>3. board' \in Boards /\ Line(board')
    BY <1>0, <2>1, <2>2, ClintStepFacts DEF Executed
  <2>4. QED
    BY <2>3 DEF IInv
<1>2. CASE StepInterrupted
  <2>1. board' \in Boards /\ Line(board')
    BY <1>0, <1>2, ClintStepFacts DEF StepInterrupted
  <2>2. QED
    BY <2>1 DEF IInv
<1>3. ASSUME NEW c \in Counters, NEW half \in Halves, NEW v \in Word, DebugWriteCounter(c, half, v)
      PROVE  IInv'
  <2>1. board' \in Boards /\ CountersOnly(board, board')
    BY <1>0, <1>3, WriteFacts DEF DebugWriteCounter
  <2>2. Line(board')
    BY <1>0, <2>1, CountingKeepsLine
  <2>3. QED
    BY <2>1, <2>2 DEF IInv
<1>4. ASSUME NEW S \in SUBSET Counters, DebugWriteInhibit(S)
      PROVE  IInv'
  <2>1. board' = [board EXCEPT !.inhibit = S]
    BY <1>4 DEF DebugWriteInhibit, WriteInhibit
  <2>2. /\ board' \in Boards /\ board'.mtime = board.mtime /\ board'.mtimecmp = board.mtimecmp
        /\ board'.line = board.line /\ board'.ahead = board.ahead
    BY <1>0, <2>1 DEF Boards
  <2>3. QED
    BY <1>0, <2>2, PokesKeep DEF IInv
<1>5. ASSUME NEW timer \in Timers, DebugWriteTimerHalf(timer)
      PROVE  IInv'
  <2>1. 0 \in Wide
    BY SquareIsLarge DEF Wide
  <2>2. board' \in Boards /\ Line(board')
    BY <1>0, <1>5, <2>1, UpdateFacts DEF DebugWriteTimerHalf, WriteHalf
  <2>3. QED
    BY <2>2 DEF IInv
<1>6. ASSUME NEW timer \in Timers, NEW w \in Wide, DebugWriteTimer(timer, w)
      PROVE  IInv'
  <2>1. board' \in Boards /\ Line(board')
    BY <1>0, <1>6, UpdateFacts DEF DebugWriteTimer, WriteWhole
  <2>2. QED
    BY <2>1 DEF IInv
<1>7. CASE DebugPowerDown
  <2>1. board' = [board EXCEPT !.off = TRUE]
    BY <1>7 DEF DebugPowerDown
  <2>2. /\ board' \in Boards /\ board'.mtime = board.mtime /\ board'.mtimecmp = board.mtimecmp
        /\ board'.line = board.line /\ board'.ahead = board.ahead
    BY <1>0, <2>1 DEF Boards
  <2>3. QED
    BY <1>0, <2>2, PokesKeep DEF IInv
<1>8. CASE Reset
  <2>1. /\ board' \in Boards /\ board'.mtime = board.mtime /\ board'.mtimecmp = board.mtimecmp
        /\ board'.line = board.line /\ board'.ahead = board.ahead
    BY <1>0, <1>8, ResetFacts DEF Reset
  <2>2. QED
    BY <1>0, <2>1, PokesKeep DEF IInv
<1>9. CASE UNCHANGED vars
  BY <1>9 DEF vars, IInv
<1>10. QED
  BY <1>1, <1>2, <1>3, <1>4, <1>5, <1>6, <1>7, <1>8, <1>9 DEF Next, Run

LEMMA SpecIInv == Spec => []IInv
BY InitIInv, NextIInv, PTL DEF Spec

LEMMA IInvImplies == IInv => TypeOK /\ TimerLine
BY DEF IInv, TypeOK, Line, TimerLine

(* The counters and the timer keep their widths, however they wrap         *)
(* (counters.rs, clint.rs).                                                *)
THEOREM TypeCorrect == Spec => []TypeOK
BY SpecIInv, IInvImplies, PTL

(* The timer's line says whether mtimecmp has been reached, since it was   *)
(* ahead for the first time: the edges that update looks for miss nothing. *)
THEOREM TimerLineCorrect == Spec => []TimerLine
BY SpecIInv, IInvImplies, PTL

(***************************************************************************)
(* The clocks                                                              *)
(***************************************************************************)

LEMMA InitIsInit == Init => Promised!Init
<1> SUFFICES ASSUME Init PROVE Promised!Init
  OBVIOUS
<1>1. /\ board.mtime = 0 /\ board.inhibit = {} /\ board.off = FALSE
      /\ \A c \in Counters :
           board.counters[c].lo = 0 /\ board.counters[c].hi = 0 /\ ~board.counters[c].skip
  BY DEF Init
<1>2. 0 * Base + 0 = 0
  BY BaseAssumption
<1>3. QED
  BY <1>1, <1>2 DEF Promised!Init, Wideness, Promised!Counters, Counters

(* What a step of the board does to the clocks is one of their steps. *)
LEMMA StepIsStep ==
  ASSUME ~board.off, NEW b \in Boards, b = board,
         NEW n, Passes(b, n) \/ Writes(b, n) \/ Stops(b, n),
         n.mtime # b.mtime => Stores(b, n), n \in Boards, board' = ClintStep(n)
  PROVE  Promised!Step
<1>1. /\ board' \in Boards
      /\ board'.counters = n.counters /\ board'.inhibit = n.inhibit
      /\ board'.mtime = Promised!Plus1(n.mtime)
  BY ClintStepFacts
<1>2. Counts(board') = Counts(n) /\ Fresh(board') = Fresh(n)
  BY <1>1, CountsOfParts
<1>3. board'.off \in BOOLEAN /\ board'.mtime \in Promised!Wide
  BY <1>1 DEF Boards, Wide, Promised!Wide
<1>4. CASE n.mtime = b.mtime /\ Passes(b, n)
  <2>1. PICK moved \in Promised!Moves :
          /\ Counts(n) = Promised!Moved(Counts(b), moved, Fresh(b) \cup b.inhibit)
          /\ Fresh(n) = Fresh(b) \ moved
          /\ n.inhibit = b.inhibit
    BY <1>4 DEF Passes
  <2>2. Promised!Run(moved)
    BY <1>1, <1>2, <2>1 DEF Promised!Run, Counts, Fresh
  <2>3. QED
    BY <1>1, <1>3, <1>4, <2>2 DEF Promised!Step
<1>5. CASE n.mtime = b.mtime /\ Writes(b, n)
  <2>1. PICK c \in Counters, half \in {"hi", "lo"}, v \in Word :
          /\ Counts(n) = Promised!Moved([Counts(b) EXCEPT ![c] = Promised!WithHalf(@, half, v)], Counters,
                                        Fresh(b) \cup b.inhibit \cup {c})
          /\ Fresh(n) = {}
          /\ n.inhibit = b.inhibit
    BY <1>5 DEF Writes
  <2>2. Promised!RunWrite(c, half, v)
    BY <1>1, <1>2, <2>1 DEF Promised!RunWrite, Promised!Written, Counts, Fresh, Promised!Counters, Counters
  <2>3. c \in Promised!Counters /\ v \in Promised!Half
    BY DEF Promised!Counters, Counters, Promised!Half, Word
  <2>4. QED
    BY <1>1, <1>3, <1>5, <2>2, <2>3 DEF Promised!Step
<1>6. CASE n.mtime = b.mtime /\ Stops(b, n)
  <2>1. Promised!RunStop(n.inhibit)
    BY <1>1, <1>2, <1>6 DEF Promised!RunStop, Stops, Counts, Fresh, Promised!Counters, Counters
  <2>2. n.inhibit \in SUBSET Promised!Counters
    BY <1>6 DEF Stops, Promised!Counters, Counters
  <2>3. QED
    BY <1>1, <1>3, <1>6, <2>1, <2>2 DEF Promised!Step
<1>7. CASE n.mtime # b.mtime
  <2>1. Promised!Run(Counters)
    BY <1>1, <1>2, <1>7 DEF Promised!Run, Stores, Counts, Fresh
  <2>2. Promised!RunStore
    BY <1>3, <2>1 DEF Promised!RunStore, Promised!Counters, Counters
  <2>3. QED
    BY <1>3, <2>2 DEF Promised!Step
<1>8. QED
  BY <1>4, <1>5, <1>6, <1>7

LEMMA NextIsNext == IInv /\ [Next]_vars => [Promised!Next]_(Promised!vars)
<1> SUFFICES ASSUME IInv, [Next]_vars PROVE [Promised!Next]_(Promised!vars)
  OBVIOUS
<1>0. board \in Boards /\ Line(board)
  BY DEF IInv
<1>1. ASSUME NEW i \in Instructions, Step(i)
      PROVE  Promised!Next
  <2>1. Executed(board, StepWith(board, i))
    BY <1>0, StepWithFacts
  <2>2. ~board.off /\ board' = ClintStep(StepWith(board, i))
    BY <1>1 DEF Step
  <2>3. Promised!Step
    BY <1>0, <2>1, <2>2, StepIsStep DEF Executed
  <2>4. QED
    BY <2>3 DEF Promised!Next
<1>2. CASE StepInterrupted
  <2>1. Counts(board) = Promised!Moved(Counts(board), {}, Fresh(board) \cup board.inhibit)
    BY DEF Counts, Promised!Moved, Promised!Counters, Counters
  <2>2. Passes(board, board)
    BY <2>1 DEF Passes, Promised!Moves
  <2>3. ~board.off /\ board' = ClintStep(board)
    BY <1>2 DEF StepInterrupted
  <2>4. Promised!Step
    BY <1>0, <2>2, <2>3, StepIsStep
  <2>5. QED
    BY <2>4 DEF Promised!Next
<1>3. ASSUME NEW c \in Counters, NEW half \in Halves, NEW v \in Word, DebugWriteCounter(c, half, v)
      PROVE  Promised!Next
  <2>1. /\ CountersOnly(board, board')
        /\ Counts(board') = [Counts(board) EXCEPT ![c] = Promised!WithHalf(@, half, v)]
        /\ Fresh(board') \in {Fresh(board), Fresh(board) \cup {c}}
    BY <1>0, <1>3, WriteFacts DEF DebugWriteCounter
  <2>2. half \in {"hi", "lo"} /\ c \in Promised!Counters /\ v \in Promised!Half
    BY DEF Halves, Promised!Counters, Counters, Promised!Half, Word
  <2>3. Promised!Poke
    BY <2>1, <2>2 DEF Promised!Poke, Promised!Written, Counts, Fresh, CountersOnly
  <2>4. QED
    BY <2>3 DEF Promised!Next
<1>4. ASSUME NEW S \in SUBSET Counters, DebugWriteInhibit(S)
      PROVE  Promised!Next
  <2>1. board' = [board EXCEPT !.inhibit = S]
    BY <1>4 DEF DebugWriteInhibit, WriteInhibit
  <2>2. /\ board'.inhibit = S /\ board'.counters = board.counters
        /\ board'.mtime = board.mtime /\ board'.off = board.off
    BY <1>0, <2>1 DEF Boards
  <2>3. QED
    BY <2>2 DEF Promised!Next, Promised!Poke, Promised!Counters, Counters
<1>5. ASSUME NEW timer \in Timers, NEW w \in Wide, board' = Update(board, timer, w)
      PROVE  Promised!Next
  <2>1. /\ board'.counters = board.counters /\ board'.inhibit = board.inhibit
        /\ board'.off = board.off
        /\ board'.mtime \in {w, board.mtime}
    BY <1>0, <1>5, UpdateFacts
  <2>2. board'.mtime \in Promised!Wide
    BY <1>0, <2>1 DEF Boards, Wide, Promised!Wide
  <2>3. QED
    BY <2>1, <2>2 DEF Promised!Next, Promised!Poke
<1>6. ASSUME NEW timer \in Timers, DebugWriteTimerHalf(timer)
      PROVE  Promised!Next
  <2>1. 0 \in Wide
    BY SquareIsLarge DEF Wide
  <2>2. QED
    BY <1>5, <1>6, <2>1 DEF DebugWriteTimerHalf, WriteHalf
<1>7. ASSUME NEW timer \in Timers, NEW w \in Wide, DebugWriteTimer(timer, w)
      PROVE  Promised!Next
  BY <1>5, <1>7 DEF DebugWriteTimer, WriteWhole
<1>8. CASE DebugPowerDown
  <2>1. board' = [board EXCEPT !.off = TRUE]
    BY <1>8 DEF DebugPowerDown
  <2>2. /\ board'.off = TRUE /\ board'.counters = board.counters
        /\ board'.mtime = board.mtime /\ board'.inhibit = board.inhibit
    BY <1>0, <2>1 DEF Boards
  <2>3. QED
    BY <2>2 DEF Promised!Next, Promised!Poke
<1>9. CASE Reset
  <2>1. /\ board'.inhibit = {} /\ board'.off = board.off /\ board'.mtime = board.mtime
        /\ Counts(board') = [c \in Counters |-> 0]
        /\ Fresh(board') = {}
    BY <1>0, <1>9, ResetFacts DEF Reset
  <2>2. Promised!Reset
    BY <2>1 DEF Promised!Reset, Counts, Fresh, Promised!Counters, Counters
  <2>3. QED
    BY <2>2 DEF Promised!Next
<1>10. CASE UNCHANGED vars
  BY <1>10 DEF vars, Promised!vars
<1>11. QED
  BY <1>1, <1>2, <1>3, <1>4, <1>6, <1>7, <1>8, <1>9, <1>10 DEF Next, Run

(* Every behaviour of the board is one of the clocks of Clocks: halves,    *)
(* carries and suppressed increments add up to wide counts that go up by   *)
(* one or are written (counters.rs, counter_control.rs, Core::step_with),  *)
(* beside a time that goes up by one in every step that does not store     *)
(* into it.                                                                *)
THEOREM Refinement == Spec => ImplementsClocks
BY InitIsInit, NextIsNext, SpecIInv, PTL DEF Spec, ImplementsClocks, Promised!Spec
=============================================================================
