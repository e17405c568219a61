------------------------- MODULE GdbSession_proofs -------------------------
(***************************************************************************)
(* Proofs about GdbSession, for every batch and buffer size, all commands  *)
(* and every bound on them, and any program that is                        *)
(* ProgramSoundOn(Machines).                                               *)
(*                                                                         *)
(* SessionInv is the inductive invariant.  It adds to the checked ones:    *)
(* every machine of history, not only the viewed one, has the output in    *)
(* its buffer and has heard what the states before it have heard; and a    *)
(* run that GDB waits for is in exactly one place, a command in the queue, *)
(* the mode of the thread, or an event.                                    *)
(***************************************************************************)
EXTENDS GdbSession, SequenceTheorems, WellFoundedInduction, TLAPS

-----------------------------------------------------------------------------
(* The inductive invariant *)

(* The first bytes of t are s. *)
Begins(s, t) == Len(s) <= Len(t) /\ \A i \in 1 .. Len(s) : t[i] = s[i]

MachineOK(m) ==
  /\ m \in Machines
  /\ Len(m.rx) <= RxSize
  /\ m.len # NoLen => /\ m.len = Len(m.drained)
                      /\ m.len <= BufSize => m.buf = m.drained

HistoryOK(t) ==
  /\ \A i \in 1 .. Len(t) : MachineOK(t[i])
  /\ \A i, j \in 1 .. Len(t) : i <= j => Begins(t[i].heard, t[j].heard)

ThreadOK ==
  /\ pc = "tick" => ~Detached
  /\ pc \in {"advance", "tick"} => left # 0
  /\ pc \in {"advance", "tick", "poll"} => mode # NoMode

NoResume(q)  == \A i \in 1 .. Len(q) : q[i].op \notin Resumes
OneResume(q) == \E i \in 1 .. Len(q) :
                  /\ q[i].op \in Resumes
                  /\ \A j \in 1 .. Len(q) : q[j].op \in Resumes => j = i

(* The run GDB waits for is in the queue, going on, or has been stopped.   *)
RunOnce ==
  \/ mode = NoMode /\ events = <<>> /\ OneResume(cmds)
  \/ mode # NoMode /\ events = <<>> /\ NoResume(cmds)
  \/ mode = NoMode /\ Len(events) = 1 /\ NoResume(cmds)

AloneOK ==
  "disturbed" \notin marks =>
    /\ \A i \in 1 .. Len(cmds) : cmds[i].op # "Pause"
    /\ gdb \in {"idle", "asking"} => mode = NoMode /\ events = <<>> /\ NoResume(cmds)
    /\ gdb = "running" => RunOnce

ErasesMarked == \A i \in 1 .. Len(cmds) : cmds[i].op \in Erases => "erased" \in marks

SessionInv ==
  /\ TypeOK
  /\ HistoryOK(trace)
  /\ ThreadOK
  /\ AloneOK
  /\ ErasesMarked
  /\ ConsoleExact
  /\ InputInOrder

-----------------------------------------------------------------------------
(* Sequences *)

(* What Append returns, for the channels and the history. *)
LEMMA AppendFacts ==
  ASSUME NEW S, NEW s \in Seq(S), NEW e \in S
  PROVE  /\ Append(s, e) \in Seq(S)
         /\ Len(Append(s, e)) = Len(s) + 1
         /\ \A i \in 1 .. Len(s) : Append(s, e)[i] = s[i]
         /\ Append(s, e)[Len(s) + 1] = e
  BY AppendProperties

(* What a prefix is, for the history whose future is cut. *)
LEMMA PrefixFacts ==
  ASSUME NEW S, NEW s \in Seq(S), NEW n \in 0 .. Len(s)
  PROVE  /\ SubSeq(s, 1, n) \in Seq(S)
         /\ Len(SubSeq(s, 1, n)) = n
         /\ \A i \in 1 .. n : SubSeq(s, 1, n)[i] = s[i]
<1>1. \A i \in 1 .. n : s[i] \in S
  BY LenProperties
<1>2. QED
  BY <1>1, SubSeqProperties

(* What com_with_uart reads and leaves of the channel. *)
LEMMA SplitFacts ==
  ASSUME NEW S, NEW s \in Seq(S), NEW n \in 0 .. Len(s)
  PROVE  /\ SubSeq(s, 1, n) \in Seq(S)
         /\ Len(SubSeq(s, 1, n)) = n
         /\ SubSeq(s, n + 1, Len(s)) \in Seq(S)
         /\ SubSeq(s, 1, n) \o SubSeq(s, n + 1, Len(s)) = s
<1>1. Len(s) \in Nat /\ \A i \in 1 .. Len(s) : s[i] \in S
  BY LenProperties
<1>2. SubSeq(s, n + 1, Len(s)) \in Seq(S)
  BY <1>1, SubSeqProperties
<1>3. SubSeq(s, 1, n) \o SubSeq(s, n + 1, Len(s)) = SubSeq(s, 1, Len(s))
  <2>1. 1 \in 1 .. Len(s) + 1 /\ n \in 1 - 1 .. Len(s) /\ Len(s) \in n .. Len(s)
    BY <1>1
  <2>2. QED
    BY <2>1, ConcatAdjacentSubSeq
<1>4. QED
  BY <1>2, <1>3, PrefixFacts, SubSeqFull

-----------------------------------------------------------------------------
(* Queues of commands *)

(* A command that is sent: the run GDB waits for is in the queue at most   *)
(* once.                                                                   *)
LEMMA SentCommand ==
  ASSUME NEW S, NEW q \in Seq(S), NEW c \in S
  PROVE  /\ NoResume(q) /\ c.op \notin Resumes => NoResume(Append(q, c))
         /\ NoResume(q) /\ c.op \in Resumes => OneResume(Append(q, c))
         /\ OneResume(q) /\ c.op \notin Resumes => OneResume(Append(q, c))
<1> DEFINE r == Append(q, c)
<1>1. /\ Len(q) \in Nat
      /\ Len(r) = Len(q) + 1
      /\ \A i \in 1 .. Len(q) : r[i] = q[i]
      /\ r[Len(q) + 1] = c
  BY AppendFacts, LenProperties
<1> HIDE DEF r
<1>2. ASSUME NoResume(q), c.op \notin Resumes
      PROVE  NoResume(r)
  BY <1>1, <1>2 DEF NoResume
<1>3. ASSUME NoResume(q), c.op \in Resumes
      PROVE  OneResume(r)
  <2>1. \A j \in 1 .. Len(r) : r[j].op \in Resumes => j = Len(q) + 1
    BY <1>1, <1>3 DEF NoResume
  <2>2. QED
    BY <1>1, <1>3, <2>1 DEF OneResume
<1>4. ASSUME OneResume(q), c.op \notin Resumes
      PROVE  OneResume(r)
  <2>1. PICK i \in 1 .. Len(q) :
          /\ q[i].op \in Resumes
          /\ \A j \in 1 .. Len(q) : q[j].op \in Resumes => j = i
    BY <1>4 DEF OneResume
  <2>2. \A j \in 1 .. Len(r) : r[j].op \in Resumes => j = i
    BY <1>1, <1>4, <2>1
  <2>3. i \in 1 .. Len(r) /\ r[i].op \in Resumes
    BY <1>1, <2>1
  <2>4. QED
    BY <2>2, <2>3 DEF OneResume
<1>5. QED
  BY <1>2, <1>3, <1>4 DEF r

(* A command that is received.                                             *)
LEMMA ReceivedCommand ==
  ASSUME NEW S, NEW q \in Seq(S), q # <<>>
  PROVE  /\ NoResume(q) => Head(q).op \notin Resumes /\ NoResume(Tail(q))
         /\ OneResume(q) /\ Head(q).op \in Resumes => NoResume(Tail(q))
         /\ OneResume(q) /\ Head(q).op \notin Resumes => OneResume(Tail(q))
<1> DEFINE r == Tail(q)
           h == Head(q)
<1>1. /\ Len(q) \in Nat \ {0}
      /\ Len(r) = Len(q) - 1
      /\ \A i \in 1 .. Len(r) : r[i] = q[i + 1]
      /\ h = q[1]
  BY HeadTailProperties, LenProperties, EmptySeq
<1> HIDE DEF r, h
<1>2. ASSUME NoResume(q)
      PROVE  h.op \notin Resumes /\ NoResume(r)
  BY <1>1, <1>2 DEF NoResume
<1>3. ASSUME OneResume(q), h.op \in Resumes
      PROVE  NoResume(r)
  <2>1. \A j \in 1 .. Len(q) : q[j].op \in Resumes => j = 1
    BY <1>1, <1>3 DEF OneResume
  <2>2. QED
    BY <1>1, <2>1 DEF NoResume
<1>4. ASSUME OneResume(q), h.op \notin Resumes
      PROVE  OneResume(r)
  <2>1. PICK i \in 1 .. Len(q) :
          /\ q[i].op \in Resumes
          /\ \A j \in 1 .. Len(q) : q[j].op \in Resumes => j = i
    BY <1>4 DEF OneResume
  <2>2. i # 1
    BY <1>1, <1>4, <2>1
  <2>3. i - 1 \in 1 .. Len(r) /\ r[i - 1].op \in Resumes
    BY <1>1, <2>1, <2>2
  <2>4. \A j \in 1 .. Len(r) : r[j].op \in Resumes => j = i - 1
    BY <1>1, <2>1, SMTT(30)
  <2>5. QED
    BY <2>3, <2>4 DEF OneResume
<1>5. QED
  BY <1>2, <1>3, <1>4 DEF r, h

-----------------------------------------------------------------------------
(* Bytes on their way *)

(* Nothing is lost in what arrives whole. *)
LEMMA WholeIsSubsequence ==
  ASSUME NEW S, NEW s \in Seq(S)
  PROVE  IsSubsequence(s, s)
<1> DEFINE f == [i \in 1 .. Len(s) |-> i]
<1>1. f \in [1 .. Len(s) -> 1 .. Len(s)]
  OBVIOUS
<1>2. Len(s) \in Nat
  BY LenProperties
<1>3. /\ \A i, j \in 1 .. Len(s) : i < j => f[i] < f[j]
      /\ \A i \in 1 .. Len(s) : s[i] = s[f[i]]
  BY <1>2
<1>4. QED
  BY <1>1, <1>3 DEF IsSubsequence

(* A byte is typed: it is the last one on both sides. *)
LEMMA TypedByte ==
  ASSUME NEW S, NEW s \in Seq(S), NEW t \in Seq(S), NEW b \in S, IsSubsequence(s, t)
  PROVE  IsSubsequence(Append(s, b), Append(t, b))
<1>1. PICK f \in [1 .. Len(s) -> 1 .. Len(t)] :
        /\ \A i, j \in 1 .. Len(s) : i < j => f[i] < f[j]
        /\ \A i \in 1 .. Len(s) : s[i] = t[f[i]]
  BY DEF IsSubsequence
<1> DEFINE g == [i \in 1 .. Len(s) + 1 |-> IF i <= Len(s) THEN f[i] ELSE Len(t) + 1]
           s1 == Append(s, b)
           t1 == Append(t, b)
<1>2. /\ Len(s) \in Nat /\ Len(t) \in Nat
      /\ Len(s1) = Len(s) + 1 /\ Len(t1) = Len(t) + 1
      /\ \A i \in 1 .. Len(s) : s1[i] = s[i]
      /\ \A i \in 1 .. Len(t) : t1[i] = t[i]
      /\ s1[Len(s) + 1] = b /\ t1[Len(t) + 1] = b
  BY AppendFacts, LenProperties
<1> HIDE DEF s1, t1
<1>3. \A i \in 1 .. Len(s) : g[i] = f[i] /\ f[i] \in 1 .. Len(t)
  BY <1>1, <1>2
<1>4. g[Len(s) + 1] = Len(t) + 1
  BY <1>2
<1>5. g \in [1 .. Len(s1) -> 1 .. Len(t1)]
  BY <1>2, <1>3
<1> HIDE DEF g
<1>6. \A i, j \in 1 .. Len(s1) : i < j => g[i] < g[j]
  <2>1. SUFFICES ASSUME NEW i \in 1 .. Len(s1), NEW j \in 1 .. Len(s1), i < j
                 PROVE  g[i] < g[j]
    OBVIOUS
  <2>2. i \in 1 .. Len(s)
    BY <1>2, <2>1
  <2>3. CASE j = Len(s) + 1
    BY <1>2, <1>3, <1>4, <2>2, <2>3
  <2>4. CASE j # Len(s) + 1
    <3>1. j \in 1 .. Len(s)
      BY <1>2, <2>4
    <3>2. f[i] < f[j]
      BY <1>1, <2>1, <2>2, <3>1
    <3>3. QED
      BY <1>3, <2>2, <3>1, <3>2
  <2>5. QED
    BY <2>3, <2>4
<1>7. \A i \in 1 .. Len(s1) : s1[i] = t1[g[i]]
  <2>1. SUFFICES ASSUME NEW i \in 1 .. Len(s1)
                 PROVE  s1[i] = t1[g[i]]
    OBVIOUS
  <2>2. CASE i = Len(s) + 1
    BY <1>2, <1>4, <2>2
  <2>3. CASE i # Len(s) + 1
    <3>1. i \in 1 .. Len(s)
      BY <1>2, <2>3
    <3>2. s[i] = t[f[i]]
      BY <1>1, <3>1
    <3>3. QED
      BY <1>2, <1>3, <3>1, <3>2
  <2>4. QED
    BY <2>2, <2>3
<1>8. QED
  BY <1>5, <1>6, <1>7 DEF IsSubsequence, s1, t1

(* History is cut: a middle part of what was typed is gone. *)
LEMMA CutBytes ==
  ASSUME NEW S, NEW h \in Seq(S), NEW k \in Seq(S), NEW u \in Seq(S), NEW t \in Seq(S),
         Begins(k, h), IsSubsequence(h \o u, t)
  PROVE  IsSubsequence(k \o u, t)
<1> DEFINE s == h \o u
           r == k \o u
           d == Len(h) - Len(k)
<1>1. PICK f \in [1 .. Len(s) -> 1 .. Len(t)] :
        /\ \A i, j \in 1 .. Len(s) : i < j => f[i] < f[j]
        /\ \A i \in 1 .. Len(s) : s[i] = t[f[i]]
  BY DEF IsSubsequence
<1>2. /\ Len(h) \in Nat /\ Len(k) \in Nat /\ Len(u) \in Nat /\ d \in Nat
      /\ Len(s) = Len(h) + Len(u)
      /\ \A i \in 1 .. Len(s) : s[i] = IF i <= Len(h) THEN h[i] ELSE u[i - Len(h)]
      /\ Len(r) = Len(k) + Len(u)
      /\ \A i \in 1 .. Len(r) : r[i] = IF i <= Len(k) THEN k[i] ELSE u[i - Len(k)]
  BY ConcatProperties, LenProperties DEF Begins
<1> DEFINE at(i) == IF i <= Len(k) THEN i ELSE i + d
           g == [i \in 1 .. Len(r) |-> f[at(i)]]
<1> HIDE DEF s, r
<1>3. \A i \in 1 .. Len(r) : at(i) \in 1 .. Len(s) /\ r[i] = s[at(i)]
  <2>1. SUFFICES ASSUME NEW i \in 1 .. Len(r)
                 PROVE  at(i) \in 1 .. Len(s) /\ r[i] = s[at(i)]
    OBVIOUS
  <2>2. CASE i <= Len(k)
    <3>1. h[i] = k[i] /\ i <= Len(h) /\ at(i) = i
      BY <1>2, <2>2 DEF Begins
    <3>2. QED
      BY <1>2, <2>2, <3>1
  <2>3. CASE i > Len(k)
    <3>1. at(i) = i + d /\ i + d > Len(h) /\ i + d \in 1 .. Len(s) /\ (i + d) - Len(h) = i - Len(k)
      BY <1>2, <2>3
    <3>2. s[i + d] = u[(i + d) - Len(h)]
      <4>1. ~ (i + d <= Len(h))
        BY <1>2, <3>1
      <4>2. QED
        BY <1>2, <3>1, <4>1
    <3>3. r[i] = u[i - Len(k)]
      BY <1>2, <2>3
    <3>4. QED
      BY <3>1, <3>2, <3>3 DEF at
  <2>4. QED
    BY <1>2, <2>2, <2>3
<1>4. \A i, j \in 1 .. Len(r) : i < j => at(i) < at(j)
  BY <1>2
<1> HIDE DEF at
<1>5. g \in [1 .. Len(r) -> 1 .. Len(t)]
  BY <1>3
<1>6. \A i, j \in 1 .. Len(r) : i < j => g[i] < g[j]
  BY <1>1, <1>3, <1>4
<1>7. \A i \in 1 .. Len(r) : r[i] = t[g[i]]
  BY <1>1, <1>3
<1>8. QED
  BY <1>5, <1>6, <1>7 DEF IsSubsequence, r

-----------------------------------------------------------------------------
(* Machines *)

(* What the fields of a machine are. *)
LEMMA MachineTypes ==
  ASSUME NEW m \in Machines
  PROVE  /\ m.pc \in Pc
         /\ m.rx \in Seq(Byte) /\ m.tx \in Seq(Byte) /\ m.buf \in Seq(Byte)
         /\ m.heard \in Seq(Byte) /\ m.drained \in Seq(Byte)
         /\ m.len \in Nat \cup {NoLen}
         /\ Len(m.rx) \in Nat /\ Len(m.tx) \in Nat /\ Len(m.drained) \in Nat
<1>1. /\ m.pc \in Pc
      /\ m.rx \in Seq(Byte) /\ m.tx \in Seq(Byte) /\ m.buf \in Seq(Byte)
      /\ m.heard \in Seq(Byte) /\ m.drained \in Seq(Byte)
      /\ m.len \in Nat \cup {NoLen}
  BY DEF Machines
<1>2. QED
  BY <1>1, LenProperties

(* A sequence begins with itself, and what it begins with, that begins.    *)
LEMMA BeginsOrder ==
  /\ \A s \in Seq(Byte) : Begins(s, s)
  /\ \A s, t, u \in Seq(Byte) : Begins(s, t) /\ Begins(t, u) => Begins(s, u)
<1>1. \A s \in Seq(Byte) : Len(s) \in Nat
  BY LenProperties
<1>2. QED
  BY <1>1 DEF Begins

(* The machines the history starts with. *)
LEMMA BootOK == MachineOK(Boot) /\ MachineOK(AddBuffer(Boot))
<1>1. <<>> \in Seq(Byte) /\ Len(<<>>) = 0
  BY EmptySeq
<1>2. BootPc \in Pc /\ RxSize \in Nat
  BY SimTargetAssumption
<1>3. Boot \in Machines
  BY <1>1, <1>2 DEF Boot, Machines
<1>4. AddBuffer(Boot) \in Machines
  BY <1>1, <1>2 DEF Boot, AddBuffer, Machines
<1>5. QED
  BY <1>1, <1>2, <1>3, <1>4 DEF Boot, AddBuffer, MachineOK

(* The program takes its step. *)
LEMMA PlainOK ==
  ASSUME ProgramSoundOn(Machines), NEW m, MachineOK(m)
  PROVE  MachineOK(ApplyTick(Plain, m)) /\ Begins(m.heard, ApplyTick(Plain, m).heard)
<1>1. ApplyTick(Plain, m) = Exec(m)
  BY DEF ApplyTick, Plain
<1>2. m \in Machines /\ Len(m.rx) <= RxSize /\ RxSize \in Nat
  BY SimTargetAssumption DEF MachineOK
<1> DEFINE n == Exec(m)
<1>3. /\ n \in Machines
      /\ n.buf = m.buf /\ n.len = m.len /\ n.heard = m.heard /\ n.drained = m.drained
      /\ Len(n.rx) <= Len(m.rx)
  BY <1>2 DEF ProgramSoundOn
<1> HIDE DEF n
<1>4. Len(n.rx) \in Nat /\ Len(m.rx) \in Nat /\ m.heard \in Seq(Byte)
  BY <1>2, <1>3, MachineTypes
<1>5. MachineOK(n)
  BY <1>2, <1>3, <1>4 DEF MachineOK
<1>6. Begins(m.heard, n.heard)
  BY <1>3, <1>4, BeginsOrder
<1>7. QED
  BY <1>1, <1>5, <1>6 DEF n

(* Output goes to the end of the buffer, and the length stays that of all  *)
(* output; input goes to the program.                                      *)
LEMMA UartOK ==
  ASSUME NEW m, MachineOK(m), NEW input \in Seq(Byte), Len(input) <= RxSize - Len(m.rx)
  PROVE  LET n == ApplyTick([op |-> "uart", arg |-> input], m) IN
         /\ MachineOK(n)
         /\ n.heard = m.heard \o input
         /\ Begins(m.heard, n.heard)
<1> DEFINE fits == m.len # NoLen /\ m.len + Len(m.tx) <= BufSize
           rx   == m.rx \o input
           out  == m.drained \o m.tx
           in   == m.heard \o input
           len  == IF m.len = NoLen THEN m.len ELSE m.len + Len(m.tx)
           buf  == IF fits THEN m.buf \o m.tx ELSE m.buf
           n    == [m EXCEPT !.rx = rx, !.tx = <<>>, !.heard = in, !.drained = out,
                             !.len = len, !.buf = buf]
<1>1. ApplyTick([op |-> "uart", arg |-> input], m) = n
  BY DEF ApplyTick, PushAndRead
<1>2. m \in Machines /\ Len(m.rx) <= RxSize /\ RxSize \in Nat /\ BufSize \in Nat
  BY SimTargetAssumption DEF MachineOK
<1>3. /\ m.pc \in Pc
      /\ m.rx \in Seq(Byte) /\ m.tx \in Seq(Byte) /\ m.buf \in Seq(Byte)
      /\ m.heard \in Seq(Byte) /\ m.drained \in Seq(Byte)
      /\ m.len \in Nat \cup {NoLen}
      /\ Len(m.rx) \in Nat /\ Len(m.tx) \in Nat /\ Len(m.drained) \in Nat
      /\ Len(input) \in Nat /\ Len(m.heard) \in Nat
  BY <1>2, MachineTypes, LenProperties
<1>4. rx \in Seq(Byte) /\ Len(rx) = Len(m.rx) + Len(input)
  BY <1>3, ConcatProperties
<1>5. out \in Seq(Byte) /\ Len(out) = Len(m.drained) + Len(m.tx)
  BY <1>3, ConcatProperties
<1>6. /\ in \in Seq(Byte) /\ Len(in) = Len(m.heard) + Len(input)
      /\ \A i \in 1 .. Len(m.heard) : in[i] = m.heard[i]
  BY <1>3, ConcatProperties
<1>7. buf \in Seq(Byte)
  BY <1>3, ConcatProperties
<1>8. len \in Nat \cup {NoLen}
  BY <1>3 DEF NoLen
<1>9. /\ n.rx = rx /\ n.tx = <<>> /\ n.heard = in /\ n.drained = out
      /\ n.len = len /\ n.buf = buf
  BY <1>2 DEF Machines
<1>10. n \in Machines
  <2>1. <<>> \in Seq(Byte)
    BY EmptySeq
  <2> HIDE DEF rx, out, in, len, buf
  <2>2. QED
    BY <1>2, <1>4, <1>5, <1>6, <1>7, <1>8, <2>1 DEF Machines
<1>11. ASSUME len # NoLen
       PROVE  len = Len(out) /\ (len <= BufSize => buf = out)
  <2>1. m.len # NoLen /\ m.len \in Nat /\ len = m.len + Len(m.tx)
    BY <1>3, <1>11
  <2>2. m.len = Len(m.drained) /\ (m.len <= BufSize => m.buf = m.drained)
    BY <2>1 DEF MachineOK
  <2>3. ASSUME len <= BufSize
        PROVE  buf = out
    <3>1. fits /\ m.len <= BufSize
      BY <1>2, <1>3, <2>1, <2>3
    <3>2. QED
      BY <2>2, <3>1
  <2>4. QED
    BY <1>5, <2>1, <2>2, <2>3
<1> HIDE DEF n, rx, out, in, len, buf
<1>12. MachineOK(n)
  BY <1>2, <1>3, <1>4, <1>9, <1>10, <1>11 DEF MachineOK
<1>13. Begins(m.heard, in)
  BY <1>3, <1>6 DEF Begins
<1>14. QED
  BY <1>1, <1>9, <1>12, <1>13 DEF n, in

(* The debugger writes registers or memory, or reads a CSR. *)
LEMMA EditOK ==
  ASSUME NEW m, MachineOK(m)
  PROVE  /\ \A p \in Pc : LET n == ApplyTick([op |-> "write", arg |-> p], m) IN
              MachineOK(n) /\ Begins(m.heard, n.heard)
         /\ LET n == ApplyTick([op |-> "inspect", arg |-> <<>>], m) IN
              MachineOK(n) /\ Begins(m.heard, n.heard)
<1>1. m \in Machines /\ m.heard \in Seq(Byte)
  BY MachineTypes DEF MachineOK
<1>2. Begins(m.heard, m.heard)
  BY <1>1, BeginsOrder
<1>3. ASSUME NEW p \in Pc
      PROVE  LET n == ApplyTick([op |-> "write", arg |-> p], m) IN
               MachineOK(n) /\ Begins(m.heard, n.heard)
  <2> DEFINE n == [m EXCEPT !.pc = p]
  <2>1. ApplyTick([op |-> "write", arg |-> p], m) = n
    BY DEF ApplyTick
  <2>2. /\ n \in Machines
        /\ n.rx = m.rx /\ n.buf = m.buf /\ n.len = m.len
        /\ n.heard = m.heard /\ n.drained = m.drained
    BY <1>1 DEF Machines
  <2> HIDE DEF n
  <2>3. MachineOK(n)
    BY <2>2 DEF MachineOK
  <2>4. QED
    BY <1>2, <2>1, <2>2, <2>3
<1>4. ApplyTick([op |-> "inspect", arg |-> <<>>], m) = m
  BY DEF ApplyTick
<1>5. QED
  BY <1>2, <1>3, <1>4

-----------------------------------------------------------------------------
(* Histories *)

(* History is cut after a state. *)
LEMMA CutHistory ==
  ASSUME NEW t \in Seq(Machines), HistoryOK(t), NEW n \in 0 .. Len(t)
  PROVE  HistoryOK(SubSeq(t, 1, n))
<1>1. /\ Len(t) \in Nat
      /\ Len(SubSeq(t, 1, n)) = n
      /\ \A i \in 1 .. n : SubSeq(t, 1, n)[i] = t[i]
  BY PrefixFacts, LenProperties
<1>2. QED
  BY <1>1 DEF HistoryOK

(* A state follows another one, whose future is cut. *)
LEMMA AddHistory ==
  ASSUME NEW t \in Seq(Machines), HistoryOK(t), NEW n \in 1 .. Len(t),
         NEW m, MachineOK(m), Begins(t[n].heard, m.heard)
  PROVE  LET u == Append(SubSeq(t, 1, n), m) IN
         /\ u \in Seq(Machines) /\ Len(u) = n + 1
         /\ \A i \in 1 .. n : u[i] = t[i]
         /\ u[n + 1] = m
         /\ HistoryOK(u)
<1> DEFINE u == Append(SubSeq(t, 1, n), m)
<1>1. /\ Len(t) \in Nat /\ n \in 0 .. Len(t)
      /\ m \in Machines
  BY LenProperties DEF MachineOK
<1>2. /\ SubSeq(t, 1, n) \in Seq(Machines)
      /\ Len(SubSeq(t, 1, n)) = n
      /\ \A i \in 1 .. n : SubSeq(t, 1, n)[i] = t[i]
  BY <1>1, PrefixFacts
<1>3. /\ u \in Seq(Machines) /\ Len(u) = n + 1
      /\ \A i \in 1 .. n : u[i] = t[i]
      /\ u[n + 1] = m
  BY <1>1, <1>2, AppendFacts
<1> HIDE DEF u
<1>4. \A i \in 1 .. n : t[i].heard \in Seq(Byte)
  BY <1>1, MachineTypes DEF HistoryOK, MachineOK
<1>5. m.heard \in Seq(Byte) /\ t[n].heard \in Seq(Byte)
  BY <1>1, <1>4, MachineTypes
<1>6. \A i \in 1 .. Len(u) : MachineOK(u[i])
  BY <1>1, <1>3 DEF HistoryOK
<1>7. ASSUME NEW i \in 1 .. Len(u), NEW j \in 1 .. Len(u), i <= j
      PROVE  Begins(u[i].heard, u[j].heard)
  <2>1. CASE j <= n
    BY <1>1, <1>3, <1>7, <2>1 DEF HistoryOK
  <2>2. CASE j = n + 1 /\ i <= n
    <3>1. Begins(t[i].heard, t[n].heard)
      BY <1>1, <1>3, <2>2 DEF HistoryOK
    <3>2. i \in 1 .. n
      BY <1>1, <1>3, <2>2
    <3>3. Begins(t[i].heard, m.heard)
      BY <1>4, <1>5, <3>1, <3>2, BeginsOrder
    <3>4. QED
      BY <1>3, <2>2, <3>2, <3>3
  <2>3. CASE j = n + 1 /\ i = n + 1
    BY <1>3, <1>5, <2>3, BeginsOrder
  <2>4. QED
    BY <1>1, <1>3, <2>1, <2>2, <2>3
<1>8. HistoryOK(u)
  BY <1>6, <1>7 DEF HistoryOK
<1>9. QED
  BY <1>3, <1>8 DEF u

-----------------------------------------------------------------------------
(* How history moves *)

(* The state looked at is a machine of history. *)
LEMMA ViewOK ==
  ASSUME TypeOK, HistoryOK(trace)
  PROVE  /\ Len(trace) \in Nat /\ cursor \in Nat
         /\ cursor + 1 \in 1 .. Len(trace)
         /\ MachineOK(View) /\ View \in Machines
<1>1. Len(trace) \in Nat /\ cursor \in Nat /\ cursor + 1 \in 1 .. Len(trace)
  BY LenProperties DEF TypeOK
<1>2. QED
  BY <1>1 DEF View, HistoryOK, MachineOK

(* A step replaces what came after the cursor. *)
LEMMA Advances ==
  ASSUME TypeOK, HistoryOK(trace), NEW t, StepWith(t),
         MachineOK(ApplyTick(t, View)), Begins(View.heard, ApplyTick(t, View).heard)
  PROVE  /\ trace' \in Seq(Machines) /\ Len(trace') = cursor + 2 /\ HistoryOK(trace')
         /\ \A i \in 1 .. cursor + 1 : trace'[i] = trace[i]
         /\ trace'[Len(trace')] = ApplyTick(t, View)
         /\ cursor' = cursor + 1 /\ View' = ApplyTick(t, View)
<1> DEFINE m == ApplyTick(t, View)
           n == cursor + 1
<1>1. /\ trace' = Append(SubSeq(trace, 1, n), m)
      /\ cursor' = cursor + 1
  BY DEF StepWith, TL!Advance, View
<1>2. n \in 1 .. Len(trace) /\ trace \in Seq(Machines) /\ cursor \in Nat /\ View = trace[n]
  BY ViewOK DEF TypeOK, View
<1> HIDE DEF m, n
<1>3. /\ trace' \in Seq(Machines) /\ Len(trace') = n + 1
      /\ \A i \in 1 .. n : trace'[i] = trace[i]
      /\ trace'[n + 1] = m
      /\ HistoryOK(trace')
  BY <1>1, <1>2, AddHistory DEF m
<1>4. n + 1 = cursor + 2 /\ cursor' + 1 = n + 1
  BY <1>1, <1>2 DEF n
<1>5. View' = trace'[cursor' + 1]
  BY DEF View
<1>6. QED
  BY <1>1, <1>3, <1>4, <1>5 DEF m, n

(* Travelling moves the cursor only. *)
LEMMA Travels ==
  ASSUME NEW n, GoTo(n)
  PROVE  trace' = trace /\ cursor' = n /\ cursor' \in 0 .. Len(trace) - 1
  BY DEF GoTo, TL!Travel

(* Forgetting the future cuts history after the cursor. *)
LEMMA Forgets ==
  ASSUME TypeOK, HistoryOK(trace), TL!ForgetFuture
  PROVE  /\ trace' \in Seq(Machines) /\ Len(trace') = cursor + 1 /\ HistoryOK(trace')
         /\ \A i \in 1 .. cursor + 1 : trace'[i] = trace[i]
         /\ cursor' = cursor
<1>1. trace' = SubSeq(trace, 1, cursor + 1) /\ cursor' = cursor
  BY DEF TL!ForgetFuture
<1>2. cursor + 1 \in 0 .. Len(trace) /\ trace \in Seq(Machines)
  BY ViewOK DEF TypeOK
<1>3. QED
  BY <1>1, <1>2, PrefixFacts, CutHistory

(* What com_with_uart takes of the channel: the free space of the FIFO, or *)
(* all there is.                                                           *)
Space == IF Len(uart) <= RxSize - Len(View.rx) THEN Len(uart) ELSE RxSize - Len(View.rx)
Input == SubSeq(uart, 1, Space)

LEMMA InputFits ==
  ASSUME TypeOK, HistoryOK(trace)
  PROVE  /\ Space \in 0 .. Len(uart)
         /\ Input \in Seq(Byte) /\ Len(Input) <= RxSize - Len(View.rx)
         /\ SubSeq(uart, Space + 1, Len(uart)) \in Seq(Byte)
         /\ Input \o SubSeq(uart, Space + 1, Len(uart)) = uart
         /\ View.rx \in Seq(Byte)
<1>1. /\ uart \in Seq(Byte) /\ Len(uart) \in Nat
      /\ View.rx \in Seq(Byte) /\ Len(View.rx) \in Nat
      /\ Len(View.rx) <= RxSize /\ RxSize \in Nat
  BY ViewOK, MachineTypes, LenProperties, SimTargetAssumption DEF TypeOK, MachineOK
<1>2. Space \in 0 .. Len(uart) /\ Space <= RxSize - Len(View.rx)
  <2> DEFINE free == RxSize - Len(View.rx)
  <2>1. free \in Nat
    BY <1>1
  <2>2. Space = IF Len(uart) <= free THEN Len(uart) ELSE free
    BY DEF Space
  <2> HIDE DEF free
  <2>3. Space \in 0 .. Len(uart) /\ Space <= free
    BY <1>1, <2>1, <2>2
  <2>4. QED
    BY <2>3 DEF free
<1>3. QED
  BY <1>1, <1>2, SplitFacts DEF Input

(* com_with_uart, in a state that is the last one. *)
LEMMA UartStep ==
  ASSUME TypeOK, HistoryOK(trace), ComWithUart
  PROVE  /\ uart' = SubSeq(uart, Space + 1, Len(uart))
         /\ \/ Input = <<>> /\ UNCHANGED <<trace, cursor>>
            \/ /\ trace' \in Seq(Machines) /\ Len(trace') = cursor + 2 /\ HistoryOK(trace')
               /\ \A i \in 1 .. cursor + 1 : trace'[i] = trace[i]
               /\ trace'[Len(trace')].heard = View.heard \o Input
               /\ cursor' = cursor + 1
<1>1. /\ uart' = SubSeq(uart, Space + 1, Len(uart))
      /\ IF Input # <<>> \/ View.tx # <<>>
           THEN StepWith([op |-> "uart", arg |-> Input])
           ELSE UNCHANGED <<trace, cursor>>
  BY DEF ComWithUart, Space, Input
<1>2. CASE Input # <<>> \/ View.tx # <<>>
  <2> DEFINE t == [op |-> "uart", arg |-> Input]
  <2>1. StepWith(t)
    BY <1>1, <1>2
  <2>2. MachineOK(View) /\ Input \in Seq(Byte) /\ Len(Input) <= RxSize - Len(View.rx)
    BY ViewOK, InputFits
  <2>3. /\ MachineOK(ApplyTick(t, View))
        /\ ApplyTick(t, View).heard = View.heard \o Input
        /\ Begins(View.heard, ApplyTick(t, View).heard)
    BY <2>2, UartOK
  <2> HIDE DEF t
  <2>4. QED
    BY <1>1, <2>1, <2>3, Advances
<1>3. CASE ~ (Input # <<>> \/ View.tx # <<>>)
  BY <1>1, <1>3
<1>4. QED
  BY <1>2, <1>3

(* History keeps its beginning. *)
Keeps == Len(trace) <= Len(trace') /\ \A i \in 1 .. Len(trace) : trace'[i] = trace[i]

(* What the command at the head of the queue does to history. *)
LEMMA ReceiveHistory ==
  ASSUME GdbSessionAssumption, TypeOK, HistoryOK(trace), Receive
  PROVE  /\ trace' \in Seq(Machines) /\ HistoryOK(trace') /\ cursor' \in 0 .. Len(trace') - 1
         /\ Head(cmds).op \in Erases =>
              /\ Len(trace') >= cursor + 1
              /\ trace'[Len(trace')].heard = View.heard
              /\ \A i \in 1 .. cursor + 1 : trace'[i] = trace[i]
         /\ Head(cmds).op = "ReadCsr" => View' = View
         /\ Head(cmds).op \notin Erases => trace' = trace
<1> DEFINE c == Head(cmds)
<1>1. /\ c \in Commands /\ Execute(c)
      /\ pc \in {"await", "poll"} /\ cmds # <<>> /\ cmds' = Tail(cmds)
  BY HeadTailProperties DEF Receive, Execute, TypeOK
<1>2. c.op \in Writes => c.arg \in Pc
  <2>1. CASE c \in GdbCommands \cup UserCommands
    BY <2>1 DEF GdbSessionAssumption, CommandOK
  <2>2. CASE c = [op |-> "Pause", arg |-> <<>>]
    BY <2>2 DEF Writes
  <2>3. QED
    BY <1>1, <2>1, <2>2 DEF Commands
<1> HIDE DEF c
<1>3. /\ trace \in Seq(Machines) /\ cursor \in Nat /\ Len(trace) \in Nat
      /\ cursor \in 0 .. Len(trace) - 1 /\ MachineOK(View)
      /\ View.heard \in Seq(Byte)
  BY ViewOK, MachineTypes DEF TypeOK
<1>4. CASE c.op \in Writes \cup {"ReadCsr"}
  <2> DEFINE t == IF c.op = "ReadCsr" THEN [op |-> "inspect", arg |-> <<>>]
                                      ELSE [op |-> "write", arg |-> c.arg]
  <2>1. StepWith(t) /\ c.op \in Erases
    BY <1>1, <1>4 DEF Execute, Erases, Edits, Writes
  <2>2. /\ MachineOK(ApplyTick(t, View)) /\ Begins(View.heard, ApplyTick(t, View).heard)
        /\ ApplyTick(t, View).heard = View.heard
        /\ c.op = "ReadCsr" => ApplyTick(t, View) = View
    <3>1. MachineOK(ApplyTick(t, View)) /\ Begins(View.heard, ApplyTick(t, View).heard)
      BY <1>2, <1>3, <1>4, EditOK
    <3>2. ApplyTick(t, View).heard = View.heard
      BY <1>3, <1>4 DEF ApplyTick, MachineOK, Machines
    <3>3. c.op = "ReadCsr" => ApplyTick(t, View) = View
      BY DEF ApplyTick
    <3>4. QED
      BY <3>1, <3>2, <3>3
  <2> HIDE DEF t
  <2>3. QED
    BY <1>3, <2>1, <2>2, Advances DEF c
<1>5. CASE c.op = "DeleteFuture"
  <2>1. TL!ForgetFuture /\ c.op \in Erases
    BY <1>1, <1>5 DEF Execute, Erases, Edits, Writes
  <2>2. View = trace[cursor + 1]
    BY DEF View
  <2>3. c.op # "ReadCsr"
    BY <1>5
  <2>4. /\ trace' \in Seq(Machines) /\ HistoryOK(trace') /\ cursor' \in 0 .. Len(trace') - 1
        /\ Len(trace') >= cursor + 1
        /\ trace'[Len(trace')].heard = View.heard
        /\ \A i \in 1 .. cursor + 1 : trace'[i] = trace[i]
    BY <1>3, <2>1, <2>2, Forgets
  <2>5. QED
    BY <2>1, <2>3, <2>4 DEF c
<1>6. CASE c.op \notin Erases
  <2>1. \/ UNCHANGED <<trace, cursor>>
        \/ GoTo(c.arg)
    BY <1>1, <1>6 DEF Execute, Erases, Edits, Writes
  <2>2. c.op # "ReadCsr"
    BY <1>6 DEF Erases
  <2>3. /\ trace' \in Seq(Machines) /\ HistoryOK(trace') /\ cursor' \in 0 .. Len(trace') - 1
        /\ trace' = trace
    BY <1>3, <2>1, Travels
  <2>4. QED
    BY <1>6, <2>2, <2>3 DEF c
<1>7. QED
  BY <1>4, <1>5, <1>6 DEF Erases, Edits

-----------------------------------------------------------------------------
(* What the thread does at the end of a step *)

Reports == {"DoneStep", "PoweredDown", "Break", "ReachedStart"}

(* It reports a stop and waits for commands, or goes on as it was.         *)
Stopped ==
  /\ mode' = NoMode /\ pc' = "top" /\ left' = left
  /\ \E e \in Reports : events' = Append(events, e)
GoesOn ==
  /\ mode' = mode /\ events' = events
  /\ pc' \in {"advance", "tick", "poll"} /\ left' \in 0 .. Batch
  /\ pc' \in {"advance", "tick"} => left' # 0

LEMMA StopStops ==
  ASSUME NEW e \in Reports, Stop(e)
  PROVE  Stopped
  BY DEF Stop, Stopped

(* A step ends in one or the other, and never goes on from a breakpoint. *)
LEMMA StepEnds ==
  ASSUME TypeOK, ThreadOK, pc \in {"advance", "tick"}, NEW m, AfterStep(m)
  PROVE  /\ Stopped \/ (GoesOn /\ pc' # "tick")
         /\ m.pc \in breaks => Stopped
<1>1. left \in 1 .. Batch /\ Batch \in Nat
  BY SimTargetAssumption DEF TypeOK, ThreadOK
<1>2. \/ Stop("Break") \/ Stop("PoweredDown") \/ Stop("DoneStep")
      \/ /\ m.pc \notin breaks
         /\ left' = left - 1
         /\ pc' = IF left = 1 THEN "poll" ELSE "advance"
         /\ UNCHANGED <<mode, events>>
  BY Zenon DEF AfterStep
<1>3. m.pc \in breaks => Stop("Break")
  BY DEF AfterStep
<1>4. {"DoneStep", "PoweredDown", "Break"} \subseteq Reports
  BY DEF Reports
<1>5. \A e \in {"DoneStep", "PoweredDown", "Break"} : Stop(e) => Stopped
  BY <1>4, StopStops
<1>6. ASSUME /\ left' = left - 1
             /\ pc' = IF left = 1 THEN "poll" ELSE "advance"
             /\ UNCHANGED <<mode, events>>
      PROVE  GoesOn /\ pc' # "tick"
  BY <1>1, <1>6 DEF GoesOn
<1>7. QED
  BY <1>2, <1>3, <1>5, <1>6

(* The steps of a run, whatever the mode: what they do to the thread, and  *)
(* what they leave alone.                                                  *)
Running == Redo \/ ComWithUart \/ Tick \/ StepBack
             \/ \E i \in 0 .. cursor : ReverseContinue({i} \ {cursor})

LEMMA RunSteps ==
  ASSUME TypeOK, ThreadOK, Running
  PROVE  /\ pc \in {"advance", "tick"} /\ mode # NoMode
         /\ Stopped \/ GoesOn
         /\ pc' = "tick" => ComWithUart
         /\ UNCHANGED <<cmds, replies, breaks, range, shared, typed>>
         /\ ~ComWithUart => UNCHANGED uart
<1>1. CASE Redo
  <2>1. pc = "advance" /\ AfterStep(trace[cursor + 2]) /\ Keep
    BY <1>1 DEF Redo, Forward
  <2>2. QED
    BY <2>1, StepEnds DEF Keep, ThreadOK, Stopped
<1>2. CASE ComWithUart
  <2>1. pc = "advance" /\ pc' = "tick" /\ mode # NoMode /\ left # 0
    BY <1>2 DEF ComWithUart, Forward, NoMode, ThreadOK
  <2>2. GoesOn
    BY <1>2, <2>1 DEF ComWithUart, GoesOn, TypeOK
  <2>3. QED
    BY <1>2, <2>1, <2>2 DEF ComWithUart
<1>3. CASE Tick
  <2>1. pc = "tick" /\ AfterStep(ApplyTick(Plain, View)) /\ Keep
    BY <1>3 DEF Tick
  <2>2. QED
    BY <2>1, StepEnds DEF Keep, ThreadOK, Stopped
<1>4. CASE StepBack
  <2>1. /\ pc = "advance" /\ Keep
        /\ Stop("ReachedStart") \/ AfterStep(trace[cursor])
    BY <1>4 DEF StepBack
  <2>2. Stopped \/ (GoesOn /\ pc' # "tick")
    BY <2>1, StepEnds, StopStops DEF Reports
  <2>3. QED
    BY <2>1, <2>2 DEF Keep, ThreadOK, Stopped
<1>5. CASE \E i \in 0 .. cursor : ReverseContinue({i} \ {cursor})
  <2>1. PICK i \in 0 .. cursor : ReverseContinue({i} \ {cursor})
    BY <1>5
  <2>2. /\ pc = "advance" /\ Keep
        /\ \/ Stop("ReachedStart") \/ Stop("Break")
           \/ pc' = "poll" /\ UNCHANGED <<mode, events, left>>
    BY <2>1 DEF ReverseContinue
  <2>3. Stopped \/ (GoesOn /\ pc' # "tick")
    <3>1. ASSUME pc' = "poll", UNCHANGED <<mode, events, left>>
          PROVE  GoesOn /\ pc' # "tick"
      BY <3>1 DEF GoesOn, TypeOK
    <3>2. QED
      BY <2>2, <3>1, StopStops DEF Reports
  <2>4. QED
    BY <2>2, <2>3 DEF Keep, ThreadOK, Stopped
<1>6. QED
  BY <1>1, <1>2, <1>3, <1>4, <1>5 DEF Running

(* What a run does to history. *)
LEMMA RunHistory ==
  ASSUME ProgramSoundOn(Machines), TypeOK, HistoryOK(trace), ThreadOK, Running
  PROVE  /\ trace' \in Seq(Machines) /\ HistoryOK(trace') /\ cursor' \in 0 .. Len(trace') - 1
         /\ Keeps
         /\ ComWithUart => cursor' + 1 = Len(trace')
         /\ trace'[Len(trace')].heard \o uart' = trace[Len(trace)].heard \o uart
<1>1. /\ trace \in Seq(Machines) /\ cursor \in Nat /\ Len(trace) \in Nat
      /\ cursor \in 0 .. Len(trace) - 1 /\ MachineOK(View) /\ View = trace[cursor + 1]
      /\ View.heard \in Seq(Byte)
  BY ViewOK, MachineTypes DEF TypeOK, View
<1>2. ASSUME NEW n, GoTo(n), ~ComWithUart
      PROVE  /\ trace' \in Seq(Machines) /\ HistoryOK(trace') /\ cursor' \in 0 .. Len(trace') - 1
             /\ Keeps
             /\ trace'[Len(trace')].heard \o uart' = trace[Len(trace)].heard \o uart
  <2>1. uart' = uart
    BY <1>2, RunSteps
  <2>2. trace' = trace /\ cursor' \in 0 .. Len(trace) - 1
    BY <1>2, Travels
  <2>3. Keeps
    BY <1>1, <2>2 DEF Keeps
  <2>4. QED
    BY <1>1, <2>1, <2>2, <2>3
<1>3. CASE ComWithUart
  <2>1. cursor + 1 = Len(trace)
    BY <1>1, <1>3 DEF ComWithUart, Detached
  <2>2. /\ Input \in Seq(Byte) /\ uart' \in Seq(Byte)
        /\ Input \o uart' = uart
    BY <1>3, InputFits, UartStep
  <2>3. CASE Input = <<>> /\ UNCHANGED <<trace, cursor>>
    <3>1. uart' = uart
      BY <2>2, <2>3, ConcatEmptySeq
    <3>2. QED
      BY <1>1, <2>1, <2>3, <3>1 DEF Keeps
  <2>4. CASE /\ trace' \in Seq(Machines) /\ Len(trace') = cursor + 2 /\ HistoryOK(trace')
             /\ \A i \in 1 .. cursor + 1 : trace'[i] = trace[i]
             /\ trace'[Len(trace')].heard = View.heard \o Input
             /\ cursor' = cursor + 1
    <3>1. (View.heard \o Input) \o uart' = View.heard \o (Input \o uart')
      <4>1. \A s, t, u \in Seq(Byte) : (s \o t) \o u = s \o (t \o u)
        BY ConcatAssociative
      <4>2. QED
        BY <1>1, <2>2, <4>1, Zenon
    <3>2. trace'[Len(trace')].heard \o uart' = trace[Len(trace)].heard \o uart
      BY <1>1, <2>1, <2>2, <2>4, <3>1
    <3>3. Keeps
      BY <1>1, <2>1, <2>4 DEF Keeps
    <3>4. cursor' \in 0 .. Len(trace') - 1 /\ cursor' + 1 = Len(trace')
      BY <1>1, <2>4
    <3>5. QED
      BY <2>4, <3>2, <3>3, <3>4
  <2>5. QED
    BY <1>3, <2>3, <2>4, UartStep
<1>4. CASE Tick
  <2>1. StepWith(Plain) /\ cursor + 1 = Len(trace) /\ pc = "tick"
    BY <1>1, <1>4 DEF Tick, ThreadOK, Detached
  <2>2. MachineOK(ApplyTick(Plain, View)) /\ Begins(View.heard, ApplyTick(Plain, View).heard)
    BY <1>1, PlainOK
  <2>3. ApplyTick(Plain, View).heard = View.heard
    BY <1>1 DEF ApplyTick, Plain, ProgramSoundOn, MachineOK
  <2>4. ~ComWithUart
    BY <2>1 DEF ComWithUart, Forward
  <2>5. uart' = uart
    BY <2>4, RunSteps
  <2>6. /\ trace' \in Seq(Machines) /\ Len(trace') = cursor + 2 /\ HistoryOK(trace')
        /\ \A i \in 1 .. cursor + 1 : trace'[i] = trace[i]
        /\ trace'[Len(trace')] = ApplyTick(Plain, View)
        /\ cursor' = cursor + 1
    BY <2>1, <2>2, Advances
  <2>7. trace'[Len(trace')].heard \o uart' = trace[Len(trace)].heard \o uart
    BY <1>1, <2>1, <2>3, <2>5, <2>6
  <2>8. Keeps
    BY <1>1, <2>1, <2>6 DEF Keeps
  <2>9. cursor' \in 0 .. Len(trace') - 1
    BY <1>1, <2>6
  <2>10. QED
    BY <2>4, <2>6, <2>7, <2>8, <2>9
<1>5. CASE ~ComWithUart /\ Redo
  BY <1>2, <1>5 DEF Redo
<1>6. CASE ~ComWithUart /\ StepBack
  <2>1. CASE UNCHANGED <<trace, cursor>>
    BY <1>1, <1>6, <2>1, RunSteps DEF Keeps
  <2>2. CASE GoTo(cursor - 1)
    BY <1>2, <1>6, <2>2
  <2>3. QED
    BY <1>6, <2>1, <2>2 DEF StepBack
<1>7. CASE ~ComWithUart /\ \E i \in 0 .. cursor : ReverseContinue({i} \ {cursor})
  BY <1>2, <1>7 DEF ReverseContinue
<1>8. QED
  BY <1>3, <1>4, <1>5, <1>6, <1>7 DEF Running

-----------------------------------------------------------------------------
(* The steps of a session *)

Alike == UNCHANGED <<gdb, sent, marks>>

(* A client sends a command, GDB or the user. *)
Sending(c) ==
  /\ SendOne(c)
  /\ marks \subseteq marks' /\ marks' \subseteq marks \cup {"disturbed", "erased"}
  /\ c.op \in Erases => "erased" \in marks'
  /\ gdb' \in {gdb, "running", "asking"}
  /\ "disturbed" \notin marks' =>
       /\ c.op # "Pause"
       /\ \/ c.op \in Resumes /\ gdb = "idle" /\ gdb' = "running"
          \/ c.op \notin Resumes /\ gdb = "idle" /\ gdb' = "asking"
          \/ c.op \notin Resumes /\ gdb' = gdb

Typing == \E b \in Byte : Type(b) /\ Alike

LEMMA SendingCases ==
  ASSUME GdbSessionAssumption
  PROVE  /\ \A c \in GdbCommands : Resume(c) \/ Ask(c) \/ Tell(c) => Sending(c)
         /\ CtrlC => Sending([op |-> "Pause", arg |-> <<>>])
         /\ User => Typing \/ \E c \in UserCommands : Sending(c)
<1>1. \A c, ops : /\ Mark("erased", ops, c) \subseteq {"erased"}
                  /\ c.op \in ops => "erased" \in Mark("erased", ops, c)
                  /\ Mark("disturbed", ops, c) \subseteq {"disturbed"}
                  /\ c.op \in ops => "disturbed" \in Mark("disturbed", ops, c)
  BY DEF Mark
<1>2. Resumes \cap Erases = {} /\ Resumes \cap Asks = {} /\ "Pause" \notin Erases
  BY DEF Resumes, Erases, Edits, Asks, Reads, Writes
<1>3. \A c \in GdbCommands : c.op # "Pause"
  BY DEF GdbSessionAssumption
<1>4. ASSUME NEW c \in GdbCommands, Resume(c) \/ Ask(c) \/ Tell(c)
      PROVE  Sending(c)
  <2>1. CASE Resume(c)
    BY <1>2, <1>3, <2>1 DEF Resume, Sending
  <2>2. CASE Ask(c)
    BY <1>1, <1>2, <1>3, <2>2 DEF Ask, Sending
  <2>3. CASE Tell(c)
    BY <1>1, <1>3, <2>3 DEF Tell, Sending
  <2>4. QED
    BY <1>4, <2>1, <2>2, <2>3
<1>5. ASSUME CtrlC
      PROVE  Sending([op |-> "Pause", arg |-> <<>>])
  BY <1>2, <1>5 DEF CtrlC, Sending
<1>6. ASSUME User
      PROVE  Typing \/ \E c \in UserCommands : Sending(c)
  <2>1. CASE \E b \in Byte \ {Zero} : Type(b) /\ UNCHANGED <<sent, marks>>
    BY <1>6, <2>1 DEF User, Typing, Alike
  <2>2. CASE \E c \in UserCommands :
               /\ SendOne(c)
               /\ marks' = marks \cup Mark("erased", Erases, c)
                            \cup Mark("disturbed", Resumes \cup {"Pause"}, c)
    <3>1. PICK c \in UserCommands :
               /\ SendOne(c)
               /\ marks' = marks \cup Mark("erased", Erases, c)
                            \cup Mark("disturbed", Resumes \cup {"Pause"}, c)
      BY <2>2
    <3>2. Sending(c)
      BY <1>1, <1>6, <3>1 DEF User, Sending
    <3>3. QED
      BY <3>2
  <2>3. QED
    BY <1>6, <2>1, <2>2 DEF User
<1>7. QED
  BY <1>4, <1>5, <1>6

(* Every step is one of the thread, of a client, or of the server. *)
LEMMA SessionSteps ==
  ASSUME GdbSessionAssumption, [GdbNext]_gvars
  PROVE  \/ Running /\ Alike
         \/ WriteToSharedState /\ Alike
         \/ Receive /\ Alike
         \/ NothingToDo /\ Alike
         \/ \E c \in Commands : Sending(c)
         \/ Typing
         \/ Answer \/ ReportStop \/ TargetGone
         \/ UNCHANGED gvars
<1>1. CASE Thread /\ UNCHANGED <<gdb, sent, marks>>
  BY <1>1 DEF Thread, Running, Alike
<1>2. CASE \E c \in GdbCommands : Resume(c) \/ Ask(c) \/ Tell(c)
  BY <1>2, SendingCases DEF Commands
<1>3. CASE CtrlC
  BY <1>3, SendingCases DEF Commands
<1>4. CASE GdbServer
  BY <1>4 DEF GdbServer
<1>5. CASE User
  BY <1>5, SendingCases DEF Commands
<1>6. QED
  BY <1>1, <1>2, <1>3, <1>4, <1>5 DEF GdbNext

(* Commands and bytes, clients and servers leave the machines alone; so do *)
(* the thread's looks at the queue.                                        *)
LEMMA QuietSteps ==
  ASSUME \/ WriteToSharedState \/ NothingToDo \/ Typing \/ Answer \/ ReportStop \/ TargetGone
         \/ \E c \in Commands : Sending(c)
         \/ UNCHANGED gvars
  PROVE  UNCHANGED <<trace, cursor, breaks, mode, range>>
  BY DEF WriteToSharedState, NothingToDo, Typing, Answer, ReportStop, TargetGone, Sending,
         SendOne, Send, Type, gvars, vars, channels, control

-----------------------------------------------------------------------------
(* The invariant is inductive *)

LEMMA HistoryStep ==
  ASSUME GdbSessionAssumption, ProgramSoundOn(Machines), TypeOK, HistoryOK(trace), ThreadOK,
         [GdbNext]_gvars
  PROVE  trace' \in Seq(Machines) /\ HistoryOK(trace') /\ cursor' \in 0 .. Len(trace') - 1
<1>1. trace \in Seq(Machines) /\ cursor \in 0 .. Len(trace) - 1
  BY DEF TypeOK
<1>2. CASE UNCHANGED <<trace, cursor>>
  BY <1>1, <1>2
<1>3. CASE Running
  BY <1>3, RunHistory
<1>4. CASE Receive
  BY <1>4, ReceiveHistory
<1>5. QED
  BY <1>2, <1>3, <1>4, SessionSteps, QuietSteps

LEMMA ThreadStep ==
  ASSUME GdbSessionAssumption, ProgramSoundOn(Machines), TypeOK, HistoryOK(trace), ThreadOK,
         [GdbNext]_gvars
  PROVE  ThreadOK'
<1>1. CASE UNCHANGED <<trace, cursor, mode, pc, left>>
  BY <1>1 DEF ThreadOK, Detached
<1>2. CASE Running
  <2>1. pc' = "tick" => cursor' + 1 = Len(trace')
    BY <1>2, RunSteps, RunHistory
  <2>2. Len(trace') \in Nat
    BY <1>2, RunHistory, LenProperties
  <2>3. pc' = "tick" => ~Detached'
    BY <2>1, <2>2 DEF Detached
  <2>4. pc' \in {"advance", "tick"} => left' # 0
    BY <1>2, RunSteps DEF Stopped, GoesOn
  <2>5. pc' \in {"advance", "tick", "poll"} => mode' # NoMode
    BY <1>2, RunSteps DEF Stopped, GoesOn
  <2>6. QED
    BY <2>3, <2>4, <2>5 DEF ThreadOK
<1>3. CASE WriteToSharedState
  <2>1. Batch \in Nat \ {0}
    BY SimTargetAssumption
  <2>2. /\ mode' = mode
        /\ pc' = IF mode = NoMode THEN "await" ELSE "advance"
        /\ left' = IF mode \in {"Continue", "RangeStep"} THEN Batch ELSE 1
    BY <1>3 DEF WriteToSharedState
  <2>3. QED
    BY <2>1, <2>2 DEF ThreadOK
<1>4. CASE Receive
  BY <1>4 DEF Receive, Execute, ThreadOK
<1>5. CASE NothingToDo
  BY <1>5 DEF NothingToDo, ThreadOK
<1>6. CASE Typing \/ Answer \/ ReportStop \/ TargetGone \/ (\E c \in Commands : Sending(c))
             \/ UNCHANGED gvars
  BY <1>1, <1>6 DEF Typing, Answer, ReportStop, TargetGone, Sending, SendOne, Send, Type,
                    gvars, vars, control
<1>7. QED
  BY <1>2, <1>3, <1>4, <1>5, <1>6, SessionSteps

Kinds == Reports \cup {"Pause"}

(* The channels and the server's side. *)
ChannelTypes ==
  /\ cmds \in Seq(Commands) /\ events \in Seq(Kinds)
  /\ uart \in Seq(Byte) /\ typed \in Seq(Byte) /\ replies \in Seq(Asks)
  /\ gdb \in {"idle", "running", "asking", "failed"}
  /\ sent \in 0 .. MaxCommands
  /\ marks \subseteq {"disturbed", "erased"}

(* The thread's own state. *)
ThreadTypes ==
  /\ breaks \subseteq Pc /\ range \subseteq Pc
  /\ mode \in Resumes \cup {NoMode}
  /\ pc \in {"top", "await", "advance", "tick", "poll", "exited"}
  /\ left \in 0 .. Batch
  /\ shared \in [mode : Resumes \cup {NoMode}, cursor : Nat, total : Nat, out : Seq(Byte)]

LEMMA TypeParts ==
  TypeOK <=> /\ trace \in Seq(Machines) /\ cursor \in 0 .. Len(trace) - 1
             /\ ChannelTypes /\ ThreadTypes
<1>1. Kinds = {"DoneStep", "PoweredDown", "Break", "ReachedStart", "Pause"}
  BY DEF Kinds, Reports
<1>2. QED
  BY <1>1 DEF TypeOK, ChannelTypes, ThreadTypes

LEMMA ChannelStep ==
  ASSUME GdbSessionAssumption, TypeOK, HistoryOK(trace), ThreadOK, [GdbNext]_gvars
  PROVE  ChannelTypes'
<1>1. ChannelTypes
  BY TypeParts
<1>2. CASE Running /\ Alike
  <2>1. uart' \in Seq(Byte)
    BY <1>1, <1>2, RunSteps, InputFits, UartStep DEF ChannelTypes
  <2>2. events' \in Seq(Kinds)
    <3>1. CASE \E e \in Reports : events' = Append(events, e)
      <4>1. PICK e \in Reports : events' = Append(events, e)
        BY <3>1
      <4>2. e \in Kinds
        BY DEF Kinds
      <4>3. QED
        BY <1>1, <4>1, <4>2, AppendFacts DEF ChannelTypes
    <3>2. QED
      BY <1>1, <1>2, <3>1, RunSteps DEF Stopped, GoesOn, ChannelTypes
  <2>3. QED
    BY <1>1, <1>2, <2>1, <2>2, RunSteps DEF ChannelTypes, Alike
<1>3. CASE Receive /\ Alike
  <2> DEFINE c == Head(cmds)
  <2>1. cmds # <<>> /\ cmds' = Tail(cmds)
    BY <1>3 DEF Receive, Execute
  <2>2. cmds' \in Seq(Commands)
    BY <1>1, <2>1, HeadTailProperties DEF ChannelTypes
  <2>3. events' \in Seq(Kinds)
    <3>1. "Pause" \in Kinds
      BY DEF Kinds
    <3>2. events' = events \/ events' = Append(events, "Pause")
      BY <1>3 DEF Receive, Execute
    <3>3. events \in Seq(Kinds)
      BY <1>1 DEF ChannelTypes
    <3>4. Append(events, "Pause") \in Seq(Kinds)
      BY <3>1, <3>3, AppendFacts
    <3>5. QED
      BY <3>2, <3>3, <3>4
  <2>4. replies' \in Seq(Asks)
    <3>1. replies' = IF c.op \in Asks THEN Append(replies, c.op) ELSE replies
      BY <1>3 DEF Receive, Execute, Reply
    <3>2. QED
      BY <1>1, <3>1, AppendFacts DEF ChannelTypes
  <2>5. UNCHANGED <<uart, typed, gdb, sent, marks>>
    BY <1>3 DEF Receive, Execute, Alike
  <2>6. QED
    BY <1>1, <2>2, <2>3, <2>4, <2>5 DEF ChannelTypes
<1>4. CASE \E c \in Commands : Sending(c)
  <2>1. PICK c \in Commands : Sending(c)
    BY <1>4
  <2>2. /\ cmds' = Append(cmds, c) /\ UNCHANGED <<events, uart, typed, replies>>
        /\ sent < MaxCommands /\ sent' = sent + 1
    BY <2>1 DEF Sending, SendOne, Send
  <2>3. cmds' \in Seq(Commands)
    BY <1>1, <2>1, <2>2, AppendFacts DEF ChannelTypes
  <2>4. sent' \in 0 .. MaxCommands
    BY <1>1, <2>2 DEF ChannelTypes, GdbSessionAssumption
  <2>5. gdb' \in {"idle", "running", "asking", "failed"} /\ marks' \subseteq {"disturbed", "erased"}
    BY <1>1, <2>1 DEF ChannelTypes, Sending
  <2>6. QED
    BY <1>1, <2>2, <2>3, <2>4, <2>5 DEF ChannelTypes
<1>5. CASE Typing
  <2>1. PICK b \in Byte : Type(b) /\ Alike
    BY <1>5 DEF Typing
  <2>2. uart' = Append(uart, b) /\ typed' = Append(typed, b)
    BY <2>1 DEF Type
  <2>3. uart' \in Seq(Byte) /\ typed' \in Seq(Byte)
    BY <1>1, <2>2, AppendFacts DEF ChannelTypes
  <2>4. QED
    BY <1>1, <2>1, <2>3 DEF Type, Alike, ChannelTypes
<1>6. CASE Answer
  BY <1>1, <1>6, HeadTailProperties DEF Answer, ChannelTypes
<1>7. CASE ReportStop
  BY <1>1, <1>7, HeadTailProperties DEF ReportStop, ChannelTypes
<1>8. CASE TargetGone
  BY <1>1, <1>8 DEF TargetGone, ChannelTypes, vars, channels
<1>9. CASE (WriteToSharedState \/ NothingToDo) /\ Alike
  BY <1>1, <1>9 DEF WriteToSharedState, NothingToDo, Alike, channels, ChannelTypes
<1>10. CASE UNCHANGED gvars
  BY <1>1, <1>10 DEF gvars, vars, channels, ChannelTypes
<1>11. QED
  BY <1>2, <1>3, <1>4, <1>5, <1>6, <1>7, <1>8, <1>9, <1>10, SessionSteps

(* What the user interface shows is made of bytes. *)
LEMMA OutputBytes ==
  ASSUME NEW m \in Machines, View = m, NEW old \in Seq(Byte)
  PROVE  ReadUartOutput(old) \in Seq(Byte)
<1>1. m.buf \in Seq(Byte) /\ m.len \in Nat \cup {NoLen} /\ <<>> \in Seq(Byte)
  BY MachineTypes, EmptySeq
<1>2. BufSize \in Nat /\ Zero \in Byte
  BY SimTargetAssumption
<1>3. CASE m.len \in Nat /\ m.len > BufSize
  <2>1. \A i \in 1 .. Len(old) : old[i] \in Byte
    BY LenProperties
  <2>2. \A i \in 1 .. m.len : (IF i <= Len(old) THEN old[i] ELSE Zero) \in Byte
    BY <1>2, <1>3, <2>1, LenProperties
  <2>3. Resize(old, m.len) \in Seq(Byte)
    BY <1>3, <2>2, IsASeq DEF Resize
  <2>4. ReadUartOutput(old) = Resize(old, m.len)
    BY <1>2, <1>3 DEF ReadUartOutput, NoLen
  <2>5. QED
    BY <2>3, <2>4
<1>4. CASE m.len = NoLen
  BY <1>1, <1>2, <1>4 DEF ReadUartOutput, NoLen
<1>5. CASE m.len \in 0 .. BufSize
  BY <1>1, <1>2, <1>5 DEF ReadUartOutput, NoLen
<1>6. QED
  BY <1>1, <1>2, <1>3, <1>4, <1>5

LEMMA ThreadTypeStep ==
  ASSUME GdbSessionAssumption, TypeOK, HistoryOK(trace), ThreadOK, [GdbNext]_gvars
  PROVE  ThreadTypes'
<1>1. ThreadTypes /\ cmds \in Seq(Commands)
  BY TypeParts DEF ChannelTypes
<1>2. CASE Running /\ Alike
  BY <1>1, <1>2, RunSteps DEF Stopped, GoesOn, ThreadTypes
<1>3. CASE Receive
  <2> DEFINE c == Head(cmds)
  <2>1. c \in Commands /\ Execute(c)
    BY <1>1, <1>3, HeadTailProperties DEF Receive
  <2>2. CommandOK(c)
    <3>1. CommandOK([op |-> "Pause", arg |-> <<>>])
      BY DEF CommandOK, Writes
    <3>2. QED
      BY <2>1, <3>1 DEF Commands, GdbSessionAssumption
  <2> HIDE DEF c
  <2>3. breaks' \subseteq Pc
    <3>1. \/ c.op = "AddBreakpoint" /\ breaks' = breaks \cup {c.arg}
          \/ breaks' \subseteq breaks
      BY <2>1 DEF Execute
    <3>2. QED
      BY <1>1, <2>2, <3>1 DEF CommandOK, ThreadTypes
  <2>4. range' \subseteq Pc
    BY <1>1, <2>1, <2>2 DEF Execute, CommandOK, ThreadTypes
  <2>5. mode' \in Resumes \cup {NoMode}
    BY <1>1, <2>1 DEF Execute, ThreadTypes
  <2>6. pc' \in {"top", "exited"} /\ UNCHANGED <<left, shared>>
    BY <2>1 DEF Execute
  <2>7. QED
    BY <1>1, <2>3, <2>4, <2>5, <2>6 DEF ThreadTypes
<1>4. CASE WriteToSharedState
  <2>1. View \in Machines /\ cursor \in Nat /\ Len(trace) - 1 \in Nat
    BY ViewOK
  <2>2. shared.out \in Seq(Byte)
    BY <1>1 DEF ThreadTypes
  <2>3. ReadUartOutput(shared.out) \in Seq(Byte)
    BY <2>1, <2>2, OutputBytes
  <2>4. shared' \in [mode : Resumes \cup {NoMode}, cursor : Nat, total : Nat, out : Seq(Byte)]
    BY <1>1, <1>4, <2>1, <2>3 DEF WriteToSharedState, ThreadTypes
  <2>5. left' \in 0 .. Batch
    BY <1>4, SimTargetAssumption DEF WriteToSharedState
  <2>6. QED
    BY <1>1, <1>4, <2>4, <2>5 DEF WriteToSharedState, ThreadTypes
<1>5. CASE NothingToDo
  BY <1>1, <1>5 DEF NothingToDo, ThreadTypes
<1>6. CASE UNCHANGED control
  BY <1>1, <1>6 DEF control, ThreadTypes
<1>7. Typing \/ Answer \/ ReportStop \/ TargetGone \/ (\E c \in Commands : Sending(c))
        \/ UNCHANGED gvars => UNCHANGED control
  BY DEF Typing, Answer, ReportStop, TargetGone, Sending, SendOne, Send, Type, gvars, vars
<1>8. QED
  BY <1>2, <1>3, <1>4, <1>5, <1>6, <1>7, SessionSteps

(* Types are kept. *)
LEMMA TypeStep ==
  ASSUME GdbSessionAssumption, ProgramSoundOn(Machines), TypeOK, HistoryOK(trace), ThreadOK,
         [GdbNext]_gvars
  PROVE  TypeOK'
<1>1. /\ trace' \in Seq(Machines) /\ cursor' \in 0 .. Len(trace') - 1
      /\ ChannelTypes' /\ ThreadTypes'
  BY HistoryStep, ChannelStep, ThreadTypeStep
<1>2. QED
  <2>1. Kinds = {"DoneStep", "PoweredDown", "Break", "ReachedStart", "Pause"}
    BY DEF Kinds, Reports
  <2>2. QED
    BY <1>1, <2>1 DEF TypeOK, ChannelTypes, ThreadTypes

(* What was noted stays noted. *)
LEMMA MarksGrow ==
  ASSUME GdbSessionAssumption, [GdbNext]_gvars
  PROVE  marks \subseteq marks'
<1>1. \A c : Sending(c) => marks \subseteq marks'
  BY DEF Sending
<1>2. Answer \/ ReportStop \/ TargetGone \/ Typing \/ UNCHANGED gvars => marks' = marks
  BY DEF Answer, ReportStop, TargetGone, Typing, Alike, gvars
<1>3. QED
  BY <1>1, <1>2, SessionSteps DEF Alike

(* A run that GDB waits for stays in one place, and none is left over.     *)
LEMMA AloneStep ==
  ASSUME GdbSessionAssumption, TypeOK, ThreadOK, AloneOK, [GdbNext]_gvars
  PROVE  AloneOK'
<1> SUFFICES ASSUME "disturbed" \notin marks'
             PROVE  /\ \A i \in 1 .. Len(cmds') : cmds'[i].op # "Pause"
                    /\ gdb' \in {"idle", "asking"} =>
                         mode' = NoMode /\ events' = <<>> /\ NoResume(cmds')
                    /\ gdb' = "running" => RunOnce'
  BY DEF AloneOK
<1>1. /\ cmds \in Seq(Commands) /\ Len(cmds) \in Nat
      /\ events \in Seq(Kinds) /\ Len(events) \in Nat
  BY TypeParts, LenProperties DEF ChannelTypes
<1>2. marks \subseteq marks'
  BY MarksGrow
<1>3. /\ \A i \in 1 .. Len(cmds) : cmds[i].op # "Pause"
      /\ gdb \in {"idle", "asking"} => mode = NoMode /\ events = <<>> /\ NoResume(cmds)
      /\ gdb = "running" => RunOnce
  BY <1>2 DEF AloneOK
<1>4. CASE UNCHANGED <<cmds, events, mode, gdb>>
  BY <1>3, <1>4 DEF RunOnce
<1>5. CASE Running /\ Alike
  <2>1. /\ mode # NoMode /\ cmds' = cmds /\ gdb' = gdb
        /\ Stopped \/ GoesOn
    BY <1>5, RunSteps DEF Alike
  <2>2. gdb \notin {"idle", "asking"} /\ (gdb = "running" => events = <<>> /\ NoResume(cmds))
    BY <1>3, <2>1 DEF RunOnce
  <2>3. ASSUME gdb = "running"
        PROVE  RunOnce'
    <3>1. CASE GoesOn
      BY <2>1, <2>2, <2>3, <3>1 DEF GoesOn, RunOnce
    <3>2. CASE Stopped
      <4>1. PICK e \in Reports : events' = Append(events, e)
        BY <3>2 DEF Stopped
      <4>2. e \in Kinds
        BY DEF Kinds
      <4>3. Len(events') = 1
        BY <1>1, <2>2, <2>3, <4>1, <4>2, AppendFacts, EmptySeq
      <4>4. QED
        BY <2>1, <2>2, <2>3, <3>2, <4>3 DEF Stopped, RunOnce
    <3>3. QED
      BY <2>1, <3>1, <3>2
  <2>4. QED
    BY <1>3, <2>1, <2>2, <2>3
<1>6. CASE Receive /\ Alike
  <2> DEFINE c == Head(cmds)
  <2>1. cmds # <<>> /\ cmds' = Tail(cmds) /\ gdb' = gdb /\ Execute(c)
    BY <1>6 DEF Receive, Execute, Alike
  <2>2. /\ c = cmds[1] /\ 1 \in 1 .. Len(cmds)
        /\ Len(cmds') = Len(cmds) - 1
        /\ \A i \in 1 .. Len(cmds') : cmds'[i] = cmds[i + 1]
    BY <1>1, <2>1, HeadTailProperties, EmptySeq
  <2> HIDE DEF c
  <2>3. c.op # "Pause" /\ \A i \in 1 .. Len(cmds') : cmds'[i].op # "Pause"
    BY <1>1, <1>3, <2>2
  <2>4. events' = events /\ mode' = IF c.op \in Resumes THEN c.op ELSE mode
    BY <2>1, <2>3 DEF Execute
  <2>5. /\ NoResume(cmds) => c.op \notin Resumes /\ NoResume(cmds')
        /\ OneResume(cmds) /\ c.op \in Resumes => NoResume(cmds')
        /\ OneResume(cmds) /\ c.op \notin Resumes => OneResume(cmds')
    BY <1>1, <2>1, ReceivedCommand DEF c
  <2>6. NoMode \notin Resumes
    BY DEF NoMode, Resumes
  <2>7. ASSUME gdb = "running"
        PROVE  RunOnce'
    BY <1>3, <2>4, <2>5, <2>6, <2>7 DEF RunOnce
  <2>8. QED
    BY <1>3, <2>1, <2>3, <2>4, <2>5, <2>7
<1>7. CASE \E c \in Commands : Sending(c)
  <2>1. PICK c \in Commands : Sending(c)
    BY <1>7
  <2>2. cmds' = Append(cmds, c) /\ UNCHANGED <<events, mode>>
    BY <2>1 DEF Sending, SendOne, Send, control
  <2>3. /\ c.op # "Pause"
        /\ \/ c.op \in Resumes /\ gdb = "idle" /\ gdb' = "running"
           \/ c.op \notin Resumes /\ gdb = "idle" /\ gdb' = "asking"
           \/ c.op \notin Resumes /\ gdb' = gdb
    BY <2>1 DEF Sending
  <2>4. \A i \in 1 .. Len(cmds') : cmds'[i].op # "Pause"
    <3>1. /\ Len(cmds') = Len(cmds) + 1 /\ cmds'[Len(cmds) + 1] = c
          /\ \A i \in 1 .. Len(cmds) : cmds'[i] = cmds[i]
      BY <1>1, <2>2, AppendFacts
    <3>2. QED
      BY <1>1, <1>3, <2>3, <3>1
  <2>5. /\ NoResume(cmds) /\ c.op \notin Resumes => NoResume(cmds')
        /\ NoResume(cmds) /\ c.op \in Resumes => OneResume(cmds')
        /\ OneResume(cmds) /\ c.op \notin Resumes => OneResume(cmds')
    BY <1>1, <2>2, SentCommand
  <2>6. CASE c.op \in Resumes
    BY <1>3, <2>2, <2>3, <2>4, <2>5, <2>6 DEF RunOnce
  <2>7. CASE c.op \notin Resumes
    BY <1>3, <2>2, <2>3, <2>4, <2>5, <2>7 DEF RunOnce
  <2>8. QED
    BY <2>6, <2>7
<1>8. CASE ReportStop
  <2>1. gdb = "running" /\ events # <<>> /\ events' = Tail(events) /\ gdb' = "idle"
        /\ UNCHANGED <<cmds, mode>>
    BY <1>8 DEF ReportStop, control
  <2>2. mode = NoMode /\ Len(events) = 1 /\ NoResume(cmds)
    BY <1>3, <2>1 DEF RunOnce
  <2>3. events' \in Seq(Kinds) /\ Len(events') = 0
    BY <1>1, <2>1, <2>2, HeadTailProperties
  <2>4. events' = <<>>
    BY <2>3, EmptySeq
  <2>5. QED
    BY <1>3, <2>1, <2>2, <2>4
<1>9. CASE Answer
  BY <1>3, <1>9 DEF Answer, control
<1>10. CASE TargetGone
  BY <1>3, <1>10 DEF TargetGone, vars, channels, control
<1>11. CASE (WriteToSharedState \/ NothingToDo) /\ Alike
  BY <1>4, <1>11 DEF WriteToSharedState, NothingToDo, Alike, channels
<1>12. CASE Typing
  BY <1>4, <1>12 DEF Typing, Type, Alike, control
<1>13. CASE UNCHANGED gvars
  BY <1>4, <1>13 DEF gvars, vars, channels, control
<1>14. QED
  BY <1>5, <1>6, <1>7, <1>8, <1>9, <1>10, <1>11, <1>12, <1>13, SessionSteps

(* What erases history has been noted when it came into the queue. *)
LEMMA ErasesStep ==
  ASSUME GdbSessionAssumption, TypeOK, ThreadOK, ErasesMarked, [GdbNext]_gvars
  PROVE  ErasesMarked'
<1>1. cmds \in Seq(Commands) /\ Len(cmds) \in Nat
  BY TypeParts, LenProperties DEF ChannelTypes
<1>2. marks \subseteq marks'
  BY MarksGrow
<1>3. CASE cmds' = cmds
  BY <1>2, <1>3 DEF ErasesMarked
<1>4. CASE Receive
  <2>1. cmds # <<>> /\ cmds' = Tail(cmds)
    BY <1>4 DEF Receive, Execute
  <2>2. Len(cmds') = Len(cmds) - 1 /\ \A i \in 1 .. Len(cmds') : cmds'[i] = cmds[i + 1]
    BY <1>1, <2>1, HeadTailProperties
  <2>3. QED
    BY <1>1, <1>2, <2>2 DEF ErasesMarked
<1>5. CASE \E c \in Commands : Sending(c)
  <2>1. PICK c \in Commands : Sending(c)
    BY <1>5
  <2>2. cmds' = Append(cmds, c) /\ (c.op \in Erases => "erased" \in marks')
    BY <2>1 DEF Sending, SendOne, Send
  <2>3. /\ Len(cmds') = Len(cmds) + 1 /\ cmds'[Len(cmds) + 1] = c
        /\ \A i \in 1 .. Len(cmds) : cmds'[i] = cmds[i]
    BY <1>1, <2>2, AppendFacts
  <2>4. QED
    BY <1>1, <1>2, <2>2, <2>3 DEF ErasesMarked
<1>6. Running \/ WriteToSharedState \/ NothingToDo \/ Typing \/ Answer \/ ReportStop \/ TargetGone
        \/ UNCHANGED gvars => cmds' = cmds
  <2>1. Running => cmds' = cmds
    BY RunSteps
  <2>2. QED
    BY <2>1 DEF WriteToSharedState, NothingToDo, Typing, Type, Answer, ReportStop,
                TargetGone, gvars, vars, channels
<1>7. QED
  BY <1>3, <1>4, <1>5, <1>6, SessionSteps

(* The user interface is told of the state it then shows. *)
LEMMA ConsoleStep ==
  ASSUME GdbSessionAssumption, TypeOK, HistoryOK(trace), ThreadOK, ConsoleExact, [GdbNext]_gvars
  PROVE  ConsoleExact'
<1>1. CASE pc' # "await"
  BY <1>1 DEF ConsoleExact, ConsoleShowsOutput
<1>2. CASE UNCHANGED <<trace, cursor, pc, shared>>
  BY <1>2 DEF ConsoleExact, ConsoleShowsOutput, View
<1>3. CASE WriteToSharedState
  <2>1. UNCHANGED <<trace, cursor>> /\ shared'.out = ReadUartOutput(shared.out)
    BY <1>3 DEF WriteToSharedState
  <2>2. View' = View
    BY <2>1 DEF View
  <2>3. ASSUME View.len \in 0 .. BufSize
        PROVE  shared'.out = View.drained
    <3>1. BufSize \in Nat /\ MachineOK(View)
      BY ViewOK, SimTargetAssumption
    <3>2. View.buf = View.drained
      BY <2>3, <3>1 DEF MachineOK, NoLen
    <3>3. ReadUartOutput(shared.out) = View.buf
      BY <2>3, <3>1 DEF ReadUartOutput, NoLen
    <3>4. QED
      BY <2>1, <3>2, <3>3
  <2>4. QED
    BY <2>2, <2>3 DEF ConsoleExact, ConsoleShowsOutput
<1>4. Running \/ Receive \/ NothingToDo => pc' # "await"
  <2>1. Running => pc' # "await"
    BY RunSteps DEF Stopped, GoesOn
  <2>2. QED
    BY <2>1 DEF Receive, Execute, NothingToDo
<1>5. Typing \/ Answer \/ ReportStop \/ TargetGone \/ (\E c \in Commands : Sending(c))
        \/ UNCHANGED gvars => UNCHANGED <<trace, cursor, pc, shared>>
  BY DEF Typing, Type, Answer, ReportStop, TargetGone, Sending, SendOne, Send, gvars, vars, control
<1>6. QED
  BY <1>1, <1>2, <1>3, <1>4, <1>5, SessionSteps

(* What has reached the program, and what is on its way. *)
Got == trace[Len(trace)].heard \o uart

LEMMA InputMeans ==
  InputInOrder <=> IF "erased" \in marks THEN IsSubsequence(Got, typed) ELSE Got = typed
  BY DEF InputInOrder, Got

(* Nothing typed is lost, unless an edit cuts history. *)
LEMMA InputStep ==
  ASSUME GdbSessionAssumption, ProgramSoundOn(Machines), TypeOK, HistoryOK(trace), ThreadOK,
         ErasesMarked, InputInOrder, [GdbNext]_gvars
  PROVE  InputInOrder'
<1> DEFINE last == trace[Len(trace)].heard
<1>1. /\ uart \in Seq(Byte) /\ typed \in Seq(Byte) /\ cmds \in Seq(Commands)
      /\ trace \in Seq(Machines) /\ Len(trace) \in Nat /\ cursor \in Nat
      /\ cursor + 1 \in 1 .. Len(trace) /\ Len(trace) \in 1 .. Len(trace)
  BY ViewOK DEF TypeOK
<1>2. View.heard \in Seq(Byte) /\ last \in Seq(Byte) /\ Begins(View.heard, last)
  BY <1>1, MachineTypes DEF HistoryOK, MachineOK, View
<1>3. Got = last \o uart /\ Got \in Seq(Byte)
  BY <1>1, <1>2, ConcatProperties DEF Got
<1>4. IF "erased" \in marks THEN IsSubsequence(Got, typed) ELSE Got = typed
  BY InputMeans
<1>5. IsSubsequence(Got, typed)
  BY <1>1, <1>4, WholeIsSubsequence
<1> HIDE DEF last
<1>6. SUFFICES IF "erased" \in marks' THEN IsSubsequence(Got', typed') ELSE Got' = typed'
  BY DEF InputInOrder, Got
<1>7. CASE Got' = Got /\ typed' = typed
  BY <1>4, <1>5, <1>7, MarksGrow
<1>8. CASE Running
  <2>1. Got' = Got
    BY <1>8, RunHistory DEF Got
  <2>2. QED
    BY <1>7, <1>8, <2>1, RunSteps
<1>9. CASE Receive
  <2>1. cmds # <<>> /\ UNCHANGED <<uart, typed>>
    BY <1>9 DEF Receive, Execute
  <2>2. CASE Head(cmds).op \notin Erases
    <3>1. trace' = trace
      BY <1>9, <2>2, ReceiveHistory
    <3>2. QED
      BY <1>7, <2>1, <3>1 DEF Got
  <2>3. CASE Head(cmds).op \in Erases
    <3>1. Got' = View.heard \o uart
      BY <1>9, <2>1, <2>3, ReceiveHistory DEF Got
    <3>2. IsSubsequence(View.heard \o uart, typed)
      BY <1>1, <1>2, <1>3, <1>5, CutBytes
    <3>3. "erased" \in marks
      <4>1. Head(cmds) = cmds[1] /\ 1 \in 1 .. Len(cmds)
        BY <1>1, <2>1, HeadTailProperties, EmptySeq
      <4>2. QED
        BY <2>3, <4>1 DEF ErasesMarked
    <3>4. QED
      BY <2>1, <3>1, <3>2, <3>3, MarksGrow
  <2>4. QED
    BY <2>2, <2>3
<1>10. CASE Typing
  <2>1. PICK b \in Byte : Type(b) /\ Alike
    BY <1>10 DEF Typing
  <2>2. /\ uart' = Append(uart, b) /\ typed' = Append(typed, b)
        /\ trace' = trace /\ marks' = marks
    BY <2>1 DEF Type, Alike
  <2>3. last \o Append(uart, b) = Append(last \o uart, b)
    <3>1. <<b>> \in Seq(Byte)
      OBVIOUS
    <3>2. Append(uart, b) = uart \o <<b>> /\ Append(last \o uart, b) = (last \o uart) \o <<b>>
      BY <1>1, <1>3, AppendIsConcat
    <3>3. \A s, t, u \in Seq(Byte) : (s \o t) \o u = s \o (t \o u)
      BY ConcatAssociative
    <3>4. uart \in Seq(Byte) /\ last \in Seq(Byte)
      BY <1>1, <1>2
    <3>5. (last \o uart) \o <<b>> = last \o (uart \o <<b>>)
      BY <3>1, <3>3, <3>4, Zenon
    <3>6. QED
      BY <3>2, <3>5, Zenon
  <2>4. Got' = Append(Got, b)
    BY <1>3, <2>2, <2>3 DEF Got, last
  <2>5. IsSubsequence(Append(Got, b), Append(typed, b))
    BY <1>1, <1>3, <1>5, TypedByte
  <2>6. QED
    BY <1>4, <2>2, <2>4, <2>5
<1>11. (\E c \in Commands : Sending(c)) \/ WriteToSharedState \/ NothingToDo \/ Answer
         \/ ReportStop \/ TargetGone \/ UNCHANGED gvars => UNCHANGED <<trace, uart, typed>>
  BY DEF Sending, SendOne, Send, WriteToSharedState, NothingToDo, Answer, ReportStop,
         TargetGone, gvars, vars, channels
<1>12. UNCHANGED <<trace, uart, typed>> => Got' = Got /\ typed' = typed
  BY DEF Got
<1>13. QED
  BY <1>7, <1>8, <1>9, <1>10, <1>11, <1>12, SessionSteps

(* The session starts in the invariant. *)
LEMMA SessionInit ==
  ASSUME GdbSessionAssumption, GdbInit
  PROVE  SessionInv
<1>1. /\ trace = <<Boot, AddBuffer(Boot)>> /\ cursor = 1
      /\ cmds = <<>> /\ events = <<>> /\ uart = <<>> /\ typed = <<>> /\ replies = <<>>
      /\ breaks = {} /\ mode = NoMode /\ range = {} /\ pc = "top" /\ left = 0
      /\ shared = [mode |-> NoMode, cursor |-> 0, total |-> 0, out |-> <<>>]
      /\ gdb = "idle" /\ sent = 0 /\ marks = {}
  BY DEF GdbInit, Init
<1>2. \A S : <<>> \in Seq(S)
  BY EmptySeq
<1>3. Len(<<>>) = 0
  BY EmptySeq
<1>4. /\ MachineOK(Boot) /\ MachineOK(AddBuffer(Boot))
      /\ Boot \in Machines /\ AddBuffer(Boot) \in Machines
      /\ Boot.heard = <<>> /\ AddBuffer(Boot).heard = <<>>
  BY BootOK DEF MachineOK, Boot, AddBuffer
<1>5. /\ trace \in Seq(Machines) /\ Len(trace) = 2
      /\ trace[1] = Boot /\ trace[2] = AddBuffer(Boot)
  BY <1>1, <1>4
<1>6. TypeOK
  <2>1. ThreadTypes
    BY <1>1, <1>2, SimTargetAssumption DEF ThreadTypes
  <2>2. ChannelTypes
    BY <1>1, <1>2 DEF ChannelTypes, GdbSessionAssumption
  <2>3. QED
    BY <1>1, <1>5, <2>1, <2>2, TypeParts
<1>7. HistoryOK(trace)
  <2>1. \A i \in 1 .. Len(trace) : MachineOK(trace[i]) /\ trace[i].heard = <<>>
    BY <1>4, <1>5
  <2>2. Begins(<<>>, <<>>)
    BY <1>3 DEF Begins
  <2>3. QED
    BY <2>1, <2>2 DEF HistoryOK
<1>8. ThreadOK /\ ErasesMarked /\ ConsoleExact
  BY <1>1, <1>3 DEF ThreadOK, ErasesMarked, ConsoleExact, ConsoleShowsOutput
<1>9. AloneOK
  BY <1>1, <1>3 DEF AloneOK, NoResume
<1>10. InputInOrder
  <2>1. <<>> \o <<>> = <<>>
    BY <1>2, ConcatEmptySeq
  <2>2. Got = typed
    BY <1>1, <1>4, <1>5, <2>1 DEF Got
  <2>3. QED
    BY <1>1, <2>2, InputMeans
<1>11. QED
  BY <1>6, <1>7, <1>8, <1>9, <1>10 DEF SessionInv

(* Every step keeps the invariant. *)
LEMMA SessionNext ==
  ASSUME GdbSessionAssumption, ProgramSoundOn(Machines), SessionInv, [GdbNext]_gvars
  PROVE  SessionInv'
<1>1. /\ TypeOK /\ HistoryOK(trace) /\ ThreadOK /\ AloneOK /\ ErasesMarked
      /\ ConsoleExact /\ InputInOrder
  BY DEF SessionInv
<1>2. TypeOK'
  BY <1>1, TypeStep
<1>3. HistoryOK(trace')
  BY <1>1, HistoryStep
<1>4. ThreadOK'
  BY <1>1, ThreadStep
<1>5. AloneOK'
  BY <1>1, AloneStep
<1>6. ErasesMarked'
  BY <1>1, ErasesStep
<1>7. ConsoleExact'
  BY <1>1, ConsoleStep
<1>8. InputInOrder'
  BY <1>1, InputStep
<1>9. QED
  BY <1>2, <1>3, <1>4, <1>5, <1>6, <1>7, <1>8 DEF SessionInv

(* The invariant holds throughout every session. *)
THEOREM SessionInvariant ==
  ASSUME ProgramSoundOn(Machines)
  PROVE  GdbSpec => []SessionInv
<1>1. GdbInit => SessionInv
  BY SessionInit, GdbSessionAssumption
<1>2. SessionInv /\ [GdbNext]_gvars => SessionInv'
  BY SessionNext, GdbSessionAssumption
<1>3. QED
  BY <1>1, <1>2, PTL DEF GdbSpec

(* As long as nobody but GDB starts or stops runs, the server takes the    *)
(* target for halted only when it is, no stop is left over and no run is   *)
(* queued (gdb.rs:136-143, target.rs:371-380).                             *)
THEOREM ServerAndTargetAgree ==
  ASSUME ProgramSoundOn(Machines)
  PROVE  GdbSpec => []SessionOK
<1>1. SessionInv => SessionOK
  <2>1. AloneOK => AloneHaltedTogether
    BY DEF AloneOK, AloneHaltedTogether, HaltedTogether, NoResume
  <2>2. QED
    BY <2>1 DEF SessionInv, SessionOK
<1>2. QED
  BY <1>1, SessionInvariant, PTL

(* The user interface shows the output up to the viewed state, and what is *)
(* typed reaches the program in order, each byte at most once and none     *)
(* lost but by an edit, through all travels (target.rs:157-202).           *)
THEOREM ConsoleLosesNothing ==
  ASSUME ProgramSoundOn(Machines)
  PROVE  GdbSpec => []StreamsExact
<1>1. SessionInv => StreamsExact
  BY DEF SessionInv, StreamsExact
<1>2. QED
  BY <1>1, SessionInvariant, PTL

-----------------------------------------------------------------------------
(* What a step may never do *)

LEMMA BeginningIsPrefix ==
  ASSUME NEW s \in Seq(Machines), NEW t \in Seq(Machines), NEW n \in 0 .. Len(s), n <= Len(t),
         \A i \in 1 .. n : t[i] = s[i]
  PROVE  SX!IsPrefix(SubSeq(s, 1, n), t)
<1>1. n \in 0 .. Len(t)
  BY LenProperties
<1> DEFINE a == SubSeq(s, 1, n)
           b == SubSeq(t, 1, n)
<1>2. a \in Seq(Machines) /\ Len(a) = n /\ \A i \in 1 .. n : a[i] = s[i]
  BY PrefixFacts
<1>3. b \in Seq(Machines) /\ Len(b) = n /\ \A i \in 1 .. n : b[i] = t[i]
  BY <1>1, PrefixFacts
<1> HIDE DEF a, b
<1>4. a = b
  BY <1>2, <1>3, SeqEqual
<1>5. SubSeq(a, 1, Len(a)) = a
  BY <1>2, SubSeqFull
<1>6. QED
  BY <1>2, <1>4, <1>5 DEF SX!IsPrefix, b, a

(* The past and the current state stay in history whatever anybody does;   *)
(* running and travelling erase nothing of the future either, only edits   *)
(* and the reading of a CSR do, which changes nothing else (target.rs:205, *)
(* 312-319).                                                               *)
THEOREM FutureIsKept ==
  ASSUME ProgramSoundOn(Machines)
  PROVE  GdbSpec => TravelKeepsFuture
<1>1. ASSUME SessionInv, [GdbNext]_gvars
      PROVE  [ /\ SX!IsPrefix(SubSeq(trace, 1, cursor + 1), trace')
               /\ Executes(Edits) \/ Executes({"ReadCsr"}) \/ SX!IsPrefix(trace, trace')
               /\ Executes({"ReadCsr"}) => View' = View ]_gvars
  <2>1. /\ TypeOK /\ HistoryOK(trace) /\ ThreadOK /\ GdbSessionAssumption
        /\ trace \in Seq(Machines) /\ Len(trace) \in Nat
        /\ cursor + 1 \in 1 .. Len(trace)
    BY <1>1, ViewOK, GdbSessionAssumption DEF SessionInv, TypeOK
  <2>2. ASSUME trace' \in Seq(Machines), Len(trace') >= cursor + 1,
               \A i \in 1 .. cursor + 1 : trace'[i] = trace[i]
        PROVE  SX!IsPrefix(SubSeq(trace, 1, cursor + 1), trace')
    BY <2>1, <2>2, BeginningIsPrefix
  <2>3. ASSUME Keeps, trace' \in Seq(Machines)
        PROVE  /\ SX!IsPrefix(SubSeq(trace, 1, cursor + 1), trace')
               /\ SX!IsPrefix(trace, trace')
    <3>1. Len(trace') \in Nat
      BY <2>3, LenProperties
    <3>2. SX!IsPrefix(SubSeq(trace, 1, cursor + 1), trace')
      BY <2>1, <2>2, <2>3, <3>1 DEF Keeps
    <3>3. SubSeq(trace, 1, Len(trace)) = trace
      BY <2>1, SubSeqFull
    <3>4. SX!IsPrefix(SubSeq(trace, 1, Len(trace)), trace')
      BY <2>1, <2>3, <3>1, BeginningIsPrefix DEF Keeps
    <3>5. QED
      BY <3>2, <3>3, <3>4
  <2>4. CASE trace' = trace /\ (View' = View \/ ~Executes({"ReadCsr"}))
    BY <2>1, <2>3, <2>4 DEF Keeps
  <2>5. CASE Running
    <3>1. ~Executes({"ReadCsr"})
      BY <2>1, <2>5, RunSteps DEF Executes
    <3>2. QED
      BY <1>1, <2>1, <2>3, <2>5, <3>1, RunHistory
  <2>6. CASE Receive
    <3>1. pc \in {"await", "poll"} /\ cmds # <<>> /\ cmds' = Tail(cmds)
      BY <2>6 DEF Receive, Execute
    <3>2. CASE Head(cmds).op \in Erases
      <4>1. SX!IsPrefix(SubSeq(trace, 1, cursor + 1), trace')
        BY <2>1, <2>2, <2>6, <3>2, ReceiveHistory
      <4>2. Executes(Edits) \/ Executes({"ReadCsr"})
        BY <3>1, <3>2 DEF Executes, Erases
      <4>3. Executes({"ReadCsr"}) => View' = View
        BY <2>1, <2>6, ReceiveHistory DEF Executes
      <4>4. QED
        BY <4>1, <4>2, <4>3
    <3>3. CASE Head(cmds).op \notin Erases
      <4>1. trace' = trace /\ ~Executes({"ReadCsr"})
        BY <2>1, <2>6, <3>3, ReceiveHistory DEF Executes, Erases
      <4>2. QED
        BY <2>4, <4>1
    <3>4. QED
      BY <3>2, <3>3
  <2>7. CASE UNCHANGED <<trace, cursor>>
    BY <2>4, <2>7 DEF View
  <2>8. QED
    BY <1>1, <2>1, <2>5, <2>6, <2>7, SessionSteps, QuietSteps
<1>2. QED
  BY <1>1, SessionInvariant, PTL DEF GdbSpec, TravelKeepsFuture

(* A set of positions before the current one has a last one. *)
LEMMA LastStopIsLast ==
  ASSUME NEW n \in Nat, NEW S \in SUBSET (0 .. n), S # {}
  PROVE  LastStop(S) \in S /\ \A j \in S : j <= LastStop(S)
<1> DEFINE T == {n - i : i \in S}
<1>1. T \in SUBSET Nat /\ T # {}
  <2>1. \A i \in S : i \in 0 .. n /\ n - i \in Nat
    OBVIOUS
  <2>2. \A t \in T : t \in Nat
    BY <2>1
  <2>3. QED
    BY <2>2
<1>2. PICK t \in T : \A u \in T : ~ (<<u, t>> \in OpToRel(<, Nat))
  BY <1>1, NatLessThanWellFounded, WFMin
<1>3. \A u \in T : t <= u
  <2>1. SUFFICES ASSUME NEW u \in T, u < t
                 PROVE  FALSE
    BY <1>1
  <2>2. <<u, t>> \in Nat \X Nat /\ <<u, t>>[1] < <<u, t>>[2]
    BY <1>1, <2>1
  <2>3. <<u, t>> \in OpToRel(<, Nat)
    BY <2>2 DEF OpToRel
  <2>4. QED
    BY <1>2, <2>3
<1>4. PICK i \in S : t = n - i
  BY <1>2
<1>5. \A j \in S : j <= i
  BY <1>3, <1>4
<1>6. QED
  BY <1>4, <1>5 DEF LastStop

(* A run never jumps over a breakpoint, in either direction, and never     *)
(* goes on from one it has come to (target.rs:204-299).                    *)
THEOREM BreakpointsStopRuns ==
  ASSUME ProgramSoundOn(Machines)
  PROVE  GdbSpec => BreaksStopRuns
<1> DEFINE Jumps == \E i \in 0 .. Len(trace) - 1 :
                      /\ i \in cursor + 1 .. cursor' - 1 \/ i \in cursor' + 1 .. cursor - 1
                      /\ AtBreak(i)
           Leaves == cursor' # cursor /\ mode' # NoMode /\ View'.pc \in breaks
<1>1. ASSUME SessionInv, GdbNext \/ UNCHANGED gvars, pc \in {"advance", "tick"}, pc' # "tick"
      PROVE  ~Jumps /\ ~Leaves
  <2>1. /\ TypeOK /\ HistoryOK(trace) /\ ThreadOK /\ GdbSessionAssumption
        /\ Len(trace) \in Nat /\ cursor \in Nat /\ cursor \in 0 .. Len(trace) - 1
    BY <1>1, ViewOK, GdbSessionAssumption DEF SessionInv, TypeOK
  <2>2. CASE UNCHANGED <<trace, cursor>>
    BY <2>1, <2>2
  <2>3. ~ ComWithUart
    BY <1>1 DEF ComWithUart
  <2>4. ASSUME NEW n, GoTo(n)
        PROVE  trace' = trace /\ cursor' = n /\ n \in 0 .. Len(trace) - 1 /\ View' = trace[n + 1]
    BY <2>4, Travels DEF View
  <2>5. CASE Redo
    <3>1. GoTo(cursor + 1) /\ AfterStep(trace[cursor + 2]) /\ pc = "advance"
      BY <2>5 DEF Redo, Forward
    <3>2. cursor' = cursor + 1 /\ View' = trace[cursor + 2]
      BY <2>1, <2>4, <3>1
    <3>3. View'.pc \in breaks => mode' = NoMode
      BY <2>1, <3>1, <3>2, StepEnds DEF Stopped
    <3>4. QED
      BY <2>1, <3>2, <3>3
  <2>6. CASE Tick
    <3>1. StepWith(Plain) /\ AfterStep(ApplyTick(Plain, View)) /\ pc = "tick"
      BY <2>6 DEF Tick
    <3>2. MachineOK(ApplyTick(Plain, View)) /\ Begins(View.heard, ApplyTick(Plain, View).heard)
      BY <2>1, ViewOK, PlainOK
    <3>3. cursor' = cursor + 1 /\ View' = ApplyTick(Plain, View)
      BY <2>1, <3>1, <3>2, Advances
    <3>4. View'.pc \in breaks => mode' = NoMode
      BY <2>1, <3>1, <3>3, StepEnds DEF Stopped
    <3>5. QED
      BY <2>1, <3>3, <3>4
  <2>7. CASE StepBack
    <3>1. CASE cursor = 0
      BY <2>2, <2>7, <3>1 DEF StepBack
    <3>2. CASE cursor # 0
      <4>1. GoTo(cursor - 1) /\ AfterStep(trace[cursor]) /\ pc = "advance"
        BY <2>7, <3>2 DEF StepBack
      <4>2. cursor' = cursor - 1 /\ View' = trace[cursor]
        BY <2>1, <2>4, <4>1
      <4>3. View'.pc \in breaks => mode' = NoMode
        BY <2>1, <4>1, <4>2, StepEnds DEF Stopped
      <4>4. QED
        BY <2>1, <4>2, <4>3
    <3>3. QED
      BY <3>1, <3>2
  <2>8. CASE \E i \in 0 .. cursor : ReverseContinue({i} \ {cursor})
    <3>1. PICK i \in 0 .. cursor : ReverseContinue({i} \ {cursor})
      BY <2>8
    <3> DEFINE stops == StopsOf({i} \ {cursor})
               k     == LastStop(stops)
    <3>2. /\ stops \in SUBSET (0 .. cursor)
          /\ \A j \in 0 .. cursor - 1 : AtBreak(j) => j \in stops
          /\ \A j \in stops : j < cursor
      BY <2>1, <3>1 DEF StopsOf
    <3>3. CASE stops = {}
      <4>1. GoTo(0) /\ mode' = NoMode
        BY <3>1, <3>3 DEF ReverseContinue, Stop
      <4>2. \A j \in 0 .. cursor - 1 : ~ AtBreak(j)
        BY <3>2, <3>3
      <4> HIDE DEF stops, k
      <4>3. QED
        BY <2>1, <2>4, <4>1, <4>2
    <3>4. CASE stops # {}
      <4>1. GoTo(k) /\ (AtBreak(k) => mode' = NoMode)
        BY <3>1, <3>4 DEF ReverseContinue, Stop
      <4>2. k \in stops /\ \A j \in stops : j <= k
        BY <2>1, <3>2, <3>4, LastStopIsLast
      <4> HIDE DEF stops, k
      <4>3. k \in 0 .. cursor /\ k < cursor /\ cursor' = k /\ View' = trace[k + 1]
        BY <2>4, <3>2, <4>1, <4>2
      <4>4. ~ Leaves
        BY <4>1, <4>3 DEF AtBreak
      <4>5. ~ Jumps
        <5>1. SUFFICES ASSUME NEW j \in 0 .. Len(trace) - 1, AtBreak(j),
                              j \in cursor + 1 .. k - 1 \/ j \in k + 1 .. cursor - 1
                       PROVE  FALSE
          BY <4>3
        <5>2. j \in 0 .. cursor - 1 /\ j > k
          BY <2>1, <4>3, <5>1
        <5>3. j <= k
          BY <3>2, <4>2, <5>1, <5>2
        <5>4. QED
          BY <4>3, <5>2, <5>3
      <4>6. QED
        BY <4>4, <4>5
    <3>5. QED
      BY <3>3, <3>4
  <2>9. Receive => FALSE
    BY <1>1 DEF Receive
  <2>10. QED
    BY <1>1, <2>1, <2>2, <2>3, <2>5, <2>6, <2>7, <2>8, <2>9, SessionSteps, QuietSteps DEF Running
<1>2. ASSUME SessionInv, [GdbNext]_gvars
      PROVE  [(pc \in {"advance", "tick"} /\ pc' # "tick") =>
               /\ \A i \in 0 .. Len(trace) - 1 :
                    (i \in cursor + 1 .. cursor' - 1 \/ i \in cursor' + 1 .. cursor - 1) => ~AtBreak(i)
               /\ (cursor' # cursor /\ mode' # NoMode) => View'.pc \notin breaks]_gvars
  BY <1>1, <1>2
<1>3. QED
  BY <1>2, SessionInvariant, PTL DEF GdbSpec, BreaksStopRuns
=============================================================================
