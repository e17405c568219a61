---------------------------- MODULE Uart_proofs ----------------------------
(***************************************************************************)
(* Proofs about Uart, for FIFOs of any length and any trigger levels.      *)
(***************************************************************************)
EXTENDS Uart, SequenceTheorems, TLAPS

(***************************************************************************)
(* FIFOs as sequences                                                      *)
(***************************************************************************)

LEMMA FifosAreSequences ==
  /\ \A s \in Fifos : s \in Seq(Bytes) /\ Len(s) \in 0 .. Depth
  /\ \A s \in Seq(Bytes) : Len(s) <= Depth => s \in Fifos
<1>0. Depth \in Nat
  BY UartAssumption
<1>1. ASSUME NEW s \in Fifos
      PROVE  s \in Seq(Bytes) /\ Len(s) \in 0 .. Depth
  <2>1. PICK n \in 0 .. Depth : s \in [1 .. n -> Bytes]
    BY DEF Fifos
  <2>2. n \in Nat
    BY <1>0
  <2>3. s \in Seq(Bytes)
    BY <2>1, <2>2, SeqDef
  <2>4. Len(s) = n
    BY <2>1, <2>2, <2>3, LenProperties
  <2>5. QED
    BY <2>3, <2>4
<1>2. ASSUME NEW s \in Seq(Bytes), Len(s) <= Depth
      PROVE  s \in Fifos
  <2>1. Len(s) \in 0 .. Depth /\ s \in [1 .. Len(s) -> Bytes]
    BY <1>0, <1>2, LenProperties
  <2>2. QED
    BY <2>1 DEF Fifos
<1>3. QED
  BY <1>1, <1>2

LEMMA EmptyFifo == <<>> \in Fifos /\ Len(<<>>) = 0
<1>1. <<>> \in Seq(Bytes) /\ Len(<<>>) = 0
  BY EmptySeq, Zenon
<1>2. 0 <= Depth
  BY UartAssumption
<1>3. Len(<<>>) <= Depth
  BY <1>1, <1>2, Zenon
<1>4. QED
  BY <1>1, <1>3, FifosAreSequences, Zenon

(* The bytes in the receiver FIFO *)
Front(buf, n) == [i \in 1 .. n |-> buf[i]]

LEMMA FrontFacts ==
  ASSUME NEW buf \in [1 .. Depth -> Bytes], NEW n \in 0 .. Depth
  PROVE  /\ Front(buf, n) \in Seq(Bytes)
         /\ Len(Front(buf, n)) = n
         /\ \A i \in 1 .. n : Front(buf, n)[i] = buf[i]
<1>0. Depth \in Nat /\ n \in Nat
  BY UartAssumption
<1>1. Front(buf, n) \in [1 .. n -> Bytes]
  BY <1>0 DEF Front
<1>2. Front(buf, n) \in Seq(Bytes)
  BY <1>0, <1>1, SeqDef
<1>3. Len(Front(buf, n)) = n
  BY <1>0, <1>1, <1>2, LenProperties
<1>4. QED
  BY <1>2, <1>3 DEF Front

LEMMA ShiftedType ==
  ASSUME NEW buf \in [1 .. Depth -> Bytes], NEW rx \in 1 .. Depth
  PROVE  Shifted(buf, rx) \in [1 .. Depth -> Bytes]
BY UartAssumption DEF Shifted

(* Moving the bytes down by one takes the first one out. *)
LEMMA FrontShifted ==
  ASSUME NEW buf \in [1 .. Depth -> Bytes], NEW rx \in 1 .. Depth
  PROVE  /\ Front(buf, rx) # <<>>
         /\ Head(Front(buf, rx)) = buf[1]
         /\ Front(Shifted(buf, rx), rx - 1) = Tail(Front(buf, rx))
<1> DEFINE old == Front(buf, rx)
           new == Front(Shifted(buf, rx), rx - 1)
<1>0. Depth \in Nat /\ rx \in 0 .. Depth /\ rx - 1 \in 0 .. Depth
  BY UartAssumption
<1>1. old \in Seq(Bytes) /\ Len(old) = rx /\ \A i \in 1 .. rx : old[i] = buf[i]
  BY <1>0, FrontFacts
<1>2. new \in Seq(Bytes) /\ Len(new) = rx - 1 /\ \A i \in 1 .. rx - 1 : new[i] = Shifted(buf, rx)[i]
  BY <1>0, ShiftedType, FrontFacts
<1>3. \A i \in 1 .. rx - 1 : Shifted(buf, rx)[i] = buf[i + 1]
  BY <1>0 DEF Shifted
<1>4. old # <<>>
  BY <1>0, <1>1, EmptySeq
<1> HIDE DEF old, new
<1>5. /\ Tail(old) \in Seq(Bytes) /\ Len(Tail(old)) = rx - 1
      /\ \A i \in 1 .. rx - 1 : Tail(old)[i] = old[i + 1]
  BY <1>1, <1>4, HeadTailProperties
<1>6. \A i \in 1 .. rx - 1 : new[i] = Tail(old)[i]
  BY <1>0, <1>1, <1>2, <1>3, <1>5
<1>7. new = Tail(old)
  BY <1>2, <1>5, <1>6, SeqEqual
<1>8. Head(old) = buf[1]
  BY <1>0, <1>1, <1>4
<1>9. QED
  BY <1>4, <1>7, <1>8 DEF old, new

LEMMA FilledType ==
  ASSUME NEW buf \in [1 .. Depth -> Bytes], NEW rx \in 0 .. Depth, NEW bytes \in Fifos,
         NEW n \in 0 .. Len(bytes)
  PROVE  Filled(buf, rx, bytes, n) \in [1 .. Depth -> Bytes]
<1>1. bytes \in Seq(Bytes) /\ Len(bytes) \in Nat /\ rx \in Int /\ n \in Int
  BY FifosAreSequences, UartAssumption
<1>2. ASSUME NEW i \in 1 .. Depth, i - rx \in 1 .. n
      PROVE  bytes[i - rx] \in Bytes
  <2>1. i - rx \in 1 .. Len(bytes)
    BY <1>1, <1>2
  <2>2. QED
    BY <1>1, <2>1, ElementOfSeq
<1>3. QED
  BY <1>2 DEF Filled

(* Filling puts the bytes that fit behind those that are there. *)
LEMMA FrontFilled ==
  ASSUME NEW buf \in [1 .. Depth -> Bytes], NEW rx \in 0 .. Depth, NEW bytes \in Fifos,
         NEW n \in 0 .. Len(bytes), rx + n <= Depth
  PROVE  Front(Filled(buf, rx, bytes, n), rx + n) = Front(buf, rx) \o SubSeq(bytes, 1, n)
<1> DEFINE old == Front(buf, rx)
           new == Front(Filled(buf, rx, bytes, n), rx + n)
           more == SubSeq(bytes, 1, n)
<1>0. /\ Depth \in Nat /\ rx \in Nat /\ n \in Nat
      /\ bytes \in Seq(Bytes) /\ Len(bytes) \in Nat
      /\ rx + n \in 0 .. Depth
  BY FifosAreSequences, UartAssumption
<1>1. old \in Seq(Bytes) /\ Len(old) = rx /\ \A i \in 1 .. rx : old[i] = buf[i]
  BY FrontFacts
<1>2. /\ new \in Seq(Bytes) /\ Len(new) = rx + n
      /\ \A i \in 1 .. rx + n : new[i] = Filled(buf, rx, bytes, n)[i]
  BY <1>0, FilledType, FrontFacts
<1>3. more \in Seq(Bytes) /\ Len(more) = n /\ \A i \in 1 .. n : more[i] = bytes[i]
  <2>1. \A i \in 1 .. n : bytes[i] \in Bytes
    BY <1>0, ElementOfSeq
  <2>2. QED
    BY <1>0, <2>1, SubSeqProperties
<1>4. \A i \in 1 .. rx + n : Filled(buf, rx, bytes, n)[i] = IF i <= rx THEN buf[i] ELSE bytes[i - rx]
  BY <1>0 DEF Filled
<1> HIDE DEF old, new, more
<1>5. /\ old \o more \in Seq(Bytes) /\ Len(old \o more) = rx + n
      /\ \A i \in 1 .. rx + n : (old \o more)[i] = IF i <= rx THEN old[i] ELSE more[i - rx]
  BY <1>1, <1>3, ConcatProperties
<1>6. ASSUME NEW i \in 1 .. rx + n
      PROVE  new[i] = (old \o more)[i]
  <2>1. CASE i <= rx
    <3>1. i \in 1 .. rx
      BY <1>0, <2>1
    <3>2. QED
      BY <1>1, <1>2, <1>4, <1>5, <2>1, <3>1
  <2>2. CASE ~(i <= rx)
    <3>1. i - rx \in 1 .. n
      BY <1>0, <2>2
    <3>2. QED
      BY <1>2, <1>3, <1>4, <1>5, <2>2, <3>1
  <2>3. QED
    BY <2>1, <2>2
<1>7. new = old \o more
  BY <1>2, <1>5, <1>6, SeqEqual
<1>8. QED
  BY <1>7 DEF old, new, more

(***************************************************************************)
(* The registers                                                           *)
(***************************************************************************)

(* NothingHidden and InterruptStands of a state u, and NothingPromised     *)
Sound(u) ==
  /\ u \in Uarts
  /\ u.rx > 0 => "DR" \in u.lsr
  /\ Len(u.tx) = Depth => "THRE" \notin u.lsr
  /\ u.tx # <<>> => "TFE" \notin u.lsr
  /\ u.rdi <=> "DR" \in u.lsr /\ u.rx >= u.itl

Exact(u) ==
  /\ "DR" \in u.lsr => u.rx > 0
  /\ Len(u.tx) < Depth => "THRE" \in u.lsr
  /\ u.tx = <<>> => "TFE" \in u.lsr

(* Recomputing the interrupt makes it right. *)
LEMMA UpdateSound ==
  ASSUME NEW u \in Uarts,
         u.rx > 0 => "DR" \in u.lsr,
         Len(u.tx) = Depth => "THRE" \notin u.lsr,
         u.tx # <<>> => "TFE" \notin u.lsr
  PROVE  /\ Sound(UpdateInterrupt(u))
         /\ UpdateInterrupt(u).buf = u.buf
         /\ UpdateInterrupt(u).rx = u.rx
         /\ UpdateInterrupt(u).tx = u.tx
         /\ UpdateInterrupt(u).lsr = u.lsr
BY DEF UpdateInterrupt, Uarts, Sound

LEMMA ResetSound == Sound(ResetState) /\ Exact(ResetState)
<1>1. Depth \in Nat /\ Depth > 0 /\ ResetItl \in Triggers /\ Zero \in Bytes
  BY UartAssumption
<1>2. <<>> \in Fifos /\ Len(<<>>) = 0
  BY EmptyFifo
<1>3. ResetState \in Uarts
  BY <1>1, <1>2 DEF ResetState, Uarts, LineBits
<1>4. QED
  BY <1>1, <1>2, <1>3 DEF Sound, Exact, ResetState

LEMMA PoppedSound ==
  ASSUME NEW u, Sound(u)
  PROVE  /\ Sound(UpdateInterrupt(Popped(u)))
         /\ Exact(u) => Exact(UpdateInterrupt(Popped(u)))
         /\ UpdateInterrupt(Popped(u)).tx = u.tx
         /\ u.rx > 0 => /\ UpdateInterrupt(Popped(u)).rx = u.rx - 1
                        /\ UpdateInterrupt(Popped(u)).buf = Shifted(u.buf, u.rx)
<1> DEFINE v == Popped(u)
<1>0. /\ u \in Uarts /\ u.rx \in 0 .. Depth /\ u.buf \in [1 .. Depth -> Bytes]
      /\ Depth \in Nat
  BY UartAssumption DEF Sound, Uarts
<1>1. CASE u.rx = 0
  <2>1. v = u
    BY <1>1 DEF Popped
  <2>2. QED
    BY <1>0, <1>1, <2>1, UpdateSound DEF Sound, Exact
<1>2. CASE u.rx # 0
  <2>1. u.rx \in 1 .. Depth /\ u.rx - 1 \in 0 .. Depth /\ Shifted(u.buf, u.rx) \in [1 .. Depth -> Bytes]
    BY <1>0, <1>2, ShiftedType
  <2>2. v = [u EXCEPT !.buf = Shifted(u.buf, u.rx), !.rx = @ - 1,
                      !.lsr = IF u.rx = 1 THEN @ \ {"DR"} ELSE @]
    BY <1>2 DEF Popped
  <2>3. /\ v \in Uarts /\ v.rx = u.rx - 1 /\ v.tx = u.tx /\ v.buf = Shifted(u.buf, u.rx)
        /\ v.lsr = IF u.rx = 1 THEN u.lsr \ {"DR"} ELSE u.lsr
    BY <1>0, <2>1, <2>2 DEF Uarts
  <2> HIDE DEF v
  <2>4. /\ v.rx > 0 => "DR" \in v.lsr
        /\ "DR" \in v.lsr => v.rx > 0
        /\ "THRE" \in u.lsr => "THRE" \in v.lsr
        /\ "TFE" \in u.lsr => "TFE" \in v.lsr
        /\ Len(v.tx) = Depth => "THRE" \notin v.lsr
        /\ v.tx # <<>> => "TFE" \notin v.lsr
    BY <1>0, <2>1, <2>3 DEF Sound
  <2>5. QED
    BY <2>3, <2>4, UpdateSound DEF v, Exact
<1>3. QED
  BY <1>1, <1>2

LEMMA QueuedSound ==
  ASSUME NEW u, Sound(u), NEW b \in Bytes
  PROVE  /\ Sound(Queued(u, b))
         /\ Exact(u) => Exact(Queued(u, b))
         /\ Queued(u, b).rx = u.rx /\ Queued(u, b).buf = u.buf
         /\ Queued(u, b).lsr \subseteq u.lsr
         /\ "DR" \in u.lsr => "DR" \in Queued(u, b).lsr
         /\ Len(u.tx) < Depth => Queued(u, b).tx = Append(u.tx, b)
<1> DEFINE kept == IF Len(u.tx) = Depth THEN Tail(u.tx) ELSE u.tx
           tx == Append(kept, b)
           v == Queued(u, b)
<1>0. /\ u \in Uarts /\ u.tx \in Seq(Bytes) /\ Len(u.tx) \in 0 .. Depth
      /\ Depth \in Nat /\ Depth > 0
  BY UartAssumption, FifosAreSequences DEF Sound, Uarts
<1>1. kept \in Seq(Bytes) /\ Len(kept) \in 0 .. (Depth - 1)
  <2>1. CASE Len(u.tx) = Depth
    <3>1. u.tx # <<>>
      BY <1>0, <2>1, EmptySeq
    <3>2. Tail(u.tx) \in Seq(Bytes) /\ Len(Tail(u.tx)) = Len(u.tx) - 1
      BY <1>0, <3>1, HeadTailProperties
    <3>3. QED
      BY <1>0, <2>1, <3>2
  <2>2. CASE Len(u.tx) # Depth
    BY <1>0, <2>2
  <2>3. QED
    BY <2>1, <2>2
<1> HIDE DEF kept
<1>2. tx \in Seq(Bytes) /\ Len(tx) = Len(kept) + 1
  BY <1>1
<1>3. tx \in Fifos
  <2>1. Len(tx) <= Depth
    BY <1>0, <1>1, <1>2
  <2>2. QED
    BY <1>2, <2>1, FifosAreSequences
<1>4. v = [u EXCEPT !.tx = tx, !.lsr = @ \ (IF Len(tx) = Depth THEN {"TFE", "THRE"} ELSE {"TFE"})]
  BY DEF Queued, kept
<1> HIDE DEF tx
<1>5. /\ v \in Uarts /\ v.tx = tx /\ v.rx = u.rx /\ v.buf = u.buf /\ v.rdi = u.rdi /\ v.itl = u.itl
      /\ v.lsr = u.lsr \ (IF Len(tx) = Depth THEN {"TFE", "THRE"} ELSE {"TFE"})
  BY <1>0, <1>3, <1>4 DEF Uarts
<1> HIDE DEF v
<1>6. /\ "DR" \in v.lsr <=> "DR" \in u.lsr
      /\ "TFE" \notin v.lsr
      /\ Len(tx) = Depth => "THRE" \notin v.lsr
      /\ v.lsr \subseteq u.lsr
  BY <1>5
<1>7. Sound(v)
  BY <1>5, <1>6 DEF Sound
<1>8. Exact(u) => Exact(v)
  <2>1. tx # <<>>
    BY <1>0, <1>1, <1>2, EmptySeq
  <2>2. ASSUME Exact(u), Len(tx) < Depth
        PROVE  "THRE" \in v.lsr
    <3>1. Len(u.tx) < Depth
      BY <1>0, <1>2, <2>2 DEF kept
    <3>2. QED
      BY <1>5, <2>2, <3>1 DEF Exact
  <2>3. QED
    BY <1>5, <1>6, <2>1, <2>2 DEF Exact
<1>9. Len(u.tx) < Depth => v.tx = Append(u.tx, b)
  BY <1>0, <1>5 DEF tx, kept
<1>10. QED
  BY <1>5, <1>6, <1>7, <1>8, <1>9 DEF v

LEMMA ControlledSound ==
  ASSUME NEW u, Sound(u), NEW clear \in SUBSET {"rx", "tx"}, NEW itl \in Triggers
  PROVE  /\ Sound(Controlled(u, clear, itl))
         /\ ("rx" \in clear => u.rx = 0) /\ ("tx" \in clear => u.tx = <<>>) =>
              /\ Controlled(u, clear, itl).buf = u.buf
              /\ Controlled(u, clear, itl).rx = u.rx
              /\ Controlled(u, clear, itl).tx = u.tx
              /\ Controlled(u, clear, itl).lsr = u.lsr
<1> DEFINE rx == IF "rx" \in clear THEN 0 ELSE u.rx
           tx == IF "tx" \in clear THEN <<>> ELSE u.tx
           v == [u EXCEPT !.rx = rx, !.tx = tx, !.itl = itl]
<1>0. /\ u \in Uarts /\ Depth \in Nat /\ Depth > 0 /\ u.rx \in 0 .. Depth
      /\ <<>> \in Fifos /\ Len(<<>>) = 0
  BY UartAssumption, EmptyFifo DEF Sound, Uarts
<1>1. rx \in 0 .. Depth /\ (rx = 0 \/ rx = u.rx)
  BY <1>0
<1>2. tx \in Fifos /\ (tx = <<>> \/ tx = u.tx)
  <2>1. u.tx \in Fifos
    BY <1>0 DEF Uarts
  <2>2. QED
    BY <1>0, <2>1, Zenon
<1>3. ("rx" \in clear => u.rx = 0) /\ ("tx" \in clear => u.tx = <<>>) => rx = u.rx /\ tx = u.tx
  BY Zenon
<1>4. Controlled(u, clear, itl) = UpdateInterrupt(v)
  BY Zenon DEF Controlled
<1> HIDE DEF rx, tx
<1>5. /\ v \in Uarts /\ v.lsr = u.lsr /\ v.buf = u.buf
      /\ v.rx = rx
      /\ v.tx = tx
  BY <1>0, <1>1, <1>2 DEF Uarts
<1> HIDE DEF v
<1>6. /\ v.rx > 0 => "DR" \in v.lsr
      /\ Len(v.tx) = Depth => "THRE" \notin v.lsr
      /\ v.tx # <<>> => "TFE" \notin v.lsr
  BY <1>0, <1>1, <1>2, <1>5 DEF Sound
<1>7. QED
  BY <1>5, <1>4, <1>6, <1>3, UpdateSound

(* What the terminal hands in, as the abstract wire has it *)
LEMMA ExchangedSound ==
  ASSUME NEW u, Sound(u), NEW bytes \in Fifos
  PROVE  LET v == Exchanged(u, bytes)
             old == Front(u.buf, u.rx)
         IN /\ Sound(v)
            /\ Exact(u) => Exact(v)
            /\ v.tx = <<>>
            /\ v.rx >= u.rx
            /\ Front(v.buf, v.rx) =
                 old \o (IF Len(bytes) <= Depth - Len(old) THEN bytes
                         ELSE SubSeq(bytes, 1, Depth - Len(old)))
<1> DEFINE n == IF Len(bytes) <= Depth - u.rx THEN Len(bytes) ELSE Depth - u.rx
           buf == Filled(u.buf, u.rx, bytes, n)
           lsr == u.lsr \cup {"THRE", "TFE"} \cup (IF u.rx + n > 0 THEN {"DR"} ELSE {})
           w == [u EXCEPT !.buf = buf, !.rx = @ + n, !.tx = <<>>, !.lsr = lsr]
           v == Exchanged(u, bytes)
           old == Front(u.buf, u.rx)
<1>0. /\ u \in Uarts /\ u.buf \in [1 .. Depth -> Bytes] /\ u.rx \in 0 .. Depth
      /\ Depth \in Nat /\ Depth > 0
      /\ bytes \in Seq(Bytes) /\ Len(bytes) \in Nat
  BY UartAssumption, FifosAreSequences DEF Sound, Uarts
<1>1. <<>> \in Fifos /\ Len(<<>>) = 0
  BY EmptyFifo
<1>2. n \in 0 .. Len(bytes) /\ u.rx + n \in 0 .. Depth
  BY <1>0
<1> HIDE DEF n
<1>3. buf \in [1 .. Depth -> Bytes]
  BY <1>0, <1>2, FilledType
<1>4. lsr \in SUBSET LineBits
  BY <1>0 DEF Uarts, LineBits
<1>5. v = UpdateInterrupt(w)
  BY DEF Exchanged, n
<1> HIDE DEF buf, lsr, v
<1>6. w \in Uarts /\ w.buf = buf /\ w.rx = u.rx + n /\ w.tx = <<>> /\ w.lsr = lsr
  BY <1>0, <1>1, <1>2, <1>3, <1>4 DEF Uarts
<1> HIDE DEF w
<1>7. /\ "DR" \in lsr <=> "DR" \in u.lsr \/ u.rx + n > 0
      /\ "THRE" \in lsr /\ "TFE" \in lsr
  BY DEF lsr
<1>8. /\ Sound(v)
      /\ v.buf = buf /\ v.rx = u.rx + n /\ v.tx = <<>> /\ v.lsr = lsr
  <2>1. w.rx > 0 => "DR" \in w.lsr
    BY <1>6, <1>7
  <2>2. Len(w.tx) # Depth /\ w.tx = <<>>
    BY <1>0, <1>1, <1>6
  <2>3. QED
    BY <1>5, <1>6, <2>1, <2>2, UpdateSound
<1>9. Exact(u) => Exact(v)
  BY <1>0, <1>2, <1>7, <1>8 DEF Exact
<1>10. Front(buf, u.rx + n) = old \o SubSeq(bytes, 1, n)
  <2>1. u.rx + n <= Depth
    BY <1>0, <1>2
  <2>2. QED
    BY <1>0, <1>2, <2>1, FrontFilled DEF buf
<1>11. Len(old) = u.rx
  BY <1>0, FrontFacts
<1> HIDE DEF old
<1>12. SubSeq(bytes, 1, n) = IF Len(bytes) <= Depth - Len(old) THEN bytes
                             ELSE SubSeq(bytes, 1, Depth - Len(old))
  BY <1>0, <1>11, SubSeqFull DEF n
<1>13. v.rx >= u.rx
  BY <1>0, <1>2, <1>8
<1>14. QED
  BY <1>8, <1>9, <1>10, <1>12, <1>13 DEF v, old

(***************************************************************************)
(* The invariant                                                           *)
(***************************************************************************)

(* What a guest that polls has seen is still so when it acts. *)
StillSo ==
  /\ Exact(uart)
  /\ "DR" \in seen => uart.rx > 0
  /\ "THRE" \in seen => Len(uart.tx) < Depth

IInv ==
  /\ Sound(uart)
  /\ seen \subseteq LineBits
  /\ heard \in [to : {"nobody", "driver", "terminal"}, bytes : Fifos]
  /\ guest \in {"polls", "any"}
  /\ guest = "polls" => StillSo

LEMMA InitIInv == Init => IInv
<1> SUFFICES ASSUME Init PROVE IInv
  OBVIOUS
<1>1. Sound(uart) /\ Exact(uart)
  BY ResetSound DEF Init
<1>2. seen = {} /\ guest \in {"polls", "any"}
  BY DEF Init
<1>3. heard \in [to : {"nobody", "driver", "terminal"}, bytes : Fifos]
  BY EmptyFifo DEF Init, Delivery
<1>4. QED
  BY <1>1, <1>2, <1>3 DEF IInv, StillSo

LEMMA Types ==
  ASSUME IInv
  PROVE  /\ uart.buf \in [1 .. Depth -> Bytes] /\ uart.rx \in 0 .. Depth
         /\ uart.tx \in Fifos /\ uart.tx \in Seq(Bytes) /\ Len(uart.tx) \in 0 .. Depth
         /\ uart.lsr \in SUBSET LineBits
         /\ Depth \in Nat /\ Depth > 0
BY UartAssumption, FifosAreSequences DEF IInv, Sound, Uarts

(* A byte delivered to the driver is a FIFO of one. *)
LEMMA DeliveryType ==
  ASSUME NEW buf \in [1 .. Depth -> Bytes]
  PROVE  <<buf[1]>> \in Fifos
<1>1. Depth \in Nat /\ Depth >= 1 /\ buf[1] \in Bytes
  BY UartAssumption
<1>2. <<buf[1]>> \in Seq(Bytes) /\ Len(<<buf[1]>>) = 1
  BY <1>1
<1>3. QED
  BY <1>1, <1>2, FifosAreSequences

LEMMA NextIInv == IInv /\ [Next]_vars => IInv'
<1> SUFFICES ASSUME IInv, [Next]_vars PROVE IInv'
  OBVIOUS
<1>0. /\ Sound(uart) /\ seen \subseteq LineBits /\ guest \in {"polls", "any"}
      /\ heard \in [to : {"nobody", "driver", "terminal"}, bytes : Fifos]
      /\ guest = "polls" => /\ Exact(uart)
                            /\ "DR" \in seen => uart.rx > 0
                            /\ "THRE" \in seen => Len(uart.tx) < Depth
  BY DEF IInv, StillSo
<1>1. CASE ReadLsr
  <2>1. /\ "DR" \in uart.lsr /\ guest = "polls" => uart.rx > 0
        /\ "THRE" \in uart.lsr => Len(uart.tx) < Depth
    BY <1>0, Types DEF Sound, Exact
  <2>2. QED
    BY <1>0, <1>1, <2>1, Types DEF ReadLsr, IInv, StillSo
<1>2. CASE ReadRbr
  <2>1. Sound(uart') /\ (guest = "polls" => Exact(uart'))
    BY <1>0, <1>2, PoppedSound DEF ReadRbr
  <2>2. heard' \in [to : {"nobody", "driver", "terminal"}, bytes : Fifos]
    BY <1>2, Types, DeliveryType DEF ReadRbr, Delivery
  <2>3. QED
    BY <1>0, <1>2, <2>1, <2>2 DEF ReadRbr, IInv, StillSo
<1>3. ASSUME NEW b \in Bytes, WriteThr(b)
      PROVE  IInv'
  <2>1. Sound(uart') /\ (guest = "polls" => Exact(uart'))
    BY <1>0, <1>3, QueuedSound DEF WriteThr
  <2>2. QED
    BY <1>0, <1>3, <2>1 DEF WriteThr, IInv, StillSo
<1>4. ASSUME NEW clear \in SUBSET {"rx", "tx"}, NEW itl \in Triggers, WriteFcr(clear, itl)
      PROVE  IInv'
  <2>1. Sound(uart')
    BY <1>0, <1>4, ControlledSound DEF WriteFcr
  <2>2. guest = "polls" => uart'.rx = uart.rx /\ uart'.tx = uart.tx /\ uart'.lsr = uart.lsr
    BY <1>0, <1>4, ControlledSound DEF WriteFcr
  <2>3. QED
    BY <1>0, <1>4, <2>1, <2>2 DEF WriteFcr, IInv, StillSo, Exact
<1>5. CASE WriteIer
  <2>1. Sound(uart') /\ uart'.rx = uart.rx /\ uart'.tx = uart.tx /\ uart'.lsr = uart.lsr
    BY <1>0, <1>5, UpdateSound DEF WriteIer, Sound
  <2>2. QED
    BY <1>0, <1>5, <2>1 DEF WriteIer, IInv, StillSo, Exact
<1>6. ASSUME NEW dlab \in BOOLEAN, WriteLcr(dlab)
      PROVE  IInv'
  <2>1. Sound(uart') /\ uart'.rx = uart.rx /\ uart'.tx = uart.tx /\ uart'.lsr = uart.lsr
    BY <1>0, <1>6 DEF WriteLcr, Sound, Uarts
  <2>2. QED
    BY <1>0, <1>6, <2>1 DEF WriteLcr, IInv, StillSo, Exact
<1>7. ASSUME NEW half \in {"dll", "dlh"}, NEW zero \in BOOLEAN, WriteDivisor(half, zero)
      PROVE  IInv'
  <2>1. Sound(uart') /\ uart'.rx = uart.rx /\ uart'.tx = uart.tx /\ uart'.lsr = uart.lsr
    BY <1>0, <1>7 DEF WriteDivisor, Sound, Uarts
  <2>2. QED
    BY <1>0, <1>7, <2>1 DEF WriteDivisor, IInv, StillSo, Exact
<1>8. CASE Reset
  BY <1>0, <1>8, ResetSound DEF Reset, IInv
<1>9. ASSUME NEW bytes \in Fifos, PushAndRead(bytes)
      PROVE  IInv'
  <2>1. /\ Sound(uart') /\ (guest = "polls" => Exact(uart'))
        /\ uart'.tx = <<>> /\ uart'.rx >= uart.rx
    BY <1>0, <1>9, ExchangedSound DEF PushAndRead
  <2>2. heard' \in [to : {"nobody", "driver", "terminal"}, bytes : Fifos]
    BY <1>9, Types DEF PushAndRead, Delivery
  <2>3. Len(uart'.tx) < Depth
    BY <2>1, EmptyFifo, Types
  <2>4. uart'.rx \in Int /\ uart.rx \in Int
    BY <2>1, Types DEF Sound, Uarts
  <2>5. QED
    BY <1>0, <1>9, <2>1, <2>2, <2>3, <2>4 DEF PushAndRead, IInv, StillSo
<1>10. CASE UNCHANGED vars
  BY <1>10 DEF vars, IInv, StillSo
<1>11. QED
  BY <1>1, <1>2, <1>3, <1>4, <1>5, <1>6, <1>7, <1>8, <1>9, <1>10 DEF Next

LEMMA SpecIInv == Spec => []IInv
BY InitIInv, NextIInv, PTL DEF Spec

LEMMA IInvImplies == IInv => TypeOK /\ StatusCurrent
BY DEF IInv, Sound, TypeOK, StatusCurrent, NothingHidden, InterruptStands, StillSo, Exact,
       NothingPromised

(* The FIFOs never hold more than they can, and the registers keep their   *)
(* types (write_thr, push_and_read).                                       *)
THEOREM TypeCorrect == Spec => []TypeOK
BY SpecIInv, IInvImplies, PTL

(* Whatever the guest and the terminal do, the line status hides nothing   *)
(* from a driver that waits for it, and the interrupt that iir shows is as *)
(* the line status has it; to a guest that polls, and clears no FIFO that  *)
(* holds something, the line status promises nothing that is not there     *)
(* either (read_rbr, write_thr, push_and_read, update_interrupt).          *)
THEOREM StatusCorrect == Spec => []StatusCurrent
BY SpecIInv, IInvImplies, PTL

(***************************************************************************)
(* The wire                                                                *)
(***************************************************************************)

LEMMA InitOnWire == Init => Wire!Init
<1> SUFFICES ASSUME Init PROVE Wire!Init
  OBVIOUS
<1>1. uart.rx = 0 /\ uart.tx = <<>> /\ uart.buf \in [1 .. Depth -> Bytes]
  BY UartAssumption DEF Init, ResetState
<1>2. 0 \in 0 .. Depth
  BY UartAssumption
<1>3. Front(uart.buf, 0) \in Seq(Bytes) /\ Len(Front(uart.buf, 0)) = 0
  BY <1>1, <1>2, FrontFacts
<1>4. Front(uart.buf, 0) = <<>>
  BY <1>3, EmptySeq
<1>5. Front(uart.buf, uart.rx) = <<>>
  BY <1>1, <1>4
<1>6. QED
  BY <1>1, <1>5, Zenon DEF Init, Wire!Init, Wire!Delivery, Delivery, Front

(* Each step of a guest that polls, or of the terminal, is one of the wire. *)
LEMMA StepOnWire ==
  ASSUME IInv, [Next]_vars, guest = "polls"
  PROVE  [Wire!Next]_(Wire!vars)
<1> DEFINE input == Front(uart.buf, uart.rx)
           quiet == uart'.buf = uart.buf /\ uart'.rx = uart.rx /\ uart'.tx = uart.tx /\ heard' = heard
<1>0. /\ Sound(uart) /\ Exact(uart)
      /\ "DR" \in seen => uart.rx > 0
      /\ "THRE" \in seen => Len(uart.tx) < Depth
  BY DEF IInv, StillSo
<1>1. ASSUME quiet
      PROVE  UNCHANGED Wire!vars
  BY <1>1 DEF Wire!vars
<1>2. CASE ReadRbr
  <2>1. uart.rx > 0 /\ uart.rx \in 1 .. Depth
    BY <1>0, <1>2, Types DEF ReadRbr
  <2>2. /\ uart'.tx = uart.tx /\ uart'.rx = uart.rx - 1
        /\ uart'.buf = Shifted(uart.buf, uart.rx)
    BY <1>0, <1>2, <2>1, PoppedSound DEF ReadRbr
  <2>3. heard' = Delivery("driver", <<uart.buf[1]>>)
    BY <1>2 DEF ReadRbr
  <2>4. /\ input # <<>>
        /\ Head(input) = uart.buf[1]
        /\ Front(uart'.buf, uart'.rx) = Tail(input)
    BY <2>1, <2>2, Types, FrontShifted
  <2>5. Wire!Receive
    BY <2>2, <2>3, <2>4, Zenon DEF Wire!Receive, Wire!Delivery, Delivery, Front
  <2>6. QED
    BY <2>5 DEF Wire!Next
<1>3. ASSUME NEW b \in Bytes, WriteThr(b)
      PROVE  Wire!Next
  <2>1. Len(uart.tx) < Depth
    BY <1>0, <1>3 DEF WriteThr
  <2>2. /\ uart'.rx = uart.rx /\ uart'.buf = uart.buf
        /\ uart'.tx = Append(uart.tx, b) /\ heard' = heard
    BY <1>0, <1>3, <2>1, QueuedSound DEF WriteThr
  <2>3. Wire!Send(b)
    BY <2>1, <2>2 DEF Wire!Send
  <2>4. QED
    BY <2>3 DEF Wire!Next
<1>4. ASSUME NEW bytes \in Fifos, PushAndRead(bytes)
      PROVE  Wire!Next
  <2>1. /\ uart'.tx = <<>>
        /\ Front(uart'.buf, uart'.rx) =
             input \o (IF Len(bytes) <= Depth - Len(input) THEN bytes
                       ELSE SubSeq(bytes, 1, Depth - Len(input)))
    BY <1>0, <1>4, ExchangedSound DEF PushAndRead
  <2>2. heard' = Delivery("terminal", uart.tx)
    BY <1>4 DEF PushAndRead
  <2>3. Wire!Exchange(bytes)
    BY <2>1, <2>2, Zenon DEF Wire!Exchange, Wire!Taken, Wire!Delivery, Delivery, Front
  <2>4. bytes \in Wire!Batches
    BY DEF Wire!Batches, Fifos
  <2>5. QED
    BY <2>3, <2>4 DEF Wire!Next
<1>5. CASE ReadLsr
  BY <1>1, <1>5 DEF ReadLsr
<1>6. ASSUME NEW clear \in SUBSET {"rx", "tx"}, NEW itl \in Triggers, WriteFcr(clear, itl)
      PROVE  quiet
  BY <1>0, <1>6, ControlledSound DEF WriteFcr
<1>7. CASE WriteIer
  <2>1. quiet
    BY <1>0, <1>7, UpdateSound DEF WriteIer, Sound
  <2>2. QED
    BY <1>1, <2>1
<1>8. ASSUME NEW dlab \in BOOLEAN, WriteLcr(dlab)
      PROVE  quiet
  BY <1>0, <1>8 DEF WriteLcr, Sound, Uarts
<1>9. ASSUME NEW half \in {"dll", "dlh"}, NEW zero \in BOOLEAN, WriteDivisor(half, zero)
      PROVE  quiet
  BY <1>0, <1>9 DEF WriteDivisor, Sound, Uarts
<1>10. CASE Reset
  BY <1>10 DEF Reset
<1>11. CASE UNCHANGED vars
  BY <1>1, <1>11 DEF vars
<1> HIDE DEF quiet
<1>12. QED
  BY <1>1, <1>2, <1>3, <1>4, <1>5, <1>6, <1>7, <1>8, <1>9, <1>10, <1>11 DEF Next

(* To a guest that polls, the UART is two bounded queues that lose, double *)
(* and reorder nothing, empty at first, whenever the terminal comes        *)
(* (read_rbr, write_thr, push_and_read).                                   *)
THEOREM Refinement == Spec => Wire!Init /\ ImplementsChannels
<1>1. ASSUME IInv, [Next]_vars
      PROVE  [guest = "polls" => [Wire!Next]_(Wire!vars)]_vars
  BY <1>1, StepOnWire
<1>2. QED
  BY <1>1, SpecIInv, InitOnWire, PTL DEF Spec, ImplementsChannels
=============================================================================
