-------------------------------- MODULE Uart --------------------------------
(***************************************************************************)
(* The board's UART (red-planet-core/src/resources/uart.rs) between the    *)
(* guest, which reads and writes its registers, and the terminal, whose    *)
(* bytes the simulation thread exchanges with push_and_read between steps. *)
(*                                                                         *)
(* A guest either does anything, or polls: before it reads a byte or sends *)
(* one it looks at the line status, as the driver of examples/demo/uart.h  *)
(* does, and it clears a FIFO only while there is nothing in it, as        *)
(* uartinit there does (uart.h:41) unless something has already been typed *)
(* when it starts.  Characters have eight bits.  The enables (IER) and the *)
(* modem registers hold no state that anything else reads.                 *)
(***************************************************************************)
EXTENDS Integers, Sequences

CONSTANTS
  Bytes,     \* the bytes
  Zero,      \* the byte that the FIFOs are filled with at reset
  Depth,     \* the length of the FIFOs (16)
  Triggers,  \* the trigger levels that the FIFO control register offers (1, 4, 8, 14)
  ResetItl   \* the trigger level at reset (14)

ASSUME UartAssumption ==
  /\ Zero \in Bytes
  /\ Depth \in Nat \ {0}
  /\ Triggers \subseteq 1 .. Depth
  /\ ResetItl \in Triggers

VARIABLES
  uart,    \* struct State
  seen,    \* what the guest has seen in the line status and not yet used
  heard,   \* history: what was delivered last, and to whom
  guest    \* what the guest is like
(***************************************************************************)
(* dlab          bit 7 of lcr: are the divisor's bytes at addresses 0, 1?  *)
(* dlr           the bytes of the divisor that are not zero                *)
(* lsr           the line status bits that the code sets                   *)
(* itl, rdi      rx_fifo_itl; is "data" the interrupt that iir shows?      *)
(* buf, rx       rx_fifo_buf, rx_fifo_len                                  *)
(* tx            tx_fifo_buf as far as tx_fifo_len                         *)
(***************************************************************************)

LineBits == {"DR", "THRE", "TFE"}

Fifos == UNION {[1 .. n -> Bytes] : n \in 0 .. Depth}

Uarts ==
  [dlab : BOOLEAN, dlr : SUBSET {"dll", "dlh"}, lsr : SUBSET LineBits,
   itl : Triggers, rdi : BOOLEAN,
   buf : [1 .. Depth -> Bytes], rx : 0 .. Depth, tx : Fifos]

Delivery(to, bytes) == [to |-> to, bytes |-> bytes]

(* State::new *)
ResetState ==
  [dlab |-> FALSE, dlr |-> {}, lsr |-> {"THRE", "TFE"}, itl |-> ResetItl, rdi |-> FALSE,
   buf |-> [i \in 1 .. Depth |-> Zero], rx |-> 0, tx |-> <<>>]

Init ==
  /\ uart = ResetState
  /\ seen = {}
  /\ heard = Delivery("nobody", <<>>)
  /\ guest \in {"polls", "any"}

-----------------------------------------------------------------------------
(* What the registers do to the state *)

(* update_interrupt; its enables are bits of the line status *)
UpdateInterrupt(u) == [u EXCEPT !.rdi = "DR" \in u.lsr /\ u.rx >= u.itl]

(* Mutant of Shifted: the last byte of the FIFO stays where it is. *)
ShiftedShort(buf, rx) == [i \in 1 .. Depth |-> IF i < rx - 1 THEN buf[i + 1] ELSE buf[i]]

Shifted(buf, rx) == [i \in 1 .. Depth |-> IF i < rx THEN buf[i + 1] ELSE buf[i]]

(* Mutant of Popped: a read takes back that data is ready. *)
PoppedClears(u) ==
  IF u.rx = 0 THEN u
  ELSE [u EXCEPT !.buf = Shifted(u.buf, u.rx), !.rx = @ - 1, !.lsr = @ \ {"DR"}]

(* read_rbr, when there is something to read *)
Popped(u) ==
  IF u.rx = 0 THEN u
  ELSE [u EXCEPT !.buf = Shifted(u.buf, u.rx), !.rx = @ - 1,
                 !.lsr = IF u.rx = 1 THEN @ \ {"DR"} ELSE @]

(* Mutant of Queued: nothing is discarded. *)
QueuedMore(u, b) == [u EXCEPT !.tx = Append(@, b), !.lsr = @ \ {"TFE"}]

(* write_thr: the oldest byte gives way if the FIFO is full *)
Queued(u, b) ==
  LET tx == Append(IF Len(u.tx) = Depth THEN Tail(u.tx) ELSE u.tx, b)
  IN [u EXCEPT !.tx = tx,
                 !.lsr = @ \ (IF Len(tx) = Depth THEN {"TFE", "THRE"} ELSE {"TFE"})]

(* write_fcr *)
Controlled(u, clear, itl) ==
  UpdateInterrupt([u EXCEPT !.rx = IF "rx" \in clear THEN 0 ELSE @,
                            !.tx = IF "tx" \in clear THEN <<>> ELSE @,
                            !.itl = itl])

(* The receiver FIFO with the first n of `bytes` after the rx it holds *)
Filled(buf, rx, bytes, n) ==
  [i \in 1 .. Depth |-> IF i - rx \in 1 .. n THEN bytes[i - rx] ELSE buf[i]]

(* push_and_read: the terminal hands in what fits and takes all output *)
Exchanged(u, bytes) ==
  LET n == IF Len(bytes) <= Depth - u.rx THEN Len(bytes) ELSE Depth - u.rx
  IN UpdateInterrupt(
       [u EXCEPT !.buf = Filled(u.buf, u.rx, bytes, n), !.rx = @ + n, !.tx = <<>>,
                 !.lsr = @ \cup {"THRE", "TFE"} \cup (IF u.rx + n > 0 THEN {"DR"} ELSE {})])

-----------------------------------------------------------------------------
(* The guest, through Bus::read and Bus::write, and the terminal *)

ReadLsr ==
  /\ seen' = uart.lsr
  /\ UNCHANGED <<uart, heard, guest>>

ReadRbr ==
  /\ ~uart.dlab
  /\ guest = "polls" => "DR" \in seen
  /\ uart' = UpdateInterrupt(Popped(uart))
  /\ heard' = Delivery("driver", <<uart.buf[1]>>)
  /\ seen' = {}
  /\ UNCHANGED guest

WriteThr(b) ==
  /\ ~uart.dlab
  /\ guest = "polls" => "THRE" \in seen
  /\ uart' = Queued(uart, b)
  /\ seen' = {}
  /\ UNCHANGED <<heard, guest>>

WriteFcr(clear, itl) ==
  /\ guest = "polls" => /\ "rx" \in clear => uart.rx = 0
                        /\ "tx" \in clear => uart.tx = <<>>
  /\ uart' = Controlled(uart, clear, itl)
  /\ UNCHANGED <<seen, heard, guest>>

WriteIer ==
  /\ ~uart.dlab
  /\ uart' = UpdateInterrupt(uart)
  /\ UNCHANGED <<seen, heard, guest>>

WriteLcr(dlab) ==
  /\ uart' = [uart EXCEPT !.dlab = dlab]
  /\ UNCHANGED <<seen, heard, guest>>

(* write_dll, write_dlh *)
WriteDivisor(half, zero) ==
  /\ uart.dlab
  /\ uart' = [uart EXCEPT !.dlr = IF zero THEN @ \ {half} ELSE @ \cup {half}]
  /\ UNCHANGED <<seen, heard, guest>>

(* Uart::reset *)
Reset ==
  /\ guest = "any"
  /\ uart' = ResetState
  /\ UNCHANGED <<seen, heard, guest>>

(* push_and_read, if the divisor is set (is_operational) *)
PushAndRead(bytes) ==
  /\ uart.dlr # {}
  /\ uart' = Exchanged(uart, bytes)
  /\ heard' = Delivery("terminal", uart.tx)
  /\ UNCHANGED <<seen, guest>>

Next ==
  \/ ReadLsr
  \/ ReadRbr
  \/ \E b \in Bytes : WriteThr(b)
  \/ \E clear \in SUBSET {"rx", "tx"}, itl \in Triggers : WriteFcr(clear, itl)
  \/ WriteIer
  \/ \E dlab \in BOOLEAN : WriteLcr(dlab)
  \/ \E half \in {"dll", "dlh"}, zero \in BOOLEAN : WriteDivisor(half, zero)
  \/ Reset
  \/ \E bytes \in Fifos : PushAndRead(bytes)

vars == <<uart, seen, heard, guest>>

Spec == Init /\ [][Next]_vars

-----------------------------------------------------------------------------
(* Properties *)

TypeOK ==
  /\ uart \in Uarts
  /\ seen \subseteq LineBits
  /\ heard \in [to : {"nobody", "driver", "terminal"}, bytes : Fifos]
  /\ guest \in {"polls", "any"}

(* The line status hides nothing from a driver that waits for it: a byte   *)
(* that arrived is announced, a full FIFO never looks as if it had room,   *)
(* a byte still to go never looks as if it were gone; whatever the driver  *)
(* and the terminal did, FIFOs cleared included (read_rbr, write_thr,      *)
(* push_and_read).                                                         *)
NothingHidden ==
  /\ uart.rx > 0 => "DR" \in uart.lsr
  /\ Len(uart.tx) = Depth => "THRE" \notin uart.lsr
  /\ uart.tx # <<>> => "TFE" \notin uart.lsr

(* And it promises nothing that is not there.                              *)
NothingPromised ==
  /\ "DR" \in uart.lsr => uart.rx > 0
  /\ Len(uart.tx) < Depth => "THRE" \in uart.lsr
  /\ uart.tx = <<>> => "TFE" \in uart.lsr

(* What the interrupt identification shows is never out of date, though it *)
(* is recomputed in some register accesses only (update_interrupt).        *)
InterruptStands == uart.rdi <=> "DR" \in uart.lsr /\ uart.rx >= uart.itl

(* The line status that the guest reads hides nothing, and to a guest that *)
(* polls it is exact, clears of empty FIFOs included.  It is not to one    *)
(* that clears a FIFO which holds something, because write_fcr leaves the  *)
(* line status alone (uart.rs:379-384): DR stays set over a receiver that  *)
(* was cleared until the next byte is read, and THRE and TFE stay low over *)
(* a transmitter that was cleared until the next exchange.  The interrupt  *)
(* identification is as the line status has it for all (read_iir).         *)
StatusCurrent ==
  /\ NothingHidden
  /\ guest = "polls" => NothingPromised
  /\ InterruptStands

Wire == INSTANCE Channels WITH
  input <- [i \in 1 .. uart.rx |-> uart.buf[i]], output <- uart.tx

(* To a guest that polls, the UART is two queues that lose, double and     *)
(* reorder nothing, though what it polled may be old when it acts: the     *)
(* terminal's exchanges come between (read_lsr, read_rbr, write_thr,       *)
(* push_and_read).                                                         *)
ImplementsChannels ==
  [][guest = "polls" => [Wire!Next]_(Wire!vars)]_vars
=============================================================================
