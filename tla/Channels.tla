------------------------------ MODULE Channels ------------------------------
(***************************************************************************)
(* What a serial port promises a driver that looks before it acts: two     *)
(* bounded queues of bytes, in which none is lost, doubled or reordered.   *)
(***************************************************************************)
EXTENDS Integers, Sequences

CONSTANTS
  Bytes,   \* the bytes
  Depth    \* the length of each queue

VARIABLES
  input,   \* on the way from the terminal to the driver
  output,  \* on the way from the driver to the terminal
  heard    \* what was delivered last, and to whom

Batches == UNION {[1 .. n -> Bytes] : n \in 0 .. Depth}

Delivery(to, bytes) == [to |-> to, bytes |-> bytes]

Init ==
  /\ input = <<>>
  /\ output = <<>>
  /\ heard = Delivery("nobody", <<>>)

(* The bytes of a batch that there is room for *)
Taken(bytes) ==
  IF Len(bytes) <= Depth - Len(input) THEN bytes
  ELSE SubSeq(bytes, 1, Depth - Len(input))

(* The terminal hands in what fits and takes all output. *)
Exchange(bytes) ==
  /\ input' = input \o Taken(bytes)
  /\ output' = <<>>
  /\ heard' = Delivery("terminal", output)

Receive ==
  /\ input # <<>>
  /\ input' = Tail(input)
  /\ heard' = Delivery("driver", <<Head(input)>>)
  /\ UNCHANGED output

Send(b) ==
  /\ Len(output) < Depth
  /\ output' = Append(output, b)
  /\ UNCHANGED <<input, heard>>

Next ==
  \/ \E bytes \in Batches : Exchange(bytes)
  \/ Receive
  \/ \E b \in Bytes : Send(b)

vars == <<input, output, heard>>

Spec == Init /\ [][Next]_vars
=============================================================================
