------------------------------- MODULE MCUart -------------------------------
(***************************************************************************)
(* A small instance of Uart: FIFOs of three bytes and two trigger levels.  *)
(***************************************************************************)
EXTENDS Uart

McTriggers == {1, ResetItl}
=============================================================================
