---------------------------- MODULE MCUartLoopback ----------------------------
(***************************************************************************)
(* Instances of UartLoopback.                                              *)
(***************************************************************************)
EXTENDS UartLoopback

OneByte  == {<<1, 0>>}
=============================================================================
