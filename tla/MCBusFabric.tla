----------------------------- MODULE MCBusFabric -----------------------------
(***************************************************************************)
(* The fabric on small boards.  Ports are numbered as on the real one:     *)
(* 0 memory, 2 UART, 4 a reserved region (tetris polls TIMER there), 7 the *)
(* reserved region whose wires reach the DummySlave.                       *)
(***************************************************************************)
EXTENDS BusFabric

CONSTANTS a0, a2, a4, a7, none

MCAddr   == {a0, a2, a4, a7}
MCPortOf == [a \in MCAddr |-> CASE a = a0 -> 0 [] a = a2 -> 2 [] a = a4 -> 4 [] a = a7 -> 7]
=============================================================================
