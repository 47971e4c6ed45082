----------------------------- MODULE DummySlave -----------------------------
(***************************************************************************)
(* The one DummySlave of the board (peripheral/DummySlave.scala): it takes *)
(* any address at once and answers with a fixed word and DECERR.           *)
(***************************************************************************)
VARIABLE dummy

Registers == [ read_pending: BOOLEAN, write_pending: BOOLEAN, write_data_ok: BOOLEAN ]

TypeOK == dummy \in Registers

Init == dummy = [ read_pending |-> FALSE, write_pending |-> FALSE, write_data_ok |-> FALSE ]

\* The output wires.
ARREADY == ~dummy.read_pending
RVALID  == dummy.read_pending
AWREADY == ~dummy.write_pending
WREADY  == dummy.write_pending /\ ~dummy.write_data_ok
BVALID  == dummy.write_data_ok

\* The handshakes of this edge, given the input wires in.
ReadTaken(in)    == RVALID /\ in.RREADY
ResponseTaken(in) == BVALID /\ in.BREADY

Step(in) ==
  dummy' = [ read_pending  |-> (dummy.read_pending \/ (in.ARVALID /\ ARREADY))
                               /\ ~ReadTaken(in),
             write_pending |-> (dummy.write_pending \/ (in.AWVALID /\ AWREADY))
                               /\ ~ResponseTaken(in),
             write_data_ok |-> (dummy.write_data_ok
                                \/ (dummy.write_pending /\ in.WVALID /\ WREADY))
                               /\ ~ResponseTaken(in) ]
=============================================================================
