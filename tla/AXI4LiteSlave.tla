---------------------------- MODULE AXI4LiteSlave ----------------------------
(***************************************************************************)
(* The AXI4-Lite slave adapter every peripheral embeds (bus/AXI4Lite.scala,*)
(* class AXI4LiteSlave).  The board has one per peripheral port, so slave  *)
(* maps each port to the registers of its instance.                        *)
(*                                                                         *)
(* Clock(s, in) is the next value of the registers s of one instance after *)
(* a rising clock edge on which its input wires carry in.  A later         *)
(* assignment of the source wins over an earlier one, as in Chisel.        *)
(***************************************************************************)
CONSTANTS
  Periph, \* the ports behind which a peripheral with this adapter sits
  Addr, Data, Addr0, Data0

VARIABLE slave

SlaveStates == {"Idle", "ReadAddr", "ReadData", "WriteAddr", "WriteData", "WriteResp"}

Registers ==
  [ state: SlaveStates, addr: Addr,
    ARREADY: BOOLEAN, read: BOOLEAN, read_data: Data, RVALID: BOOLEAN,
    AWREADY: BOOLEAN, WREADY: BOOLEAN, write: BOOLEAN, write_data: Data, BVALID: BOOLEAN ]

ResetValue ==
  [ state |-> "Idle", addr |-> Addr0,
    ARREADY |-> FALSE, read |-> FALSE, read_data |-> Data0, RVALID |-> FALSE,
    AWREADY |-> FALSE, WREADY |-> FALSE, write |-> FALSE, write_data |-> Data0,
    BVALID |-> FALSE ]

TypeOK == slave \in [Periph -> Registers]

Init == slave = [p \in Periph |-> ResetValue]

\* A pending read wins over a pending write.
Idle(s, in) ==
  [s EXCEPT !.read = FALSE, !.write = FALSE,
            !.ARREADY = IF in.ARVALID THEN TRUE ELSE @,
            !.AWREADY = IF in.AWVALID /\ ~in.ARVALID THEN TRUE ELSE @,
            !.state = IF in.ARVALID THEN "ReadAddr"
                      ELSE IF in.AWVALID THEN "WriteAddr" ELSE @]

\* Variant: the address is acknowledged but not captured.
ReadAddrKeepsAddress(s, in) ==
  IF in.ARVALID /\ s.ARREADY
  THEN [s EXCEPT !.ARREADY = FALSE, !.read = TRUE, !.state = "ReadData"]
  ELSE s

ReadAddr(s, in) ==
  IF in.ARVALID /\ s.ARREADY
  THEN [s EXCEPT !.addr = in.ARADDR, !.ARREADY = FALSE, !.read = TRUE,
                 !.state = "ReadData"]
  ELSE s

\* Variant: the read strobe stays up until the adapter is back in Idle.
ReadDataHoldsStrobe(s, in) ==
  LET taken == s.RVALID /\ in.RREADY IN
  [s EXCEPT !.read_data = IF in.read_valid THEN in.read_data ELSE @,
            !.RVALID = IF taken THEN FALSE ELSE IF in.read_valid THEN TRUE ELSE @,
            !.state = IF taken THEN "Idle" ELSE @]

\* Variant: the adapter does not go back to Idle after a read.
ReadDataStays(s, in) ==
  LET taken == s.RVALID /\ in.RREADY IN
  [s EXCEPT !.read_data = IF in.read_valid THEN in.read_data ELSE @,
            !.read = IF in.read_valid THEN FALSE ELSE @,
            !.RVALID = IF taken THEN FALSE ELSE IF in.read_valid THEN TRUE ELSE @]

\* read_valid and the RVALID/RREADY handshake are independent; the latter
\* comes last in the source and decides RVALID when both are there.
ReadData(s, in) ==
  LET taken == s.RVALID /\ in.RREADY IN
  [s EXCEPT !.read_data = IF in.read_valid THEN in.read_data ELSE @,
            !.read = IF in.read_valid THEN FALSE ELSE @,
            !.RVALID = IF taken THEN FALSE ELSE IF in.read_valid THEN TRUE ELSE @,
            !.state = IF taken THEN "Idle" ELSE @]

WriteAddr(s, in) ==
  IF in.AWVALID /\ s.AWREADY
  THEN [s EXCEPT !.addr = in.AWADDR, !.AWREADY = FALSE, !.WREADY = TRUE,
                 !.state = "WriteData"]
  ELSE s

WriteData(s, in) ==
  IF in.WVALID /\ s.WREADY
  THEN [s EXCEPT !.write_data = in.WDATA, !.WREADY = FALSE, !.write = TRUE,
                 !.state = "WriteResp"]
  ELSE s

WriteResp(s, in) ==
  LET taken == s.BVALID /\ in.BREADY IN
  [s EXCEPT !.write = FALSE, !.BVALID = IF taken THEN FALSE ELSE TRUE,
            !.state = IF taken THEN "Idle" ELSE @]

Clock(s, in) ==
  CASE s.state = "Idle"      -> Idle(s, in)
    [] s.state = "ReadAddr"  -> ReadAddr(s, in)
    [] s.state = "ReadData"  -> ReadData(s, in)
    [] s.state = "WriteAddr" -> WriteAddr(s, in)
    [] s.state = "WriteData" -> WriteData(s, in)
    [] s.state = "WriteResp" -> WriteResp(s, in)

\* One clock edge of every adapter; in[p] are the input wires of port p.
Step(in) == slave' = [p \in Periph |-> Clock(slave[p], in[p])]
=============================================================================
