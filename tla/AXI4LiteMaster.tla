--------------------------- MODULE AXI4LiteMaster ---------------------------
(***************************************************************************)
(* The AXI4-Lite master of the CPU wrapper (bus/AXI4Lite.scala, class      *)
(* AXI4LiteMaster).  Every register of the class is a field of m; an       *)
(* action is what one rising clock edge does to m in one state of the FSM. *)
(*                                                                         *)
(* The parameter req holds the wires of the CPU side (read, write, address *)
(* and write_data, sampled in Idle only), ch the wires that come back from *)
(* the bus switch.  RRESP and BRESP are wired to the master but no code    *)
(* reads them, so they are not modelled; write strobes travel with the     *)
(* data and are part of the word.                                          *)
(***************************************************************************)
CONSTANTS
  Addr,   \* bus addresses
  Data,   \* bus words
  Addr0,  \* the reset value of an address register
  Data0   \* the reset value of a data register

VARIABLE m

MasterStates == {"Idle", "ReadData", "WriteData", "WriteResp"}

Registers ==
  [ state: MasterStates, addr: Addr,
    ARVALID: BOOLEAN, RREADY: BOOLEAN, read_valid: BOOLEAN, read_data: Data,
    AWVALID: BOOLEAN, WVALID: BOOLEAN, BREADY: BOOLEAN, write_valid: BOOLEAN,
    write_data: Data, write_data_accepted: BOOLEAN ]

TypeOK == m \in Registers

Init ==
  m = [ state |-> "Idle", addr |-> Addr0,
        ARVALID |-> FALSE, RREADY |-> FALSE, read_valid |-> FALSE, read_data |-> Data0,
        AWVALID |-> FALSE, WVALID |-> FALSE, BREADY |-> FALSE, write_valid |-> FALSE,
        write_data |-> Data0, write_data_accepted |-> FALSE ]

busy == m.state # "Idle"

(***************************************************************************)
(* Idle: the completion pulses of the last transaction are dropped, and a  *)
(* request starts the next one with its VALIDs raised on the same edge.    *)
(***************************************************************************)
\* Variant: enters ReadAddr, which AXI4LiteStates has but the master does not.
StartReadViaReadAddr(req) ==
  /\ m.state = "Idle"
  /\ req.read /\ ~req.write
  /\ m' = [m EXCEPT !.state = "ReadAddr", !.addr = req.address,
                    !.ARVALID = TRUE, !.RREADY = TRUE, !.read_valid = FALSE,
                    !.write_valid = FALSE, !.write_data_accepted = FALSE]

StartRead(req) ==
  /\ m.state = "Idle"
  /\ req.read /\ ~req.write
  /\ m' = [m EXCEPT !.state = "ReadData", !.addr = req.address,
                    !.ARVALID = TRUE, !.RREADY = TRUE, !.read_valid = FALSE,
                    !.write_valid = FALSE, !.write_data_accepted = FALSE]

StartWrite(req) ==
  /\ m.state = "Idle"
  /\ req.write
  /\ m' = [m EXCEPT !.state = "WriteData", !.addr = req.address,
                    !.write_data = req.write_data, !.AWVALID = TRUE, !.WVALID = TRUE,
                    !.read_valid = FALSE, !.write_valid = FALSE,
                    !.write_data_accepted = FALSE]

\* Variant: the completion pulses stay up until the next request.
RestKeepsPulses(req) ==
  /\ m.state = "Idle"
  /\ ~req.read /\ ~req.write
  /\ UNCHANGED m

Rest(req) ==
  /\ m.state = "Idle"
  /\ ~req.read /\ ~req.write
  /\ m' = [m EXCEPT !.read_valid = FALSE, !.write_valid = FALSE,
                    !.write_data_accepted = FALSE]

\* Variant: ARVALID is a one-cycle pulse, accepted or not.
ReadDataPulsesARVALID(ch) ==
  LET done == ch.RVALID /\ m.RREADY IN
  /\ m.state = "ReadData"
  /\ m' = [m EXCEPT !.ARVALID = FALSE,
                    !.read_data = IF done THEN ch.RDATA ELSE @,
                    !.RREADY = IF done THEN FALSE ELSE @,
                    !.read_valid = IF done THEN TRUE ELSE @,
                    !.state = IF done THEN "Idle" ELSE @]

\* ARVALID falls when the address is accepted; the data beat ends the read.
ReadData(ch) ==
  LET done == ch.RVALID /\ m.RREADY IN
  /\ m.state = "ReadData"
  /\ m' = [m EXCEPT !.ARVALID = IF ch.ARREADY THEN FALSE ELSE @,
                    !.read_data = IF done THEN ch.RDATA ELSE @,
                    !.RREADY = IF done THEN FALSE ELSE @,
                    !.read_valid = IF done THEN TRUE ELSE @,
                    !.state = IF done THEN "Idle" ELSE @]

\* Address and data are offered together; the data beat moves the FSM on.
WriteData(ch) ==
  LET accepted == m.WVALID /\ ch.WREADY IN
  /\ m.state = "WriteData"
  /\ m' = [m EXCEPT !.AWVALID = IF ch.AWREADY THEN FALSE ELSE @,
                    !.WVALID = IF accepted THEN FALSE ELSE @,
                    !.BREADY = IF accepted THEN TRUE ELSE @,
                    !.write_data_accepted = IF accepted THEN TRUE ELSE @,
                    !.state = IF accepted THEN "WriteResp" ELSE @]

WriteResp(ch) ==
  LET done == ch.BVALID /\ m.BREADY IN
  /\ m.state = "WriteResp"
  /\ m' = [m EXCEPT !.AWVALID = IF ch.AWREADY THEN FALSE ELSE @,
                    !.BREADY = IF done THEN FALSE ELSE @,
                    !.write_valid = IF done THEN TRUE ELSE @,
                    !.state = IF done THEN "Idle" ELSE @]

Step(req, ch) ==
  \/ StartRead(req)
  \/ StartWrite(req)
  \/ Rest(req)
  \/ ReadData(ch)
  \/ WriteData(ch)
  \/ WriteResp(ch)
=============================================================================
