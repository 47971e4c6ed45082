------------------------------ MODULE BusSwitch ------------------------------
(***************************************************************************)
(* The address decoder between the master and the slave ports              *)
(* (bus/BusSwitch.scala).  Requests and their READYs are routed by the     *)
(* address wire (combinational sel), responses and their READYs by the     *)
(* selection latched while the VALIDs were up (read_sel, write_sel).       *)
(***************************************************************************)
CONSTANTS
  Ports,   \* the slave ports of the switch
  NoPort,  \* an empty one-hot selection
  Addr,
  PortOf   \* PortOf[a]: the port address bits [31:29] of a select

VARIABLES bus_address, read_sel, write_sel

Selections == Ports \cup {NoPort}

TypeOK ==
  /\ read_sel \in Selections
  /\ write_sel \in Selections

Init ==
  /\ read_sel = NoPort
  /\ write_sel = NoPort

sel == PortOf[bus_address]

\* Variant: AWVALID is broadcast instead of gated by the decoder.
ToPortBroadcastsAW(p, m) ==
  [ ARVALID |-> m.ARVALID /\ sel = p, ARADDR |-> m.addr,
    RREADY  |-> m.RREADY /\ read_sel = p,
    AWVALID |-> m.AWVALID, AWADDR |-> m.addr,
    WVALID  |-> m.WVALID /\ sel = p, WDATA |-> m.write_data,
    BREADY  |-> m.BREADY /\ write_sel = p ]

\* What port p sees of the registers m of the master.
ToPort(p, m) ==
  [ ARVALID |-> m.ARVALID /\ sel = p, ARADDR |-> m.addr,
    RREADY  |-> m.RREADY /\ read_sel = p,
    AWVALID |-> m.AWVALID /\ sel = p, AWADDR |-> m.addr,
    WVALID  |-> m.WVALID /\ sel = p, WDATA |-> m.write_data,
    BREADY  |-> m.BREADY /\ write_sel = p ]

\* What the master sees, from[p] being the response wires of port p.
ToMaster(from, none) ==
  [ ARREADY |-> from[sel].ARREADY,
    RVALID  |-> read_sel # NoPort /\ from[read_sel].RVALID,
    RDATA   |-> IF read_sel = NoPort THEN none ELSE from[read_sel].RDATA,
    AWREADY |-> from[sel].AWREADY,
    WREADY  |-> from[sel].WREADY,
    BVALID  |-> write_sel # NoPort /\ from[write_sel].BVALID ]

\* A new request takes the latch before a completed one clears it.
Step(m, ch) ==
  /\ read_sel' = IF m.ARVALID THEN sel
                 ELSE IF ch.RVALID /\ m.RREADY THEN NoPort ELSE read_sel
  /\ write_sel' = IF m.AWVALID \/ m.WVALID THEN sel
                  ELSE IF ch.BVALID /\ m.BREADY THEN NoPort ELSE write_sel
=============================================================================
