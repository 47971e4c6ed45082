\* Two bits a byte, three cycles a bit; the program may be one byte further
\* ahead than the FIFO holds, and no more.
SPECIFICATION FairSpec
CONSTANTS
  frequency = 5
  baudRate = 2
  DATA_BITS = 2
  FifoEntries = 4
  MaxCount = 65535
  Credit = 5
  Payloads <- Byte
INVARIANTS TypeOK BytesArriveIntact InterruptTellsFifo
PROPERTIES BytesArrive
