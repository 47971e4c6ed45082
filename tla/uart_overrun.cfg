\* The program sends one byte more than FIFO and receiver hold.
SPECIFICATION Spec
CONSTANTS
  frequency = 5
  baudRate = 2
  DATA_BITS = 2
  FifoEntries = 2
  MaxCount = 65535
  Credit = 4
  Payloads <- OneByte
INVARIANTS OnlySentBytes
