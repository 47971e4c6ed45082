\* A branch whose immediate field names its own operand.
SPECIFICATION FairSpec
CONSTANTS
  Words = 3
  Regs = {0, 1, 2}
  LinkRegs = {1}
  BtbEntries = 2
  RasDepth = 2
  IbtbEntries = 2
  Hashes = 2
  Programs <- FieldNamesOperand
  Interrupts = {FALSE}
PROPERTY StallsEnd
