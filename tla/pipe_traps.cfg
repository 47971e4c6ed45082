\* Programs that take interrupts and call the handler.
SPECIFICATION Spec
CONSTANTS
  Words = 12
  Regs = {0, 1, 2}
  LinkRegs = {1}
  BtbEntries = 2
  RasDepth = 2
  IbtbEntries = 2
  Hashes = 2
  Programs <- TrapPrograms
  Interrupts = {FALSE, TRUE}
PROPERTY ExecutesSequentially
