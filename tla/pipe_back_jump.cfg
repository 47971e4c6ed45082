\* A loop whose back jump comes two instructions behind a load.
SPECIFICATION Spec
CONSTANTS
  Words = 4
  Regs = {0, 1, 2}
  LinkRegs = {1}
  BtbEntries = 2
  RasDepth = 2
  IbtbEntries = 2
  Hashes = 2
  Programs <- LoadBeforeBackJump
  Interrupts = {FALSE}
PROPERTY ExecutesSequentially
