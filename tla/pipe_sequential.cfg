\* All programs of six families that should run as written.
SPECIFICATION Spec
CONSTANTS
  Words = 5
  Regs = {0, 1, 2}
  LinkRegs = {1}
  BtbEntries = 2
  RasDepth = 2
  IbtbEntries = 2
  Hashes = 2
  Programs <- SequentialPrograms
  Interrupts = {FALSE}
PROPERTY ExecutesSequentially
