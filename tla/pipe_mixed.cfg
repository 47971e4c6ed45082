\* Every order of three instructions, one of each kind.
SPECIFICATION FairSpec
CONSTANTS
  Words = 3
  Regs = {0, 1, 2}
  LinkRegs = {1}
  BtbEntries = 2
  RasDepth = 2
  IbtbEntries = 2
  Hashes = 2
  Programs <- MixedPrograms
  Interrupts = {FALSE}
INVARIANTS
  TypeOK
  OperandsAreNewest
  JumpsDecideOnNewest
  PredictorsConsistent
PROPERTY StallsEnd
