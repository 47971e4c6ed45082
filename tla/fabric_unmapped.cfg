\* What BusSwitch and DummySlave promise of unmapped regions.
SPECIFICATION FairSpec
CONSTANTS
  Ports = {0, 2, 4, 7}
  Periph = {0, 2}
  DummyPort = 7
  Slow = {0}
  NoPort = none
  none = none
  a0 = a0
  a2 = a2
  a4 = a4
  a7 = a7
  Addr <- MCAddr
  Addr0 = a0
  PortOf <- MCPortOf
  Data = {0, 1}
  Data0 = 0
  ErrorData = 1
  Reg = {x5}
  Reg0 = x5
  NoResult = NoResult
PROPERTY EveryAccessCompletes
