\* The board with a memory that may delay a read.
SPECIFICATION Spec
CONSTANTS
  Ports = {0, 2, 4, 7}
  Periph = {0, 2}
  DummyPort = 7
  Slow = {0}
  NoPort = none
  none = none
  a0 = a0
  a2 = a2
  a4 = a4
  a7 = a7
  Addr <- MCAddr
  Addr0 = a0
  PortOf <- MCPortOf
  Data = {0, 1}
  Data0 = 0
  ErrorData = 1
  Reg = {x5, x6}
  Reg0 = x5
  NoResult = NoResult
INVARIANTS
  TypeOK
  RouteMatchesAddress
  OnlyTargetWakes
  StallFollowsTransaction
  ExactlyOnce
  LoadReturnsDeviceWord
PROPERTIES
  HandshakeStable
  LoadStoreIsAtomic
