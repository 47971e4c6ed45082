\* One of the programs that speak over a serial line or to a terminal.
SPECIFICATION TextSpec
CONSTANTS
  frequency = 5
  baudRate = 2
  DATA_BITS = 2
  FifoEntries = 4
  MaxCount = 65535
  CYCLES_PER_BIT = 3
  TX_IDLE_EXIT_THRESHOLD = 9
  CTRL_C <- CtrlC
  Keys <- TypedKeys
  MaxKeys = 5
  Slack = 1
  Printable = {" ", "mem", "memw", "perf", "reboot", "7", "0", "x"}
  LINE_BUF_SIZE = 6
  MAX_ARGS = 3
  WORD_SIZE = 1024
  HEX_DIGITS = 3
  divisors <- Tens
  Worlds <- SomeWorlds
  Written <- SomeWritten
  MAX_IOVECS = 4
  VEC_FLUSH_THRESHOLD = 3
  WRITEV_BUFFER_SIZE = 4
  WRITEV_DATA_POOL_SIZE = 6
  OUTPUT_BUFFER_SIZE = 4
  BUFFER_FLUSH_THRESHOLD = 3
  Rows = 2
  Cols = 6
  Texts <- SomeTexts
  Attrs = {"normal", "bold"}
  MaxPrints = 2
  MAX_GAP = 1
  NEAR = 1
  TILE_L1_SIZE = 2
  TILE_L2_SIZE = 4
  DIRTY_TILE_POOL_SIZE = 8
  Windows <- SomeWindows
INVARIANTS
  TextTypeOK
  EchoShowsLine
  CommandsObeyLine
  TerminalIsFaithful
  NothingLostAtExit
  ScreenShowsWindow
  CachesTellTerminal
PROPERTY
  WritesArriveInOrder
CHECK_DEADLOCK FALSE
