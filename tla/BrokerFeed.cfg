SPECIFICATION Spec
CONSTANTS
  SymbolID = 1
  OtherSymbol = 2
  TickNum = 1
  TickDen = 1
  MaxDriftNum = 0
  MaxDriftDen = 1
  Quote <- MCQuote
  Quantity = {1, 2}
  MaxMessages = 4
  MaxOrders = 2
  MaxFaults = 2
INVARIANTS TypeOK RealOrdersFollow SnapshotLevelsKept NeverOverstates VerdictRight
PROPERTIES ChangesCounted DamagedIgnored
CHECK_DEADLOCK FALSE
