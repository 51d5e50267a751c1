\* One client: the calls are serialised.
CONSTANTS
  A = A
  B = B
  C = C
  DEFAULT = DEFAULT
  XYZ = XYZ
  Client = {c1}
  Account = {A, B}
  Symbol = {DEFAULT}
  DefaultSymbol = DEFAULT
  Requests <- SerialRequests
  Amendments <- SerialAmendments
  MaxDepthLevels = 1
  MaxOrders = 3
  MaxArrivals = 3
SPECIFICATION Spec
INVARIANTS
  RestingIsLive
  LiveOrdersRest
PROPERTIES
  TerminalStatusFinal
  ImplementsExchange
