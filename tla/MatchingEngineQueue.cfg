\* One client, queues of resting orders and no modification.
CONSTANTS
  A = A
  B = B
  C = C
  DEFAULT = DEFAULT
  XYZ = XYZ
  Client = {c1}
  Account = {A, B, C}
  Symbol = {DEFAULT}
  DefaultSymbol = DEFAULT
  Requests <- QueueRequests
  Amendments = {}
  MaxDepthLevels = 2
  MaxOrders = 4
  MaxArrivals = 0
SPECIFICATION Spec
INVARIANTS
  BookUncrossed
  OverfillBounded
PROPERTIES
  ImplementsExchange
