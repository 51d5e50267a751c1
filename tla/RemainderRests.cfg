\* What rests of a partly filled order (order_matcher.go:162)
CONSTANTS
  A = A
  B = B
  C = C
  DEFAULT = DEFAULT
  XYZ = XYZ
  Client = {c1}
  Account = {A, B}
  Symbol = {DEFAULT}
  DefaultSymbol = DEFAULT
  Requests <- SerialRequests
  Amendments <- SerialAmendments
  MaxDepthLevels = 2
  MaxOrders = 2
  MaxArrivals = 3
SPECIFICATION Spec
INVARIANT
  RemainderRests
