\* Two clients: their calls race.
CONSTANTS
  A = A
  B = B
  C = C
  DEFAULT = DEFAULT
  XYZ = XYZ
  Client = {c1, c2}
  Account = {A, B}
  Symbol = {DEFAULT, XYZ}
  DefaultSymbol = DEFAULT
  Requests <- RacingRequests
  Amendments <- RacingAmendments
  MaxDepthLevels = 2
  MaxOrders = 3
  MaxArrivals = 2
SPECIFICATION Spec
INVARIANTS
  TypeOK
  FillsConserved
  OnePlacePerOrder
  IInv
