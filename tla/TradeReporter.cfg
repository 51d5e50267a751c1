SPECIFICATION Spec
CONSTANTS
  OrderId = {o1, o2}
  Copy = {a, b}
  OrderQty = 2
  Quantity = {1}
  Price = {1, 4}
  Remainder = {1}
  MaxInt = 7
  MaxTrades = 2
  MaxRegistered = 3
SYMMETRY IdsAndCopies
INVARIANTS TypeOK AverageWithinPrices TradesNumbered StructInSync
PROPERTIES ReplacedStructFrozen SellSideNeverAlone
