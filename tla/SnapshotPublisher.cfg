SPECIFICATION Spec
CONSTANTS
  MaxUpdates = 2
  MaxSubscribers = 3
  MaxSnapshots = 3
  MaxNested = 3
INVARIANTS TypeOK ReturnedReachedAll EarlierSeeMore NewerFirstWhenNested
