\* Two orders, so that an account has none, one or both.
CONSTANTS
  Account = {A, B}
  OrderId = {1, 2}
  NoMap = NoMap
  TrackSelfTrade = TRUE
  Quantity = {1}
  Amount = {0, 2}
SPECIFICATION Spec
INVARIANTS
  TypeOK
  RestingRegistered
PROPERTIES
  StaleByClearOnly
