\* Three orders: an account has none, one inline, two or three in a map, and
\* goes back to one.
SPECIFICATION RegistrySpec
CONSTANTS
  Account = {A, B}
  OrderId = {1, 2, 3}
  NoMap = NoMap
INVARIANTS
  SetsWellFormed
  GettersAgree
PROPERTY
  ImplementsRegistry
