SPECIFICATION FairSpec
CONSTANTS
  Client = {c1, c2, c3}
  Symbol = {s1, s2}
  OrderId = {1}
INVARIANTS TypeOK OneBookPerSymbol SymbolIDsDistinct
PROPERTIES ImplementsSymbolBooks CallsEnd
