SPECIFICATION FairSpec
CONSTANTS
  a = a
  b = b
  Servers = {a, b}
  Callers <- MCCallers
  Managed <- MCManaged
  ServerOf <- MCServerOf
  MaxGlobal = 2
  MaxPerServer = 1
  Stallable <- OnlyA
INVARIANTS
  SlotsConserved
  ManagedConnectionsBounded
PROPERTIES
  EveryCallReturns
  OnlyExhaustionBlocks
  SlotsImplementSemaphores
