CONSTANTS
  a1 = a1
  a2 = a2
  h1 = h1
  k1 = k1
  k2 = k2
  Addr <- MCAddr
  Hash <- MCHash
  Keys <- MCKeys
  EmptyHash = EmptyHash
  NoCode = NoCode
  None = None
  Vals = {1}
  Data = {0, 1}
  MaxAcctId = 2
  MaxCodeId = 1
  MaxSteps = 2
  MaxQueue = 2

SPECIFICATION Spec
INVARIANT TypeOK
INVARIANT CodeRefCount
INVARIANT ZeroRefQueued
PROPERTY GcBudget
