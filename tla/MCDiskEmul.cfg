\* The emulated disk: pending writes, the durable index, the destructor.
SPECIFICATION Spec
CONSTANTS
  Entry = {e1}
  Dummy = dummy
  Readers = {}
  Delays = {0, 2}
  MaxIndex = 2
  MaxPack = 1
  MaxTime = 4
INVARIANTS NoWriteForgotten
PROPERTIES WritesComplete DestroyReturns
