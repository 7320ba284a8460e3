SPECIFICATION CutSpec
CONSTANTS
  SlotCount = 2
  Pages = 1
  Ids = {1, 2, 3}
  Recs = {"r1", "r2"}
  CounterMod = 6
  MaxSeq = 4
INVARIANTS
  SaveCounterMonotonic
