SPECIFICATION Spec
CONSTANTS
  Ids = {"TRIGGER", "SAVE"}
  Args = {0, 1}
  QDepth = 4
  DropMod = 2
INVARIANTS
  TypeOK
  NoSlotRace
  RingInv
PROPERTIES
  ImplementsQueue
