SPECIFICATION StorageSpec
CONSTANTS
  Item = {"a", "b"}
  MaxSlots = 4
INVARIANT StorageSound
PROPERTY IsSlotMap
