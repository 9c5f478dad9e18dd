SPECIFICATION SpecLists
CONSTANTS
  Size = 3
  FirstBlock = 2
  MaxPointers = 5
INVARIANTS TypeOK FlagsAgree ExactlyFree OneBlockLost BusyInFront
PROPERTIES Refines
