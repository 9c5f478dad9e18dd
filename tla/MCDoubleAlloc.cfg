SPECIFICATION SpecBlocks
CONSTANTS
  Size = 4
  FirstBlock = 2
  MaxPointers = 2
PROPERTIES NoDoubleAlloc
