SPECIFICATION Spec
CONSTANTS
  Null = Null
  Inodes = {1, 4, 8}
  PerBlock = 4
  DataBlocks = {4}
  InodeCap = 2
  BlockCap = 3
  Changing = {1, 4}
INVARIANTS TypeOK Linked Coherent Recoverable
PROPERTIES SyncWrites InodeOrder
