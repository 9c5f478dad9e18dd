SPECIFICATION Spec
CONSTANTS
  Null = Null
  Inodes = {1, 4, 5}
  PerBlock = 4
  DataBlocks = {3}
  InodeCap = 2
  BlockCap = 2
  Changing = {1, 4}
PROPERTIES SyncSavesDirty
