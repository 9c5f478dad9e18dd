SPECIFICATION FairSpec
CONSTANTS
  BlockSize = 4
  NumDirect = 1
  NumIndirect = 1
  Names <- MCNames
  Dot <- MCDot
  DotDot <- MCDotDot
  Inodes = {Root, i1}
  Blocks = {b1, b2, b3}
  Nil = Nil
  Root = Root
  MaxReuse = 3
  Positions = {0}
  Lengths = {4}
  Slash <- MCSlash
  Period <- MCPeriod
  Letters <- MCLetters
  NameLength = 2
  PathLength = 4
  Clients <- MCClientSet
  OpenFiles = 1
  Calls <- MCCalls
INVARIANTS ClientsTypeOK LinksNeverUndercount NoDanglingName NoDescriptorLeak FreeInodesFree BlocksExclusive ParsesAll
PROPERTIES StaleForGood CallsReturn
CHECK_DEADLOCK FALSE
