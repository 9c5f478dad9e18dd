SPECIFICATION Spec
CONSTANTS
  BlockSize = 2
  NumDirect = 1
  NumIndirect = 2
  Names = {n1, n2}
  Dot = Dot
  DotDot = DotDot
  Inodes = {Root, i1}
  Blocks = {b1, b2, b3, b4, b5}
  Nil = Nil
  Root = Root
  MaxReuse = 2
  Positions = {}
  Lengths = {}
SYMMETRY Symmetry
PROPERTIES UnlinkRemovesName
CHECK_DEADLOCK FALSE
