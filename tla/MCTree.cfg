SPECIFICATION Spec
CONSTANTS
  BlockSize = 3
  NumDirect = 1
  NumIndirect = 1
  Names = {n1, n2}
  Dot = Dot
  DotDot = DotDot
  Inodes = {Root, i1, i2, i3}
  Blocks = {b1, b2, b3, b4, b5}
  Nil = Nil
  Root = Root
  MaxReuse = 2
  Positions = {}
  Lengths = {}
SYMMETRY Symmetry
INVARIANTS Tree LinkCounts EmptyIsSmall
PROPERTIES Incarnations ImplementsNamespace
CHECK_DEADLOCK FALSE
