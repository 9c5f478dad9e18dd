SPECIFICATION Spec
CONSTANTS
  BlockSize = 2
  NumDirect = 1
  NumIndirect = 2
  Names = {n1, n2, n3, n4, n5}
  Dot = Dot
  DotDot = DotDot
  Inodes = {Root, i1}
  Blocks = {b1, b2, b3, b4, b5}
  Nil = Nil
  Root = Root
  MaxReuse = 2
  Positions = {0, 1, 2, 4, 5}
  Lengths = {0, 1, 3}
SYMMETRY BlockSymmetry
INVARIANTS TypeOK LinkCounts EmptyIsSmall BlocksExclusive FreeInodesFree
CHECK_DEADLOCK FALSE
