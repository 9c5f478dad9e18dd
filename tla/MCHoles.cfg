SPECIFICATION Spec
CONSTANTS
  BlockSize = 3
  NumDirect = 1
  NumIndirect = 2
  Names = {n1}
  Dot = Dot
  DotDot = DotDot
  Inodes = {Root, i1}
  Blocks = {b1, b2, b3, b4, b5}
  Nil = Nil
  Root = Root
  MaxReuse = 2
  Positions = {0, 3}
  Lengths = {1}
SYMMETRY BlockSymmetry
INVARIANTS HolesAreZero
CHECK_DEADLOCK FALSE
