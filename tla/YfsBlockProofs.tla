--------------------------- MODULE YfsBlockProofs ---------------------------
(***************************************************************************)
(* Theorems about the blocks of the file server: no block has two owners,  *)
(* nor an owner and a place in the list of free blocks, as long as the     *)
(* server is up.                                                           *)
(*                                                                         *)
(* No operation clears a pointer that it frees, so what keeps an inode     *)
(* from using an old one is subtle: Pointers states it.  The rest is a     *)
(* matter of sets: what an inode owns after a handler it owned before or   *)
(* was popped for it, and what was pushed no inode owns any more.          *)
(***************************************************************************)
EXTENDS YfsServerProofs

-----------------------------------------------------------------------------
(* The inductive invariant.                                                *)

\* The pointers an inode uses name each another block.  Those of a file behind
\* its last block are unset if it has an indirect block by its size, and those
\* of an inode that never had one are, too.
Pointers(ino) ==
  LET count == GetBlockCount(ino.size)
  IN /\ ino.type = FREE => ino.size = 0
     /\ ino.indirect = Nil => \A k \in NumDirect .. MaxBlocks - 1 : ino.block[k] = Nil
     /\ count > NumDirect =>
          /\ ino.type = REGULAR => \A k \in count .. MaxBlocks - 1 : ino.block[k] = Nil
          /\ ino.type = DIRECTORY => ino.indirect # Nil
          /\ ino.indirect # Nil => \A k \in 0 .. count - 1 : ino.block[k] # ino.indirect
     /\ \A j, k \in 0 .. count - 1 : ino.block[j] = ino.block[k] /\ ino.block[j] # Nil => j = k

Exclusive ==
  /\ \A i, j \in Inodes : i # j => Owned(inode[i]) \cap Owned(inode[j]) = {}
  /\ \A i \in Inodes : Owned(inode[i]) \cap free_block_list = {}

BlockInv == status = "up" => (\A i \in Inodes : Pointers(inode[i])) /\ Exclusive

\* What the handlers need besides, to keep it: nothing of the tree that several
\* clients at work might lose.
Workable ==
  /\ TypeOK
  /\ \A d \in Inodes : IsDirectory(d) => Len(inode[d].entry) = inode[d].size
  /\ \A i \in free_inode_list : inode[i].type = FREE

LEMMA TreeWorkable ==
  ASSUME TreeInv
  PROVE  Workable
BY DEF TreeInv, Workable, Shape, WellFormed, FreeInodesFree, Used, TypeOK

-----------------------------------------------------------------------------
(* What the operations on an inode leave of its pointers.                  *)

LEMMA OwnedIs ==
  ASSUME NEW ino, NEW x
  PROVE  x \in Owned(ino) <=>
           /\ x # Nil
           /\ \/ \E k \in 0 .. GetBlockCount(ino.size) - 1 : ino.block[k] = x
              \/ GetBlockCount(ino.size) > NumDirect /\ x = ino.indirect
BY DEF Owned, IndirectOf

\* Pointers and Owned look at no other fields.
LEMMA SamePointers ==
  ASSUME NEW ino, NEW u, Pointers(ino), u.type = ino.type, u.size = ino.size,
         u.block = ino.block, u.indirect = ino.indirect
  PROVE  Pointers(u) /\ Owned(u) = Owned(ino)
BY DEF Pointers, Owned, IndirectOf

\* An inode of size 0 owns nothing.
LEMMA EmptyPointers ==
  ASSUME NEW ino, NEW u, Pointers(ino), u.size = 0, u.block = ino.block, u.indirect = ino.indirect
  PROVE  Pointers(u) /\ Owned(u) = {}
<1>1. GetBlockCount(0) = 0
  <2>1. GetBlockCount(0) \in Nat /\ \A n \in Nat : 0 <= BlockSize * n => GetBlockCount(0) <= n
    BY BlockCount
  <2>2. 0 <= BlockSize * 0
    BY Geometry
  <2> QED BY <2>1, <2>2
<1>2. ~(0 > NumDirect) /\ 0 .. 0 - 1 = {}
  BY Geometry
<1> QED BY <1>1, <1>2 DEF Pointers, Owned, IndirectOf

\* A new directory owns one block.
LEMMA NewDirectoryPointers ==
  ASSUME NEW ino \in InodeType, NEW u, NEW new \in Blocks, Pointers(ino), u.type = DIRECTORY,
         u.size = 2, u.block = [ino.block EXCEPT ![0] = new], u.indirect = ino.indirect
  PROVE  Pointers(u) /\ Owned(u) \subseteq {new}
<1>1. NumDirect \in Nat /\ NumDirect >= 1 /\ MaxBlocks \in Nat /\ MaxBlocks > NumDirect
  BY Geometry
<1>2. GetBlockCount(2) = 1
  <2>1. BlockSize \in Nat /\ BlockSize >= 2
    BY Geometry
  <2>2. /\ GetBlockCount(2) \in Nat
        /\ \A n \in Nat : 2 <= BlockSize * n => GetBlockCount(2) <= n
        /\ \A n \in Nat : BlockSize * n < 2 => n < GetBlockCount(2)
    BY BlockCount
  <2>3. 2 <= BlockSize * 1 /\ BlockSize * 0 < 2
    BY <2>1
  <2> QED BY <2>2, <2>3
<1>3. DOMAIN ino.block = 0 .. MaxBlocks - 1
  BY InodeFields
<1>4. u.block[0] = new /\ \A k \in NumDirect .. MaxBlocks - 1 : u.block[k] = ino.block[k]
  BY <1>1, <1>3
<1>5. 0 .. 1 - 1 = {0} /\ ~(1 > NumDirect)
  BY <1>1
<1>6. Pointers(u)
  BY <1>2, <1>4, <1>5 DEF Pointers, DIRECTORY, FREE
<1>7. ASSUME NEW x \in Owned(u) PROVE x = new
  <2>1. 0 .. GetBlockCount(u.size) - 1 = {0} /\ ~(GetBlockCount(u.size) > NumDirect)
    BY <1>2, <1>5
  <2>2. \E k \in 0 .. GetBlockCount(u.size) - 1 : u.block[k] = x
    BY <1>7, <2>1, OwnedIs
  <2> QED BY <1>4, <2>1, <2>2
<1> QED BY <1>6, <1>7

\* The blocks of a directory that grows by a block, and maybe the indirect one.
LEMMA GrownPointers ==
  ASSUME NEW ino \in InodeType, NEW r \in InodeType, Pointers(ino),
         ino.type = DIRECTORY, r.type = DIRECTORY,
         NEW b \in 0 .. MaxBlocks - 1,
         GetBlockCount(ino.size) = b, GetBlockCount(r.size) = b + 1,
         NEW x \in Blocks \ Owned(ino),
         NEW y, b = NumDirect => y \in Blocks \ Owned(ino) /\ x # y,
         r.block = [ino.block EXCEPT ![b] = x],
         r.indirect = IF b = NumDirect THEN y ELSE ino.indirect
  PROVE  /\ Pointers(r)
         /\ Owned(r) \subseteq Owned(ino) \cup {x} \cup (IF b = NumDirect THEN {y} ELSE {})
<1>1. NumDirect \in Nat /\ NumDirect >= 1 /\ MaxBlocks \in Nat /\ b \in Nat
  BY Geometry
<1>2. DIRECTORY # FREE /\ DIRECTORY # REGULAR
  BY DEF DIRECTORY, FREE, REGULAR
<1>3. DOMAIN ino.block = 0 .. MaxBlocks - 1
  BY InodeFields
<1>4. r.block[b] = x /\ \A k \in 0 .. MaxBlocks - 1 : k # b => r.block[k] = ino.block[k]
  BY <1>3
<1>5. x # Nil /\ (b = NumDirect => y # Nil)
  BY NilAssumption
<1>6. /\ ino.indirect = Nil => \A k \in NumDirect .. MaxBlocks - 1 : ino.block[k] = Nil
      /\ b > NumDirect => /\ ino.indirect # Nil
                          /\ \A k \in 0 .. b - 1 : ino.block[k] # ino.indirect
      /\ \A j, k \in 0 .. b - 1 : ino.block[j] = ino.block[k] /\ ino.block[j] # Nil => j = k
  BY <1>2 DEF Pointers
<1>7. /\ \A k \in 0 .. b - 1 : ino.block[k] # x /\ (b = NumDirect => ino.block[k] # y)
      /\ b > NumDirect => ino.indirect # x
  BY <1>5, OwnedIs
<1>8. r.indirect = Nil => \A k \in NumDirect .. MaxBlocks - 1 : r.block[k] = Nil
  <2>1. SUFFICES ASSUME r.indirect = Nil, NEW k \in NumDirect .. MaxBlocks - 1 PROVE r.block[k] = Nil
    OBVIOUS
  <2>2. ino.indirect = Nil /\ b # NumDirect
    BY <1>5, <2>1
  <2>3. b < NumDirect
    BY <1>1, <1>6, <2>2
  <2>4. k \in 0 .. MaxBlocks - 1 /\ k # b
    BY <1>1, <2>3
  <2> QED BY <1>4, <1>6, <2>2, <2>4
<1>9. b + 1 > NumDirect => r.indirect # Nil
  BY <1>1, <1>5, <1>6
<1>10. ASSUME b + 1 > NumDirect, NEW k \in 0 .. b PROVE r.block[k] # r.indirect
  <2>1. CASE k = b
    BY <1>1, <1>4, <1>7, <1>10, <2>1
  <2>2. CASE k # b
    <3>1. k \in 0 .. b - 1 /\ k \in 0 .. MaxBlocks - 1
      BY <1>1, <2>2
    <3> QED BY <1>1, <1>4, <1>6, <1>7, <1>10, <2>2, <3>1
  <2> QED BY <2>1, <2>2
<1>11. ASSUME NEW j \in 0 .. b, NEW k \in 0 .. b, r.block[j] = r.block[k], r.block[j] # Nil
       PROVE  j = k
  <2>1. \A m \in 0 .. b : m # b => m \in 0 .. b - 1 /\ m \in 0 .. MaxBlocks - 1
    BY <1>1
  <2> QED BY <1>4, <1>6, <1>7, <1>11, <2>1
<1>12. b + 1 - 1 = b
  BY <1>1
<1>13. Pointers(r)
  BY <1>2, <1>8, <1>9, <1>10, <1>11, <1>12 DEF Pointers
<1>14. ASSUME NEW z \in Owned(r)
       PROVE  z \in Owned(ino) \cup {x} \cup (IF b = NumDirect THEN {y} ELSE {})
  <2>1. z # Nil /\ ((\E k \in 0 .. b : r.block[k] = z) \/ (b + 1 > NumDirect /\ z = r.indirect))
    <3>1. 0 .. GetBlockCount(r.size) - 1 = 0 .. b /\ GetBlockCount(r.size) = b + 1
      BY <1>12
    <3> QED BY <3>1, <1>14, OwnedIs
  <2>2. CASE \E k \in 0 .. b : r.block[k] = z
    <3>1. PICK k \in 0 .. b : r.block[k] = z
      BY <2>2
    <3>2. k # b => k \in 0 .. b - 1 /\ k \in 0 .. MaxBlocks - 1
      BY <1>1
    <3> QED BY <1>4, <2>1, <3>1, <3>2, OwnedIs
  <2>3. CASE b + 1 > NumDirect /\ z = r.indirect
    <3>1. b = NumDirect \/ b > NumDirect
      BY <1>1, <2>3
    <3> QED BY <2>1, <2>3, <3>1, OwnedIs
  <2> QED BY <2>1, <2>2, <2>3
<1> QED BY <1>13, <1>14

\* A cell more takes a block more at the start of each block only.
LEMMA CellCount ==
  ASSUME NEW s \in Nat
  PROVE  /\ s % BlockSize # 0 => GetBlockCount(s + 1) = GetBlockCount(s)
         /\ s % BlockSize = 0 => /\ GetBlockCount(s) = s \div BlockSize
                                 /\ GetBlockCount(s + 1) = GetBlockCount(s) + 1
                                 /\ s = MaxDirectSize <=> GetBlockCount(s) = NumDirect
<1>1. BlockSize \in Nat /\ BlockSize >= 2 /\ NumDirect \in Nat
  BY Geometry
<1> DEFINE q == s \div BlockSize
           r == s % BlockSize
<1>2. q \in Nat /\ r \in 0 .. BlockSize - 1 /\ s = BlockSize * q + r
  BY <1>1
<1> HIDE DEF q, r
<1>3. BlockSize * q \in Nat /\ BlockSize * (q + 1) = BlockSize * q + BlockSize
  BY <1>1, <1>2
<1>4. BlockSize * q < s + 1 /\ s + 1 <= BlockSize * (q + 1)
  BY <1>1, <1>2, <1>3
<1>5. GetBlockCount(s + 1) = q + 1
  <2>1. GetBlockCount(s + 1) \in Nat /\ q < GetBlockCount(s + 1) /\ GetBlockCount(s + 1) <= q + 1
    BY <1>2, <1>4, BlockCount
  <2> QED BY <1>2, <2>1
<1>6. CASE r # 0
  <2>1. BlockSize * q < s /\ s <= BlockSize * (q + 1)
    BY <1>1, <1>2, <1>3, <1>6
  <2>2. GetBlockCount(s) \in Nat /\ q < GetBlockCount(s) /\ GetBlockCount(s) <= q + 1
    BY <1>2, <2>1, BlockCount
  <2> QED BY <1>2, <1>5, <1>6, <2>2 DEF r
<1>7. CASE r = 0
  <2>1. s = BlockSize * q
    BY <1>2, <1>3, <1>7
  <2>2. GetBlockCount(s) \in Nat /\ GetBlockCount(s) <= q /\ s <= BlockSize * GetBlockCount(s)
    BY <1>2, <2>1, BlockCount
  <2>3. GetBlockCount(s) >= q
    <3>1. SUFFICES ASSUME GetBlockCount(s) + 1 <= q PROVE FALSE
      BY <1>2, <2>2
    <3>2. BlockSize * (GetBlockCount(s) + 1) <= BlockSize * q
      BY <1>1, <1>2, <2>2, <3>1
    <3>3. BlockSize * (GetBlockCount(s) + 1) = BlockSize * GetBlockCount(s) + BlockSize
      BY <1>1, <2>2
    <3>4. BlockSize * GetBlockCount(s) \in Nat
      BY <1>1, <2>2
    <3> QED BY <1>1, <2>1, <2>2, <3>2, <3>3, <3>4
  <2>4. GetBlockCount(s) = q
    BY <1>2, <2>2, <2>3
  <2>5. BlockSize * q = BlockSize * NumDirect <=> q = NumDirect
    <3>1. q < NumDirect => BlockSize * q < BlockSize * NumDirect
      BY <1>1, <1>2
    <3>2. q > NumDirect => BlockSize * q > BlockSize * NumDirect
      BY <1>1, <1>2
    <3> HIDE DEF q
    <3>3. BlockSize * q \in Nat /\ BlockSize * NumDirect \in Nat
      BY <1>1, <1>2
    <3> QED BY <1>1, <1>2, <3>1, <3>2, <3>3
  <2> QED BY <1>5, <1>7, <2>1, <2>4, <2>5 DEF q, r, MaxDirectSize
<1> QED BY <1>6, <1>7

\* RegisterDirectory.
LEMMA RegisteredPointers ==
  ASSUME NEW ino \in InodeType, Pointers(ino), ino.type = DIRECTORY, CanRegister(ino),
         NEW inum, NEW name, NEW new \in Seq(Blocks), Len(new) = BlocksToRegister(ino),
         \A j \in 1 .. Len(new) : new[j] \notin Owned(ino),
         \A j, k \in 1 .. Len(new) : new[j] = new[k] => j = k,
         NEW r \in InodeType, r = Registered(ino, inum, name, new)
  PROVE  /\ Pointers(r)
         /\ Owned(r) \subseteq Owned(ino) \cup { new[j] : j \in 1 .. Len(new) }
<1> DEFINE n == BlocksToRegister(ino)
           b == ino.size \div BlockSize
<1>1. CASE Cleared(ino) # {}
  <2>1. r.type = ino.type /\ r.size = ino.size /\ r.block = ino.block /\ r.indirect = ino.indirect
    BY <1>1 DEF Registered, InodeType
  <2> QED BY <2>1, SamePointers
<1>2. CASE Cleared(ino) = {}
  <2>1. /\ r.type = ino.type /\ r.size = ino.size + 1
        /\ r.indirect = IF n = 2 THEN new[1] ELSE ino.indirect
        /\ r.block = [ino.block EXCEPT ![b] = IF n > 0 THEN new[n] ELSE @]
    BY <1>2 DEF Registered, InodeType
  <2>2. ino.size \in 0 .. MaxFileSize - 1 /\ ino.size \in Nat
    BY <1>2, InodeFields, Geometry DEF CanRegister
  <2>3. b \in 0 .. MaxBlocks - 1
    BY <2>2, PointerInRange
  <2>4. DOMAIN ino.block = 0 .. MaxBlocks - 1
    BY InodeFields
  <2>5. CASE ino.size % BlockSize # 0
    <3>1. n = 0
      BY <2>5 DEF BlocksToRegister
    <3>2. r.block = ino.block /\ r.indirect = ino.indirect
      BY <2>1, <2>4, <3>1, InodeFields
    <3>3. GetBlockCount(r.size) = GetBlockCount(ino.size)
      BY <2>1, <2>2, <2>5, CellCount
    <3>4. r.type = DIRECTORY /\ r.type # FREE
      BY <2>1 DEF DIRECTORY, FREE
    <3> QED BY <2>1, <3>2, <3>3, <3>4 DEF Pointers, Owned, IndirectOf
  <2>6. CASE ino.size % BlockSize = 0
    <3>1. n = IF ino.size = MaxDirectSize THEN 2 ELSE 1
      BY <1>2, <2>6 DEF BlocksToRegister
    <3>2. GetBlockCount(ino.size) = b /\ GetBlockCount(r.size) = b + 1 /\ (n = 2 <=> b = NumDirect)
      <4>1. /\ GetBlockCount(ino.size) = b /\ GetBlockCount(ino.size + 1) = b + 1
            /\ ino.size = MaxDirectSize <=> b = NumDirect
        BY <2>2, <2>6, CellCount
      <4> HIDE DEF b, n
      <4> QED BY <2>1, <3>1, <4>1
    <3> DEFINE x == new[n]
               y == new[1]
    <3>3. n \in {1, 2} /\ Len(new) = n
      BY <3>1
    <3>4. x \in Blocks \ Owned(ino) /\ y \in Blocks \ Owned(ino) /\ (n = 2 => x # y)
      BY <3>3
    <3>5. r.block = [ino.block EXCEPT ![b] = x] /\ r.indirect = IF b = NumDirect THEN y ELSE ino.indirect
      BY <2>1, <3>2, <3>3
    <3>6. r.type = DIRECTORY
      BY <2>1
    <3>7. x \in { new[j] : j \in 1 .. Len(new) } /\ y \in { new[j] : j \in 1 .. Len(new) }
      BY <3>3
    <3> HIDE DEF x, y, b, n
    <3> QED BY <2>3, <3>2, <3>4, <3>5, <3>6, <3>7, GrownPointers
  <2> QED BY <2>5, <2>6
<1> QED BY <1>1, <1>2

\* CleanDirectory.  The pointers behind the new end differ from those it keeps.
LEMMA ShrunkPointers ==
  ASSUME NEW ino \in InodeType, Pointers(ino), ino.type = DIRECTORY,
         NEW c \in InodeType, c.type = DIRECTORY, c.size <= ino.size,
         c.block = ino.block, c.indirect = ino.indirect,
         NEW u, u.size = ino.size, u.block = ino.block, u.indirect = ino.indirect,
         CleanSize(u) = c.size, NEW junk \in BOOLEAN
  PROVE  /\ Pointers(c) /\ Owned(c) \subseteq Owned(ino)
         /\ FreedByClean(u, junk) \subseteq Owned(ino) \ Owned(c)
<1> DEFINE n == GetBlockCount(ino.size)
           m == GetBlockCount(c.size)
<1>1. n \in Nat /\ m \in Nat /\ m <= n /\ NumDirect \in Nat
  <2>1. c.size \in Nat /\ ino.size \in Nat
    BY InodeFields, Geometry
  <2> QED BY <2>1, Geometry, BlockCount, BlockCountMonotonic
<1>2. DIRECTORY # FREE /\ DIRECTORY # REGULAR
  BY DEF DIRECTORY, FREE, REGULAR
<1>3. /\ ino.indirect = Nil => \A k \in NumDirect .. MaxBlocks - 1 : ino.block[k] = Nil
      /\ n > NumDirect => /\ ino.indirect # Nil
                          /\ \A k \in 0 .. n - 1 : ino.block[k] # ino.indirect
      /\ \A j, k \in 0 .. n - 1 : ino.block[j] = ino.block[k] /\ ino.block[j] # Nil => j = k
  BY <1>2 DEF Pointers
<1>4. \A k \in 0 .. m - 1 : k \in 0 .. n - 1
  BY <1>1
<1>5. m > NumDirect => n > NumDirect
  BY <1>1
<1>6. Pointers(c)
  <2> HIDE DEF n
  <2>1. /\ m > NumDirect => /\ c.indirect # Nil
                            /\ \A k \in 0 .. m - 1 : c.block[k] # c.indirect
        /\ \A j, k \in 0 .. m - 1 : c.block[j] = c.block[k] /\ c.block[j] # Nil => j = k
    BY <1>3, <1>4, <1>5
  <2> QED BY <1>2, <1>3, <2>1 DEF Pointers
<1>7. ASSUME NEW x \in Owned(c) PROVE x \in Owned(ino)
  BY <1>4, <1>5, <1>7, OwnedIs
<1>8. ASSUME NEW x \in FreedByClean(u, junk) PROVE x \in Owned(ino) /\ x \notin Owned(c)
  <2>1. /\ x # Nil
        /\ \/ \E k \in m .. n - 1 : ino.block[k] = x
           \/ NumDirect \in m .. n - 1 /\ x = ino.indirect
    BY <1>8 DEF FreedByClean
  <2>2. CASE \E k \in m .. n - 1 : ino.block[k] = x
    <3>1. PICK k \in m .. n - 1 : ino.block[k] = x
      BY <2>2
    <3>2. k \in 0 .. n - 1
      BY <1>1
    <3>3. x \in Owned(ino)
      BY <2>1, <3>1, <3>2, OwnedIs
    <3>4. \A j \in 0 .. m - 1 : j # k
      BY <1>1
    <3>5. \A j \in 0 .. m - 1 : ino.block[j] # x
      BY <1>3, <1>4, <2>1, <3>1, <3>2, <3>4
    <3>6. m > NumDirect => x # ino.indirect
      BY <1>3, <1>5, <3>1, <3>2
    <3> QED BY <3>3, <3>5, <3>6, OwnedIs
  <2>3. CASE NumDirect \in m .. n - 1 /\ x = ino.indirect
    <3>1. n > NumDirect /\ ~(m > NumDirect)
      BY <1>1, <2>3
    <3>2. \A j \in 0 .. m - 1 : ino.block[j] # x
      BY <1>3, <1>4, <2>3, <3>1
    <3> QED BY <2>1, <2>3, <3>1, <3>2, OwnedIs
  <2> QED BY <2>1, <2>2, <2>3
<1> QED BY <1>6, <1>7, <1>8

\* What WriteFile makes of a pointer.
LEMMA WrittenPointer ==
  ASSUME NEW ino \in InodeType, NEW end, NEW adds, NEW new \in [adds -> Blocks], NEW ind,
         NEW w, w = Written(ino, end, new, ind), NEW k \in 0 .. MaxBlocks - 1
  PROVE  w.block[k] = IF k \in adds THEN new[k]
                      ELSE IF ind # Nil /\ k >= NumDirect THEN Nil ELSE ino.block[k]
<1> DEFINE b == [j \in DOMAIN ino.block |->
                   IF j \in DOMAIN new THEN new[j]
                   ELSE IF ind # Nil /\ j >= NumDirect THEN Nil ELSE ino.block[j]]
           s == IF end > ino.size THEN end ELSE ino.size
           x == IF ind # Nil THEN ind ELSE ino.indirect
<1>1. w = [ino EXCEPT !.size = s, !.indirect = x, !.block = b]
  BY DEF Written
<1>2. DOMAIN ino.block = 0 .. MaxBlocks - 1 /\ DOMAIN new = adds
  BY InodeFields
<1>3. b[k] = IF k \in adds THEN new[k]
             ELSE IF ind # Nil /\ k >= NumDirect THEN Nil ELSE ino.block[k]
  BY <1>2
<1> HIDE DEF b, s, x
<1>4. w = [type |-> ino.type, nlink |-> ino.nlink, reuse |-> ino.reuse, size |-> s,
           block |-> b, indirect |-> x, entry |-> ino.entry]
  BY <1>1 DEF InodeType
<1> QED BY <1>3, <1>4

\* A write that the server carries out and that leaves it "up": the blocks new
\* and ind come from the set F.
Stored(ino, pos, size, F, new, ind) ==
  LET adds  == NewBlocks(ino, pos, size)
      holes == Holes(ino, pos, size)
  IN /\ ino.type = REGULAR /\ pos + size <= MaxFileSize
     /\ NumDirect \in adds \/ ~(GetBlockCount(ino.size) <= NumDirect /\ \E k \in adds : k > NumDirect)
     /\ ino.size >= MaxDirectSize => ino.indirect # Nil
     /\ \A k \in holes : k < NumDirect => ino.block[k] = Nil
     /\ NumDirect \in holes => ino.indirect = Nil
     /\ new \in [adds -> F] /\ (\A j, k \in adds : new[j] = new[k] => j = k)
     /\ IF NumDirect \in adds THEN ind \in F ELSE ind = Nil
     /\ \A k \in adds : new[k] # ind

\* WriteFile.  A pointer that the file begins to use is that of a new block, or
\* that of a hole and then unset, or the server is "stale".
LEMMA WrittenPointers ==
  ASSUME NEW ino \in InodeType, Pointers(ino), NEW pos \in Nat, NEW size \in Nat,
         NEW F \in SUBSET Blocks, F \cap Owned(ino) = {}, NEW new, NEW ind,
         Stored(ino, pos, size, F, new, ind),
         NEW w \in InodeType, w = Written(ino, pos + size, new, ind)
  PROVE  /\ Pointers(w)
         /\ Owned(w) \subseteq Owned(ino) \cup { new[k] : k \in NewBlocks(ino, pos, size) }
                                          \cup ({ind} \ {Nil})
<1>a. PICK adds, holes : adds = NewBlocks(ino, pos, size) /\ holes = Holes(ino, pos, size)
  OBVIOUS
<1>b. /\ ino.type = REGULAR /\ pos + size <= MaxFileSize
      /\ NumDirect \in adds \/ ~(GetBlockCount(ino.size) <= NumDirect /\ \E k \in adds : k > NumDirect)
      /\ ino.size >= MaxDirectSize => ino.indirect # Nil
      /\ \A k \in holes : k < NumDirect => ino.block[k] = Nil
      /\ NumDirect \in holes => ino.indirect = Nil
      /\ new \in [adds -> F] /\ (\A j, k \in adds : new[j] = new[k] => j = k)
      /\ NumDirect \in adds => ind \in F
      /\ NumDirect \notin adds => ind = Nil
      /\ \A k \in adds : new[k] # ind
  BY <1>a DEF Stored
<1> USE <1>b
<1> DEFINE c == GetBlockCount(ino.size)
           e == GetBlockCount(pos + size)
           first == pos \div BlockSize
<1>1. /\ NumDirect \in Nat /\ NumDirect >= 1 /\ MaxBlocks \in Nat /\ BlockSize \in Nat
      /\ ino.size \in Nat /\ pos + size \in Nat /\ first \in Nat
  <2>1. BlockSize \in Nat /\ BlockSize >= 2
    BY Geometry
  <2>2. first \in Nat
    BY <2>1
  <2> HIDE DEF first
  <2> QED BY <2>1, <2>2, InodeFields, Geometry
<1>2. c \in Nat /\ e \in Nat /\ e <= MaxBlocks /\ c <= MaxBlocks
  <2>1. pos + size \in 0 .. MaxFileSize
    BY <1>1, Geometry
  <2> QED BY <2>1, <1>1, InodeFields, BlockCountInRange
<1>3. /\ adds = { k \in first .. e - 1 : k >= c }
      /\ holes = { k \in c .. e - 1 : k < first }
  BY <1>a DEF NewBlocks, Holes
<1>4. /\ w.type = REGULAR /\ w.size = IF pos + size > ino.size THEN pos + size ELSE ino.size
      /\ w.indirect = IF ind # Nil THEN ind ELSE ino.indirect
  BY WrittenFields
<1>5. ASSUME NEW k \in 0 .. MaxBlocks - 1
      PROVE  w.block[k] = IF k \in adds THEN new[k]
                          ELSE IF ind # Nil /\ k >= NumDirect THEN Nil ELSE ino.block[k]
  <2>1. new \in [adds -> Blocks]
    OBVIOUS
  <2> QED BY <2>1, WrittenPointer
<1>6. /\ ino.indirect = Nil => \A k \in NumDirect .. MaxBlocks - 1 : ino.block[k] = Nil
      /\ c > NumDirect =>
           /\ \A k \in c .. MaxBlocks - 1 : ino.block[k] = Nil
           /\ ino.indirect # Nil => \A k \in 0 .. c - 1 : ino.block[k] # ino.indirect
      /\ \A j, k \in 0 .. c - 1 : ino.block[j] = ino.block[k] /\ ino.block[j] # Nil => j = k
  BY DEF Pointers
<1>7. (ind # Nil <=> NumDirect \in adds) /\ (ind # Nil => ind \in F)
  BY NilAssumption
<1>8. c > NumDirect => ino.indirect # Nil
  <2>1. SUFFICES ASSUME c > NumDirect PROVE ino.size >= MaxDirectSize
    OBVIOUS
  <2>2. BlockSize * NumDirect \in Nat /\ (ino.size <= BlockSize * NumDirect => c <= NumDirect)
    <3>1. \A n \in Nat : ino.size <= BlockSize * n => c <= n
      BY <1>1, BlockCount
    <3> QED BY <1>1, <3>1
  <2> QED BY <1>1, <1>2, <2>1, <2>2 DEF MaxDirectSize
<1>9. \A k \in adds : new[k] \in Blocks /\ new[k] # Nil /\ new[k] \notin Owned(ino)
  BY NilAssumption
<1> HIDE DEF c, e, first
<1>10. CASE pos + size <= ino.size
  <2>1. e <= c
    BY <1>1, <1>10, BlockCountMonotonic DEF c, e
  <2>2. adds = {}
    BY <1>2, <1>3, <2>1
  <2>3. w.size = ino.size /\ w.indirect = ino.indirect
    BY <1>1, <1>4, <1>7, <1>10, <2>2
  <2>4. w.block = ino.block
    <3>1. \A k \in 0 .. MaxBlocks - 1 : w.block[k] = ino.block[k]
      BY <1>5, <1>7, <2>2
    <3>2. /\ w.block \in [0 .. MaxBlocks - 1 -> Blocks \cup {Nil}]
          /\ ino.block \in [0 .. MaxBlocks - 1 -> Blocks \cup {Nil}]
      BY InodeFields
    <3>3. /\ w.block = [k \in 0 .. MaxBlocks - 1 |-> w.block[k]]
          /\ ino.block = [k \in 0 .. MaxBlocks - 1 |-> ino.block[k]]
      BY <3>2
    <3> QED BY <3>1, <3>3
  <2> QED BY <1>4, <2>3, <2>4, SamePointers
<1>11. CASE pos + size > ino.size
  <2>1. c <= e /\ GetBlockCount(w.size) = e
    BY <1>1, <1>4, <1>11, BlockCountMonotonic DEF c, e
  <2>2. \A k \in 0 .. e - 1 : k < c \/ k \in adds \/ k \in holes
    BY <1>1, <1>2, <1>3
  <2>3. \A k \in 0 .. e - 1 : k \in 0 .. MaxBlocks - 1
    BY <1>1, <1>2
  <2>4. NumDirect \in adds => c <= NumDirect
    BY <1>1, <1>2, <1>3
  <2>5. c <= NumDirect /\ NumDirect < e => NumDirect \in adds \/ ino.indirect = Nil
    BY <1>1, <1>2, <2>1, <2>2
  <2>6. ASSUME NEW k \in 0 .. c - 1 PROVE w.block[k] = ino.block[k]
    <3>1. k \in 0 .. MaxBlocks - 1 /\ k \notin adds
      BY <1>1, <1>2, <1>3
    <3>2. ind # Nil => k < NumDirect
      BY <1>1, <1>2, <1>7, <2>4
    <3> QED BY <1>1, <1>5, <3>1, <3>2
  <2>7. ASSUME NEW k \in holes PROVE w.block[k] = Nil
    <3>1. k \in 0 .. MaxBlocks - 1 /\ k \notin adds /\ k \in Nat /\ k >= c /\ k < e /\ k < first
      BY <1>1, <1>2, <1>3
    <3>2. CASE k < NumDirect
      BY <1>1, <1>5, <3>1, <3>2
    <3>3. CASE k >= NumDirect /\ ind = Nil /\ c > NumDirect
      BY <1>2, <1>5, <1>6, <3>1, <3>3
    <3>4. CASE k >= NumDirect /\ ind = Nil /\ c <= NumDirect
      <4>1. NumDirect \in holes
        BY <1>1, <1>2, <1>3, <3>1, <3>4
      <4> QED BY <1>5, <1>6, <3>1, <3>4, <4>1
    <3>5. CASE k >= NumDirect /\ ind # Nil
      BY <1>5, <3>1, <3>5
    <3> QED BY <1>1, <1>2, <3>1, <3>2, <3>3, <3>4, <3>5
  <2>8. ASSUME NEW k \in adds
        PROVE  w.block[k] = new[k] /\ (k >= NumDirect => w.indirect # Nil) /\ k \in 0 .. e - 1
    <3>1. k \in 0 .. e - 1 /\ k \in 0 .. MaxBlocks - 1
      BY <1>1, <1>2, <1>3
    <3>2. w.block[k] = new[k]
      BY <1>5, <3>1
    <3>3. CASE NumDirect \in adds
      BY <1>4, <1>7, <3>1, <3>2, <3>3
    <3>4. CASE NumDirect \notin adds /\ k >= NumDirect
      <4>1. k > NumDirect
        BY <1>1, <3>1, <3>4
      <4>2. c > NumDirect
        BY <1>1, <1>2, <3>4, <4>1 DEF c
      <4> QED BY <1>4, <1>7, <1>8, <3>1, <3>2, <3>4, <4>2
    <3> QED BY <3>1, <3>2, <3>3, <3>4
  <2>9. w.indirect = Nil => \A k \in NumDirect .. MaxBlocks - 1 : w.block[k] = Nil
    <3>1. SUFFICES ASSUME w.indirect = Nil, NEW k \in NumDirect .. MaxBlocks - 1 PROVE w.block[k] = Nil
      OBVIOUS
    <3>2. k \in 0 .. MaxBlocks - 1 /\ k >= NumDirect
      BY <1>1
    <3>3. k \notin adds
      BY <2>8, <3>1, <3>2
    <3>4. ino.indirect = Nil
      BY <1>4, <3>1
    <3> QED BY <1>5, <1>6, <3>2, <3>3, <3>4
  <2>10. ASSUME e > NumDirect, NEW k \in e .. MaxBlocks - 1 PROVE w.block[k] = Nil
    <3>1. k \in 0 .. MaxBlocks - 1 /\ k \in NumDirect .. MaxBlocks - 1 /\ k \notin adds /\ k >= c
      BY <1>1, <1>2, <1>3, <2>1, <2>10
    <3>2. CASE ind # Nil
      BY <1>1, <1>5, <3>1, <3>2
    <3>3. CASE c > NumDirect
      BY <1>1, <1>2, <1>5, <1>6, <3>1, <3>3
    <3>4. CASE ind = Nil /\ c <= NumDirect
      BY <1>1, <1>5, <1>6, <1>7, <2>5, <2>10, <3>1, <3>4
    <3> QED BY <1>1, <1>2, <3>2, <3>3, <3>4
  <2>11. ASSUME e > NumDirect, w.indirect # Nil, NEW k \in 0 .. e - 1 PROVE w.block[k] # w.indirect
    <3>1. CASE k < c
      <4>1. k \in 0 .. c - 1 /\ w.block[k] = ino.block[k]
        BY <1>2, <2>6, <3>1
      <4>2. CASE ind # Nil
        <5>1. w.indirect = ind /\ ind \notin Owned(ino)
          BY <1>4, <1>7, <4>2
        <5> QED BY <4>1, <4>2, <5>1, OwnedIs DEF c
      <4>3. CASE ind = Nil
        <5>1. c > NumDirect /\ w.indirect = ino.indirect
          BY <1>1, <1>2, <1>4, <1>7, <2>5, <2>11, <4>3
        <5> QED BY <1>6, <2>11, <4>1, <5>1
      <4> QED BY <4>2, <4>3
    <3>2. CASE k \in adds
      <4>1. CASE ind # Nil
        BY <1>4, <2>8, <3>2, <4>1
      <4>2. CASE ind = Nil
        <5>1. c > NumDirect /\ w.indirect = ino.indirect
          BY <1>1, <1>2, <1>4, <1>7, <2>5, <2>11, <4>2
        <5>2. w.indirect \in Owned(ino)
          BY <2>11, <5>1, OwnedIs DEF c
        <5> QED BY <1>9, <2>8, <3>2, <5>2
      <4> QED BY <4>1, <4>2
    <3>3. CASE k \in holes
      BY <2>7, <2>11, <3>3
    <3> QED BY <2>2, <3>1, <3>2, <3>3
  <2>12. ASSUME NEW k \in 0 .. e - 1, w.block[k] # Nil
         PROVE  \/ k \in 0 .. c - 1 /\ w.block[k] = ino.block[k] /\ w.block[k] \in Owned(ino)
                \/ k \in adds /\ w.block[k] = new[k] /\ w.block[k] \notin Owned(ino)
    <3>1. CASE k < c
      <4>1. k \in 0 .. c - 1 /\ w.block[k] = ino.block[k]
        BY <1>2, <2>6, <3>1
      <4> QED BY <2>12, <4>1, OwnedIs DEF c
    <3> QED BY <1>9, <2>2, <2>7, <2>8, <2>12, <3>1
  <2>13. ASSUME NEW j \in 0 .. e - 1, NEW k \in 0 .. e - 1, w.block[j] = w.block[k], w.block[j] # Nil
         PROVE  j = k
    <3>1. CASE w.block[j] \in Owned(ino)
      BY <1>6, <2>12, <2>13, <3>1
    <3>2. CASE w.block[j] \notin Owned(ino)
      BY <2>12, <2>13, <3>2
    <3> QED BY <3>1, <3>2
  <2>14. Pointers(w)
    <3>1. w.type # FREE /\ w.type # DIRECTORY
      BY <1>4 DEF FREE, DIRECTORY, REGULAR
    <3> QED BY <2>1, <2>9, <2>10, <2>11, <2>13, <3>1 DEF Pointers
  <2>15. ASSUME NEW x \in Owned(w)
         PROVE  x \in Owned(ino) \cup { new[k] : k \in adds } \cup ({ind} \ {Nil})
    <3>1. x # Nil /\ ((\E k \in 0 .. e - 1 : w.block[k] = x) \/ (e > NumDirect /\ x = w.indirect))
      BY <2>1, <2>15, OwnedIs
    <3>2. CASE \E k \in 0 .. e - 1 : w.block[k] = x
      BY <2>12, <3>1, <3>2
    <3>3. CASE e > NumDirect /\ x = w.indirect
      <4>1. CASE ind = Nil
        <5>1. c > NumDirect /\ x = ino.indirect
          BY <1>1, <1>2, <1>4, <1>7, <2>5, <3>1, <3>3, <4>1
        <5> QED BY <3>1, <5>1, OwnedIs DEF c
      <4> QED BY <1>4, <3>1, <3>3, <4>1
    <3> QED BY <3>1, <3>2, <3>3
  <2> QED BY <1>a, <2>14, <2>15
<1> QED BY <1>1, <1>10, <1>11

\* UnregisterDirectory and CleanDirectory.
LEMMA RemovedPointers ==
  ASSUME NEW ino \in InodeType, Pointers(ino), ino.type = DIRECTORY, Len(ino.entry) = ino.size,
         NEW inum \in Inodes, EntriesOf(ino, inum) # {}, NEW junk \in BOOLEAN,
         NEW u, u = Unregistered(ino, inum), NEW c, c = Cleaned(u)
  PROVE  /\ Pointers(c) /\ Owned(c) \subseteq Owned(ino)
         /\ FreedByClean(u, junk) \subseteq Owned(ino) \ Owned(c)
<1>1. u.size = ino.size /\ u.block = ino.block /\ u.indirect = ino.indirect
  <2>1. \E e : u = [ino EXCEPT !.entry = e]
    BY UnregisteredEntries
  <2> QED BY <2>1 DEF InodeType
<1>2. /\ c \in InodeType /\ c.size <= ino.size /\ c.type = DIRECTORY
      /\ c.block = ino.block /\ c.indirect = ino.indirect /\ c.size = CleanSize(u)
  BY RemovedEntries
<1> QED BY <1>1, <1>2, ShrunkPointers

-----------------------------------------------------------------------------
(* A step of the server that takes blocks for an inode, or for two, or     *)
(* gives others back.                                                      *)

LEMMA TakenBlock ==
  ASSUME Exclusive, NEW t \in Inodes, NEW taken, taken \subseteq free_block_list,
         Owned(inode'[t]) \subseteq Owned(inode[t]) \cup taken,
         \A i \in Inodes \ {t} : Owned(inode'[i]) = Owned(inode[i]),
         UpdateBlocks(taken, {})
  PROVE  Exclusive'
<1>1. free_block_list' = free_block_list \ taken
  BY DEF UpdateBlocks
<1>2. \A i \in Inodes : Owned(inode[i]) \cap free_block_list = {}
  BY DEF Exclusive
<1>3. \A i \in Inodes : Owned(inode'[i]) \cap free_block_list' = {}
  BY <1>1, <1>2
<1>4. \A i, j \in Inodes : i # j => Owned(inode'[i]) \cap Owned(inode'[j]) = {}
  BY <1>2 DEF Exclusive
<1> QED BY <1>3, <1>4 DEF Exclusive

LEMMA GivenBackByOne ==
  ASSUME Exclusive, NEW t \in Inodes, NEW given, given \subseteq Owned(inode[t]),
         Owned(inode'[t]) \subseteq Owned(inode[t]) \ given,
         \A i \in Inodes \ {t} : Owned(inode'[i]) = Owned(inode[i]),
         UpdateBlocks({}, given)
  PROVE  Exclusive'
<1>1. \A i \in Inodes : given \cap Owned(inode'[i]) = {} /\ Owned(inode'[i]) \subseteq Owned(inode[i])
  BY DEF Exclusive
<1>2. free_block_list' \subseteq free_block_list \cup given
  BY DEF UpdateBlocks
<1> QED BY <1>1, <1>2 DEF Exclusive

\* Two inodes take blocks that were popped.
LEMMA TakenBlocks ==
  ASSUME Exclusive, NEW t \in Inodes, NEW p \in Inodes, t # p, NEW A, NEW B, NEW taken,
         A \subseteq taken, B \subseteq taken, A \cap B = {}, taken \subseteq free_block_list,
         Owned(inode'[t]) \subseteq Owned(inode[t]) \cup A,
         Owned(inode'[p]) \subseteq Owned(inode[p]) \cup B,
         \A i \in Inodes \ {t, p} : Owned(inode'[i]) = Owned(inode[i]),
         UpdateBlocks(taken, {})
  PROVE  Exclusive'
<1>1. free_block_list' = free_block_list \ taken
  BY DEF UpdateBlocks
<1>2. \A i \in Inodes : Owned(inode[i]) \cap free_block_list = {}
  BY DEF Exclusive
<1>3. \A i \in Inodes : Owned(inode'[i]) \cap free_block_list' = {}
  BY <1>1, <1>2
<1>4. Owned(inode'[t]) \cap Owned(inode'[p]) = {}
  BY <1>2 DEF Exclusive
<1>5. ASSUME NEW i \in Inodes \ {t, p}
      PROVE  /\ Owned(inode'[i]) \cap Owned(inode'[t]) = {}
             /\ Owned(inode'[i]) \cap Owned(inode'[p]) = {}
             /\ \A j \in Inodes \ {t, p, i} : Owned(inode'[i]) \cap Owned(inode'[j]) = {}
  BY <1>2 DEF Exclusive
<1>6. ASSUME NEW i \in Inodes, NEW j \in Inodes, i # j
      PROVE  Owned(inode'[i]) \cap Owned(inode'[j]) = {}
  BY <1>4, <1>5, <1>6
<1> QED BY <1>3, <1>6 DEF Exclusive

\* What two inodes give back none owns any more, when the two do not.
LEMMA GivenBack ==
  ASSUME Exclusive, NEW t \in Inodes, NEW p \in Inodes, NEW given,
         given \subseteq Owned(inode[t]) \cup Owned(inode[p]), t # p,
         Owned(inode'[t]) \subseteq Owned(inode[t]), Owned(inode'[p]) \subseteq Owned(inode[p]),
         given \cap Owned(inode'[t]) = {}, given \cap Owned(inode'[p]) = {},
         \A i \in Inodes \ {t, p} : Owned(inode'[i]) = Owned(inode[i]),
         UpdateBlocks({}, given)
  PROVE  Exclusive'
<1>1. ASSUME NEW i \in Inodes PROVE given \cap Owned(inode'[i]) = {}
  BY DEF Exclusive
<1>2. \A i \in Inodes : Owned(inode'[i]) \subseteq Owned(inode[i])
  OBVIOUS
<1>3. free_block_list' \subseteq free_block_list \cup given
  BY DEF UpdateBlocks
<1>4. \A i \in Inodes : Owned(inode'[i]) \cap free_block_list' = {}
  BY <1>1, <1>2, <1>3 DEF Exclusive
<1>5. \A i, j \in Inodes : i # j => Owned(inode'[i]) \cap Owned(inode'[j]) = {}
  BY <1>2 DEF Exclusive
<1> QED BY <1>4, <1>5 DEF Exclusive

\* What a server that stopped owns does not matter.
LEMMA HaltBlocks ==
  ASSUME NEW why \in Stops, Halt(why)
  PROVE  BlockInv'
BY DEF Halt, Stops, BlockInv

LEMMA RunDryBlocks ==
  ASSUME RunDry
  PROVE  BlockInv'
BY HaltBlocks DEF RunDry, Stops

LEMMA RefuseBlocks ==
  ASSUME BlockInv, UNCHANGED vars
  PROVE  BlockInv'
BY DEF vars, BlockInv, Exclusive

\* The blocks a handler pops are distinct and free.
LEMMA DrawsFresh ==
  ASSUME TypeOK, NEW n \in Nat, NEW pops \in Draws(n)
  PROVE  /\ \A j \in 1 .. n : pops[j] \in free_block_list /\ pops[j] \in Range(pops)
         /\ \A j, k \in 1 .. n : pops[j] = pops[k] => j = k
         /\ Range(pops) \subseteq free_block_list
BY DEF Draws, IsInjective, Range

-----------------------------------------------------------------------------
(* The handlers.                                                           *)

LEMMA TruncateExistingBlocks ==
  ASSUME Workable, BlockInv, NEW p \in Inodes, NEW n, status = "up", TruncateExisting(p, n)
  PROVE  BlockInv'
<1> DEFINE t == SearchDirectory(inode[p], n)
<1>1. t \in Inodes
  <2>1. inode[p] \in InodeType /\ t # Nil
    BY DEF Workable, TypeOK, TruncateExisting
  <2>2. PICK k \in LiveIn(inode[p]) : inode[p].entry[k].inum = t
    BY <2>1, SearchResult
  <2> HIDE DEF t
  <2>3. inode[p].entry \in Seq(Entry) /\ k \in 1 .. Len(inode[p].entry)
    BY <2>1, <2>2, InodeFields DEF LiveIn
  <2>4. inode[p].entry[k] \in Entry
    BY <2>3, ElementOfSeq
  <2> QED BY <2>1, <2>2, <2>4 DEF Entry
<1>2. CASE Halt("aborted")
  BY <1>2, HaltBlocks DEF Stops
<1>3. CASE ~Halt("aborted")
  <2>1. inode' = [inode EXCEPT ![t] = Truncated(inode[t])] /\ UpdateBlocks({}, Owned(inode[t]))
    BY <1>3 DEF TruncateExisting
  <2>2. inode \in [Inodes -> InodeType]
    BY DEF Workable, TypeOK
  <2>3. (\A i \in Inodes : Pointers(inode[i])) /\ Exclusive
    BY DEF BlockInv
  <2> DEFINE c == Truncated(inode[t])
  <2>4. Pointers(c) /\ Owned(c) = {}
    <3>1. c.size = 0 /\ c.block = inode[t].block /\ c.indirect = inode[t].indirect
      BY <1>1, <2>2, TruncatedType
    <3> HIDE DEF c
    <3> QED BY <1>1, <2>3, <3>1, EmptyPointers
  <2>5. inode' = [inode EXCEPT ![t] = c]
    BY <2>1
  <2> HIDE DEF c, t
  <2>6. inode'[t] = c /\ \A i \in Inodes \ {t} : inode'[i] = inode[i]
    BY <1>1, <2>2, <2>5
  <2>7. Exclusive'
    <3>1. UpdateBlocks({}, Owned(inode[t]))
      BY <2>1 DEF t
    <3> QED BY <1>1, <2>3, <2>4, <2>6, <3>1, GivenBackByOne
  <2>8. \A i \in Inodes : Pointers(inode'[i])
    BY <2>3, <2>4, <2>6
  <2> QED BY <2>7, <2>8 DEF BlockInv
<1> QED BY <1>2, <1>3

LEMMA CreateLinkBlocks ==
  ASSUME Workable, BlockInv, NEW i \in Inodes, NEW p \in Inodes,
         NEW n \in Names \cup {Dot, DotDot}, CreateLink(i, p, n)
  PROVE  BlockInv'
<1> DEFINE need == BlocksToRegister(inode[p])
<1>1. CASE Refuse
  BY <1>1, RefuseBlocks DEF Refuse
<1>2. CASE Halt("overrun")
  BY <1>2, HaltBlocks DEF Stops
<1>3. CASE RunDry
  BY <1>3, RunDryBlocks
<1>4. ASSUME CanLink(i, p), CanRegister(inode[p]), NEW pops \in Draws(need),
             inode' = WithLink(i, p, n, pops), UpdateBlocks(Range(pops), {}), status = "up"
      PROVE  BlockInv'
  <2>1. /\ inode \in [Inodes -> InodeType] /\ inode[p].type = DIRECTORY /\ i # p
        /\ Len(inode[p].entry) = inode[p].size /\ TypeOK
    BY <1>4 DEF CanLink, Workable, TypeOK, IsDirectory, REGULAR, DIRECTORY
  <2>2. (\A j \in Inodes : Pointers(inode[j])) /\ Exclusive
    BY <1>4 DEF BlockInv
  <2> DEFINE P == Registered(inode[p], i, n, pops)
             T == [inode[i] EXCEPT !.nlink = @ + 1]
  <2>3. need \in Nat /\ pops \in Seq(Blocks) /\ Len(pops) = need
    <3>1. need \in Nat
      BY BlocksToRegisterType
    <3>2. pops \in [1 .. need -> Blocks]
      BY DEF Draws, Workable, TypeOK
    <3> HIDE DEF need
    <3> QED BY <3>1, <3>2, LenProperties
  <2>4. /\ \A j \in 1 .. Len(pops) : pops[j] \notin Owned(inode[p])
        /\ \A j, k \in 1 .. Len(pops) : pops[j] = pops[k] => j = k
        /\ { pops[j] : j \in 1 .. Len(pops) } \subseteq Range(pops)
        /\ Range(pops) \subseteq free_block_list
    <3> HIDE DEF need
    <3>1. /\ \A j \in 1 .. need : pops[j] \in free_block_list /\ pops[j] \in Range(pops)
          /\ \A j, k \in 1 .. need : pops[j] = pops[k] => j = k
          /\ Range(pops) \subseteq free_block_list
      BY <2>1, <2>3, DrawsFresh
    <3> QED BY <2>2, <2>3, <3>1 DEF Exclusive
  <2>5. inode' = [inode EXCEPT ![p] = P, ![i] = T]
    BY <1>4, <2>1 DEF WithLink
  <2>6. P \in InodeType
    BY <1>4, <2>1, <2>3, RegisteredEntries
  <2>7. Pointers(P) /\ Owned(P) \subseteq Owned(inode[p]) \cup Range(pops)
    <3>1. inode[p] \in InodeType /\ Pointers(inode[p])
      BY <2>1, <2>2
    <3>2. Pointers(P) /\ Owned(P) \subseteq Owned(inode[p]) \cup { pops[j] : j \in 1 .. Len(pops) }
      BY <1>4, <2>1, <2>3, <2>4, <2>6, <3>1, RegisteredPointers
    <3> QED BY <2>4, <3>2
  <2>8. Pointers(T) /\ Owned(T) = Owned(inode[i])
    <3>1. /\ T.type = inode[i].type /\ T.size = inode[i].size
          /\ T.block = inode[i].block /\ T.indirect = inode[i].indirect
      BY <2>1 DEF InodeType
    <3> HIDE DEF T
    <3> QED BY <2>2, <3>1, SamePointers
  <2> HIDE DEF P, T
  <2>9. inode'[p] = P /\ inode'[i] = T /\ \A j \in Inodes \ {p, i} : inode'[j] = inode[j]
    BY <2>1, <2>5
  <2>10. Exclusive'
    <3> DEFINE A == Range(pops)
    <3>1. A \subseteq free_block_list /\ UpdateBlocks(A, {}) /\ Owned(inode'[p]) \subseteq Owned(inode[p]) \cup A
      BY <1>4, <2>4, <2>7, <2>9
    <3> HIDE DEF A
    <3>2. PICK B : B = {}
      OBVIOUS
    <3>3. B \subseteq A /\ A \cap B = {} /\ Owned(inode'[i]) \subseteq Owned(inode[i]) \cup B
      BY <2>8, <2>9, <3>2
    <3>4. \A j \in Inodes \ {p, i} : Owned(inode'[j]) = Owned(inode[j])
      BY <2>9
    <3> QED BY <2>1, <2>2, <3>1, <3>3, <3>4, TakenBlocks
  <2>11. \A j \in Inodes : Pointers(inode'[j])
    BY <2>2, <2>7, <2>8, <2>9
  <2> QED BY <2>10, <2>11 DEF BlockInv
<1> QED BY <1>1, <1>2, <1>3, <1>4 DEF CreateLink

LEMMA WriteBlocks ==
  ASSUME Workable, BlockInv, NEW i \in Inodes, NEW pos \in Nat, NEW size \in Nat, NEW reuse,
         WriteFile(i, pos, size, reuse)
  PROVE  BlockInv'
<1> DEFINE adds  == NewBlocks(inode[i], pos, size)
           holes == Holes(inode[i], pos, size)
           skips == /\ NumDirect \notin adds /\ GetBlockCount(inode[i].size) <= NumDirect
                    /\ \E k \in adds : k > NumDirect
           fetch == skips \/ inode[i].size >= MaxDirectSize
<1>1. \/ Refuse \/ Halt("aborted") \/ Halt("stale") \/ RunDry
      \/ /\ ~WriteRefused(i, pos, size, reuse) /\ ~skips /\ (fetch => inode[i].indirect # Nil)
         /\ \E new \in { f \in [adds -> free_block_list] : IsInjective(f) },
               ind \in IF NumDirect \in adds THEN free_block_list ELSE {Nil} :
              ind \notin Range(new) /\ StoreFile(i, pos, size, new, ind)
  BY DEF WriteFile
<1>2. CASE Refuse
  BY <1>2, RefuseBlocks DEF Refuse
<1>3. CASE Halt("aborted") \/ Halt("stale")
  BY <1>3, HaltBlocks DEF Stops
<1>4. CASE RunDry
  BY <1>4, RunDryBlocks
<1>5. ASSUME ~WriteRefused(i, pos, size, reuse), ~skips, fetch => inode[i].indirect # Nil, ~Halt("aborted"),
             NEW new \in [adds -> free_block_list], IsInjective(new),
             NEW ind \in IF NumDirect \in adds THEN free_block_list ELSE {Nil},
             ind \notin Range(new), StoreFile(i, pos, size, new, ind), status' = "up"
      PROVE  Exclusive' /\ \A j \in Inodes : Pointers(inode'[j])
  <2> DEFINE w == Written(inode[i], pos + size, new, ind)
             A == Range(new) \cup ({ind} \ {Nil})
  <2>1. /\ inode' = [inode EXCEPT ![i] = w] /\ UpdateBlocks(A, {})
        /\ \A k \in holes : k < NumDirect => inode[i].block[k] = Nil
        /\ NumDirect \in holes => inode[i].indirect = Nil
    BY <1>5 DEF StoreFile
  <2>2. /\ inode \in [Inodes -> InodeType] /\ free_block_list \in SUBSET Blocks
        /\ pos + size \in Nat /\ pos + size <= MaxFileSize /\ inode[i].type = REGULAR
    BY <1>5, Geometry DEF WriteRefused, Workable, TypeOK
  <2>3. /\ (\A j \in Inodes : Pointers(inode[j])) /\ Exclusive
    BY DEF BlockInv, WriteFile
  <2>4. /\ \A k \in adds : new[k] \in Range(new) /\ new[k] # ind
        /\ \A j, k \in adds : new[j] = new[k] => j = k
        /\ Range(new) \subseteq free_block_list /\ { new[k] : k \in adds } = Range(new)
    <3> HIDE DEF adds
    <3> QED BY <1>5 DEF Range, IsInjective
  <2>5. A \subseteq free_block_list
    BY <2>4
  <2>6. w \in InodeType
    <3>1. ind \in Blocks \cup {Nil} /\ new \in [adds -> Blocks]
      BY <2>2
    <3>2. inode[i] \in InodeType
      BY <2>2
    <3> HIDE DEF adds
    <3> QED BY <2>2, <3>1, <3>2, WrittenType
  <2>7. Pointers(w) /\ Owned(w) \subseteq Owned(inode[i]) \cup A
    <3>1. inode[i] \in InodeType /\ Pointers(inode[i]) /\ free_block_list \cap Owned(inode[i]) = {}
      BY <2>2, <2>3 DEF Exclusive
    <3>2. NumDirect \in adds \/ ~(GetBlockCount(inode[i].size) <= NumDirect /\ \E k \in adds : k > NumDirect)
      BY <1>5
    <3>3. Stored(inode[i], pos, size, free_block_list, new, ind)
      BY <1>5, <2>1, <2>2, <2>4, <3>2 DEF Stored
    <3> HIDE DEF w
    <3>4. w = Written(inode[i], pos + size, new, ind)
      BY DEF w
    <3>5. Owned(w) \subseteq Owned(inode[i]) \cup { new[k] : k \in adds } \cup ({ind} \ {Nil}) /\ Pointers(w)
      BY <2>2, <2>6, <3>1, <3>3, <3>4, WrittenPointers
    <3> QED BY <2>4, <3>5
  <2> HIDE DEF w, A
  <2>8. inode'[i] = w /\ \A j \in Inodes \ {i} : inode'[j] = inode[j]
    BY <2>1, <2>2
  <2>9. Exclusive'
    <3>1. \A j \in Inodes \ {i} : Owned(inode'[j]) = Owned(inode[j])
      BY <2>8
    <3> QED BY <2>1, <2>3, <2>5, <2>7, <2>8, <3>1, TakenBlock
  <2> QED BY <2>3, <2>7, <2>8, <2>9
<1> QED BY <1>1, <1>2, <1>3, <1>4, <1>5 DEF BlockInv

LEMMA DeleteLinkBlocks ==
  ASSUME Workable, BlockInv, NEW i \in Inodes, NEW p \in Inodes, i # p, NEW junk \in BOOLEAN,
         DeleteLink(i, p, junk)
  PROVE  BlockInv'
<1>1. /\ inode \in [Inodes -> InodeType] /\ inode[i] \in InodeType
      /\ (\A j \in Inodes : Pointers(inode[j])) /\ Exclusive
  BY DEF Workable, TypeOK, BlockInv, DeleteLink
<1> DEFINE last  == inode[i].nlink = 1
           U     == Unregistered(inode[p], i)
           C     == Cleaned(U)
           T     == Unlinked(inode[i])
           given == FreedByClean(U, junk) \cup IF last THEN Owned(inode[i]) ELSE {}
<1>2. CASE Refuse
  BY <1>2, RefuseBlocks DEF Refuse
<1>3. CASE Halt("aborted")
  BY <1>3, HaltBlocks DEF Stops
<1>4. CASE ~Refuse /\ ~Halt("aborted")
  <2>1. /\ EntriesOf(inode[p], i) # {} /\ IsDirectory(p)
        /\ inode' = [inode EXCEPT ![i] = T, ![p] = C]
        /\ UpdateBlocks({}, given)
    BY <1>4 DEF DeleteLink
  <2>2. Len(inode[p].entry) = inode[p].size /\ inode[p] \in InodeType /\ inode[p].type = DIRECTORY
    BY <1>1, <2>1 DEF Workable, IsDirectory
  <2>3. /\ Pointers(C) /\ Owned(C) \subseteq Owned(inode[p])
        /\ FreedByClean(U, junk) \subseteq Owned(inode[p]) \ Owned(C)
    BY <1>1, <2>1, <2>2, RemovedPointers
  <2>4. Pointers(T) /\ Owned(T) = IF last THEN {} ELSE Owned(inode[i])
    <3>1. CASE last
      <4> DEFINE t == Truncated(inode[i])
      <4>1. t \in InodeType /\ t.size = 0 /\ t.block = inode[i].block /\ t.indirect = inode[i].indirect
        BY <1>1, TruncatedType
      <4> HIDE DEF t
      <4>2. T = [t EXCEPT !.nlink = 0, !.type = FREE]
        BY <3>1 DEF Unlinked, t
      <4> HIDE DEF T
      <4>3. T.size = t.size /\ T.block = t.block /\ T.indirect = t.indirect
        BY <4>1, <4>2, FreedType
      <4> QED BY <1>1, <3>1, <4>1, <4>3, EmptyPointers
    <3>2. CASE ~last
      <4>1. T = [inode[i] EXCEPT !.nlink = inode[i].nlink - 1]
        BY <3>2 DEF Unlinked
      <4>2. /\ T.type = inode[i].type /\ T.size = inode[i].size
            /\ T.block = inode[i].block /\ T.indirect = inode[i].indirect
        BY <1>1, <4>1 DEF InodeType
      <4> HIDE DEF T
      <4> QED BY <1>1, <3>2, <4>2, SamePointers
    <3> QED BY <3>1, <3>2
  <2> HIDE DEF U, C, T
  <2>5. inode'[p] = C /\ inode'[i] = T /\ \A j \in Inodes \ {p, i} : inode'[j] = inode[j]
    BY <1>1, <2>1
  <2>6. Owned(inode[i]) \cap Owned(inode[p]) = {}
    BY <1>1 DEF Exclusive
  <2>7. /\ given \subseteq Owned(inode[i]) \cup Owned(inode[p])
        /\ given \cap Owned(inode'[i]) = {} /\ given \cap Owned(inode'[p]) = {}
    BY <2>3, <2>4, <2>5, <2>6
  <2>8. Owned(inode'[i]) \subseteq Owned(inode[i]) /\ Owned(inode'[p]) \subseteq Owned(inode[p])
    BY <2>3, <2>4, <2>5
  <2> HIDE DEF given
  <2>9. Exclusive'
    BY <1>1, <2>1, <2>5, <2>7, <2>8, GivenBack
  <2>10. \A j \in Inodes : Pointers(inode'[j])
    BY <1>1, <2>3, <2>4, <2>5
  <2> QED BY <2>9, <2>10 DEF BlockInv
<1> QED BY <1>2, <1>3, <1>4

LEMMA DeleteDirBlocks ==
  ASSUME Workable, BlockInv, NEW i \in Inodes, NEW p \in Inodes, i # p, NEW junk \in BOOLEAN,
         DeleteDir(i, p, junk)
  PROVE  BlockInv'
<1>1. /\ inode \in [Inodes -> InodeType] /\ inode[i] \in InodeType
      /\ (\A j \in Inodes : Pointers(inode[j])) /\ Exclusive
  BY DEF Workable, TypeOK, BlockInv, DeleteDir
<1>2. CASE Refuse
  BY <1>2, RefuseBlocks DEF Refuse
<1>3. CASE Halt("aborted") \/ Halt("stale")
  BY <1>3, HaltBlocks DEF Stops
<1>4. CASE ~Refuse /\ ~Halt("aborted") /\ ~Halt("stale")
  <2> DEFINE U == Unregistered(inode[p], i)
             C == Cleaned(U)
             T == [inode[i] EXCEPT !.type = FREE, !.size = 0, !.nlink = 0, !.entry = <<>>]
             gone == [inode EXCEPT ![i] = T, ![p] = C]
             given == FreedByClean(U, junk)
  <2>1. /\ EntriesOf(inode[p], i) # {} /\ IsDirectory(p)
        /\ inode' = WithoutDir(i, p) /\ UpdateBlocks({}, given)
    BY <1>4 DEF DeleteDir
  <2>2. Len(inode[p].entry) = inode[p].size /\ inode[p] \in InodeType /\ inode[p].type = DIRECTORY
    BY <1>1, <2>1 DEF Workable, IsDirectory
  <2>3. /\ Pointers(C) /\ Owned(C) \subseteq Owned(inode[p])
        /\ given \subseteq Owned(inode[p]) \ Owned(C)
    BY <1>1, <2>1, <2>2, RemovedPointers
  <2>4. Pointers(T) /\ Owned(T) = {}
    <3>1. T.size = 0 /\ T.block = inode[i].block /\ T.indirect = inode[i].indirect
      BY <1>1, VacatedType
    <3> HIDE DEF T
    <3> QED BY <1>1, <3>1, EmptyPointers
  <2>5. C \in InodeType /\ T \in InodeType
    BY <1>1, <2>1, <2>2, RemovedEntries, VacatedType
  <2>6. inode' = [j \in Inodes |-> IF j \in Above(i) THEN [gone[j] EXCEPT !.nlink = @ - 1] ELSE gone[j]]
    BY <2>1 DEF WithoutDir
  <2> HIDE DEF U, C, T
  <2>7. gone[p] = C /\ gone[i] = T /\ \A j \in Inodes \ {p, i} : gone[j] = inode[j]
    BY <1>1
  <2>8. \A j \in Inodes : gone[j] \in InodeType /\ Pointers(gone[j])
    BY <1>1, <2>3, <2>4, <2>5, <2>7
  <2> HIDE DEF gone, given
  <2>9. ASSUME NEW j \in Inodes PROVE Pointers(inode'[j]) /\ Owned(inode'[j]) = Owned(gone[j])
    <3>1. inode'[j] = gone[j] \/ inode'[j] = [gone[j] EXCEPT !.nlink = @ - 1]
      BY <2>6
    <3>2. /\ inode'[j].type = gone[j].type /\ inode'[j].size = gone[j].size
          /\ inode'[j].block = gone[j].block /\ inode'[j].indirect = gone[j].indirect
      <4>1. gone[j] \in InodeType
        BY <2>8
      <4> QED BY <3>1, <4>1 DEF InodeType
    <3> QED BY <2>8, <3>2, SamePointers
  <2>10. Owned(inode[i]) \cap Owned(inode[p]) = {}
    BY <1>1 DEF Exclusive
  <2>11. /\ given \subseteq Owned(inode[i]) \cup Owned(inode[p])
         /\ given \cap Owned(inode'[i]) = {} /\ given \cap Owned(inode'[p]) = {}
         /\ Owned(inode'[i]) \subseteq Owned(inode[i]) /\ Owned(inode'[p]) \subseteq Owned(inode[p])
    BY <1>1, <2>3, <2>4, <2>7, <2>9
  <2>12. \A j \in Inodes \ {i, p} : Owned(inode'[j]) = Owned(inode[j])
    BY <2>7, <2>9
  <2>13. Exclusive'
    BY <1>1, <2>1, <2>11, <2>12, GivenBack
  <2> QED BY <2>9, <2>13 DEF BlockInv
<1> QED BY <1>2, <1>3, <1>4

LEMMA CreateNewBlocks ==
  ASSUME Workable, BlockInv, NEW p \in Inodes, NEW n \in Names \cup {Dot, DotDot},
         NEW type \in {REGULAR, DIRECTORY},
         status = "up", IsDirectory(p), inode[p].size < MaxFileSize, CreateNew(p, n, type)
  PROVE  BlockInv'
<1> DEFINE own  == IF type = DIRECTORY THEN 1 ELSE 0
           need == own + BlocksToRegister(inode[p])
<1>0. REGULAR # DIRECTORY /\ REGULAR # FREE /\ DIRECTORY # FREE
  BY DEF REGULAR, DIRECTORY, FREE
<1>1. CASE free_inode_list = {} /\ Halt("aborted")
  BY <1>1, HaltBlocks DEF Stops
<1>2. CASE free_inode_list # {} /\ ~Supplies(need) /\ RunDry
  BY <1>2, RunDryBlocks
<1>3. ASSUME NEW t \in free_inode_list, NEW pops \in Draws(need), NEW made,
             made = (IF type = DIRECTORY THEN CreatedDirectory(inode[t], t, p, pops[1])
                                         ELSE CreatedFile(inode[t])),
             inode' = [inode EXCEPT ![t] = [made EXCEPT !.nlink = @ + 1],
                                    ![p] = [Registered(inode[p], t, n, SubSeq(pops, own + 1, need))
                                              EXCEPT !.nlink = @ + own]],
             UpdateBlocks(Range(pops), {})
      PROVE  BlockInv'
  <2>1. /\ inode \in [Inodes -> InodeType] /\ t \in Inodes /\ t # p /\ TypeOK
        /\ inode[t] \in InodeType /\ inode[p] \in InodeType
        /\ Len(inode[p].entry) = inode[p].size /\ inode[p].type = DIRECTORY
    BY <1>0, <1>3 DEF Workable, TypeOK, IsDirectory
  <2>2. (\A j \in Inodes : Pointers(inode[j])) /\ Exclusive
    BY DEF BlockInv
  <2>3. own \in 0 .. 1 /\ need \in Nat /\ own \in 0 .. need /\ need - own = BlocksToRegister(inode[p])
    BY BlocksToRegisterType
  <2> DEFINE new == SubSeq(pops, own + 1, need)
             T   == [made EXCEPT !.nlink = @ + 1]
             R   == Registered(inode[p], t, n, new)
             P   == [R EXCEPT !.nlink = @ + own]
             A   == IF type = DIRECTORY THEN {pops[1]} ELSE {}
             B   == { new[j] : j \in 1 .. Len(new) }
  <2>4. type = DIRECTORY => own = 1 /\ 1 \in 1 .. need
    BY <2>3
  <2> HIDE DEF own, need
  <2>5. /\ new \in Seq(Blocks) /\ Len(new) = need - own
        /\ \A j \in 1 .. need - own : new[j] = pops[own + j] /\ own + j \in 1 .. need
    <3>1. /\ new \in Seq(Blocks) /\ Len(new) = need - own
          /\ \A j \in 1 .. need - own : new[j] = pops[own + j]
      BY <2>1, <2>3, DrawsType
    <3>2. \A j \in 1 .. need - own : own + j \in 1 .. need
      BY <2>3
    <3> QED BY <3>1, <3>2
  <2> HIDE DEF new
  <2>6. /\ \A j \in 1 .. need : pops[j] \in free_block_list /\ pops[j] \in Range(pops)
        /\ \A j, k \in 1 .. need : pops[j] = pops[k] => j = k
        /\ Range(pops) \subseteq free_block_list
    BY <2>1, <2>3, DrawsFresh
  <2>7. /\ \A j \in 1 .. Len(new) : new[j] \notin Owned(inode[p])
        /\ \A j, k \in 1 .. Len(new) : new[j] = new[k] => j = k
    <3>1. \A j, k \in 1 .. need - own : own + j = own + k => j = k
      BY <2>3
    <3>2. Owned(inode[p]) \cap free_block_list = {}
      BY <2>2 DEF Exclusive
    <3> QED BY <2>5, <2>6, <3>1, <3>2
  <2>8. A \subseteq Range(pops) /\ B \subseteq Range(pops) /\ A \cap B = {}
    <3>1. \A j \in 1 .. need - own : own = 1 => own + j # 1
      BY <2>3
    <3> QED BY <2>4, <2>5, <2>6, <3>1
  <2>9. R \in InodeType
    <3>1. CanRegister(inode[p])
      BY DEF CanRegister
    <3>2. new \in Seq(Blocks) /\ Len(new) = BlocksToRegister(inode[p])
      BY <2>3, <2>5
    <3> QED BY <2>1, <3>1, <3>2, RegisteredEntries
  <2>10. Pointers(R) /\ Owned(R) \subseteq Owned(inode[p]) \cup B
    <3>1. CanRegister(inode[p]) /\ Pointers(inode[p])
      BY <2>2 DEF CanRegister
    <3>2. new \in Seq(Blocks) /\ Len(new) = BlocksToRegister(inode[p])
      BY <2>3, <2>5
    <3>3. PICK r \in InodeType : r = R
      BY <2>9
    <3> HIDE DEF R, B
    <3>4. r = Registered(inode[p], t, n, new)
      BY <3>3 DEF R
    <3>5. Pointers(r) /\ Owned(r) \subseteq Owned(inode[p]) \cup { new[j] : j \in 1 .. Len(new) }
      BY <2>1, <2>7, <3>1, <3>2, <3>4, RegisteredPointers
    <3> QED BY <3>3, <3>5 DEF B
  <2> HIDE DEF R
  <2>11. Pointers(P) /\ Owned(P) \subseteq Owned(inode[p]) \cup B
    <3>1. P.type = R.type /\ P.size = R.size /\ P.block = R.block /\ P.indirect = R.indirect
      BY <2>9 DEF InodeType
    <3> HIDE DEF P, B
    <3> QED BY <2>10, <3>1, SamePointers
  <2>12. made \in InodeType /\ Pointers(made) /\ Owned(made) \subseteq A
    <3>1. Pointers(inode[t])
      BY <2>1, <2>2
    <3>2. CASE type = REGULAR
      <4>1. made = CreatedFile(inode[t])
        BY <1>0, <1>3, <3>2
      <4>2. /\ made \in InodeType /\ made.size = 0
            /\ made.block = inode[t].block /\ made.indirect = inode[t].indirect
        BY <2>1, <4>1, CreatedFileType
      <4> QED BY <3>1, <4>2, EmptyPointers
    <3>3. CASE type = DIRECTORY
      <4>1. made = CreatedDirectory(inode[t], t, p, pops[1]) /\ pops[1] \in Blocks
        BY <1>3, <2>1, <2>4, <2>6, <3>3 DEF TypeOK
      <4>2. PICK b \in Blocks : b = pops[1]
        BY <4>1
      <4>3. made \in InodeType /\ made.type = DIRECTORY /\ made.size = 2
        BY <2>1, <4>1, <4>2, CreatedWellFormed
      <4>4. made.block = [inode[t].block EXCEPT ![0] = b] /\ made.indirect = inode[t].indirect
        BY <2>1, <4>1, <4>2, CreatedPointers
      <4>5. Pointers(made) /\ Owned(made) \subseteq {b}
        BY <2>1, <3>1, <4>3, <4>4, NewDirectoryPointers
      <4> QED BY <3>3, <4>2, <4>3, <4>5
    <3> QED BY <3>2, <3>3
  <2>13. Pointers(T) /\ Owned(T) \subseteq Owned(inode[t]) \cup A
    <3>1. T.type = made.type /\ T.size = made.size /\ T.block = made.block /\ T.indirect = made.indirect
      BY <2>12 DEF InodeType
    <3> HIDE DEF T, A
    <3> QED BY <2>12, <3>1, SamePointers
  <2>14. inode' = [inode EXCEPT ![t] = T, ![p] = P]
    BY <1>3 DEF new, R
  <2> HIDE DEF T, P, A, B
  <2>15. inode'[t] = T /\ inode'[p] = P /\ \A j \in Inodes \ {t, p} : inode'[j] = inode[j]
    BY <2>1, <2>14
  <2>16. Exclusive'
    BY <1>3, <2>1, <2>2, <2>6, <2>8, <2>11, <2>13, <2>15, TakenBlocks
  <2>17. \A j \in Inodes : Pointers(inode'[j])
    BY <2>2, <2>11, <2>13, <2>15
  <2> QED BY <2>16, <2>17 DEF BlockInv
<1> QED BY <1>1, <1>2, <1>3 DEF CreateNew

LEMMA CreateBlocks ==
  ASSUME Workable, BlockInv, NEW p \in Inodes, NEW n \in Names \cup {Dot, DotDot},
         NEW type \in {REGULAR, DIRECTORY}, CreateFile(p, n, type)
  PROVE  BlockInv'
<1>1. CASE Refuse
  BY <1>1, RefuseBlocks DEF Refuse
<1>2. CASE ~Refuse
  <2>1. /\ status = "up" /\ IsDirectory(p) /\ inode[p].size < MaxFileSize
        /\ TruncateExisting(p, n) \/ CreateNew(p, n, type)
    BY <1>2 DEF CreateFile
  <2> QED BY <2>1, TruncateExistingBlocks, CreateNewBlocks
<1> QED BY <1>1, <1>2

-----------------------------------------------------------------------------
(* The theorems.                                                           *)

LEMMA InitBlocks ==
  ASSUME Init
  PROVE  BlockInv
<1>1. PICK b \in Blocks :
        /\ inode = [i \in Inodes |->
              IF i = Root THEN [CreatedDirectory(FreeInode, Root, Root, b) EXCEPT !.nlink = 2]
              ELSE FreeInode]
        /\ free_block_list = Blocks \ {b}
  BY DEF Init
<1>2. FreeInode \in InodeType
  <2>1. inode \in [Inodes -> InodeType]
    BY InitTree DEF TreeInv, TypeOK
  <2> DEFINE none == [k \in 0 .. MaxBlocks - 1 |-> Nil]
  <2>2. none \in [0 .. MaxBlocks - 1 -> Blocks \cup {Nil}] /\ 0 \in 0 .. MaxFileSize /\ <<>> \in Seq(Entry)
    BY Geometry, EmptySeq
  <2> HIDE DEF none
  <2> DEFINE e == <<>>
  <2>3. e \in Seq(Entry)
    BY <2>2
  <2> HIDE DEF e
  <2>4. FreeInode = [type |-> FREE, nlink |-> 0, reuse |-> 0, size |-> 0,
                     block |-> none, indirect |-> Nil, entry |-> e]
    BY DEF FreeInode, none, e
  <2> QED BY <2>2, <2>3, <2>4 DEF InodeType
<1>3. Pointers(FreeInode) /\ Owned(FreeInode) = {}
  <2>1. GetBlockCount(0) \in Nat /\ (0 <= BlockSize * 0 => GetBlockCount(0) <= 0) /\ BlockSize * 0 = 0
    BY BlockCount, Geometry
  <2>2. GetBlockCount(0) = 0 /\ 0 .. 0 - 1 = {} /\ ~(0 > NumDirect)
    BY <2>1, Geometry
  <2>3. /\ FreeInode.size = 0 /\ FreeInode.indirect = Nil
        /\ \A k \in 0 .. MaxBlocks - 1 : FreeInode.block[k] = Nil
    BY DEF FreeInode
  <2>4. \A k \in NumDirect .. MaxBlocks - 1 : k \in 0 .. MaxBlocks - 1
    BY Geometry
  <2>5. Pointers(FreeInode)
    BY <2>2, <2>3, <2>4 DEF Pointers
  <2> QED BY <2>2, <2>3, <2>5 DEF Owned, IndirectOf
<1> DEFINE D == CreatedDirectory(FreeInode, Root, Root, b)
           R == [D EXCEPT !.nlink = 2]
<1>4. Pointers(R) /\ Owned(R) \subseteq {b}
  <2>1. D \in InodeType /\ D.type = DIRECTORY /\ D.size = 2
    BY <1>2, RootAssumption, CreatedWellFormed
  <2>2. D.block = [FreeInode.block EXCEPT ![0] = b] /\ D.indirect = FreeInode.indirect
    BY <1>2, CreatedPointers
  <2> HIDE DEF D
  <2>3. Pointers(D) /\ Owned(D) \subseteq {b}
    BY <1>2, <1>3, <2>1, <2>2, NewDirectoryPointers
  <2>4. R.type = D.type /\ R.size = D.size /\ R.block = D.block /\ R.indirect = D.indirect
    BY <2>1 DEF InodeType
  <2> HIDE DEF R
  <2> QED BY <2>3, <2>4, SamePointers
<1> HIDE DEF R
<1>5. \A i \in Inodes : inode[i] = IF i = Root THEN R ELSE FreeInode
  BY <1>1 DEF R
<1> QED BY <1>1, <1>3, <1>4, <1>5 DEF BlockInv, Exclusive

LEMMA NextBlocks ==
  ASSUME TreeInv, BlockInv, [Next]_vars
  PROVE  BlockInv'
<1>0. Workable
  BY TreeWorkable
<1>1. CASE UNCHANGED vars
  BY <1>1, RefuseBlocks
<1>2. CASE Directories
  <2>1. PICK p \in Inodes, n \in Names :
          Create(p, n) \/ MkDir(p, n) \/ RmDir(p, n) \/ Unlink(p, n) \/ \E i \in Inodes : Link(i, p, n)
    BY <1>2 DEF Directories
  <2>2. CASE Create(p, n) \/ MkDir(p, n)
    BY <1>0, <2>2, CreateBlocks DEF Create, MkDir
  <2>3. CASE \E i \in Inodes : Link(i, p, n)
    BY <1>0, <2>3, CreateLinkBlocks DEF Link
  <2>4. PICK t : t = Lookup(p, n)
    OBVIOUS
  <2>5. ASSUME t # Nil PROVE t \in Inodes /\ t # p
    <3>1. IsDirectory(p) /\ t = SearchDirectory(inode[p], n)
      BY <2>4, <2>5 DEF Lookup
    <3> QED BY <2>5, <3>1, LookupResult DEF Used
  <2>6. CASE RmDir(p, n)
    BY <1>0, <2>4, <2>5, <2>6, DeleteDirBlocks DEF RmDir
  <2>7. CASE Unlink(p, n)
    BY <1>0, <2>4, <2>5, <2>7, DeleteLinkBlocks DEF Unlink
  <2> QED BY <2>1, <2>2, <2>3, <2>6, <2>7
<1>3. CASE Files
  <2>1. PICK i \in Inodes, pos \in Positions, size \in Lengths :
          \E r \in 1 .. inode[i].reuse : Read(i, r, pos, size) \/ Write(i, r, pos, size)
    BY <1>3 DEF Files
  <2>2. pos \in Nat /\ size \in Nat
    BY BoundsAssumption
  <2>3. PICK r : ReadFile(i, pos, size, r) \/ WriteFile(i, pos, size, r)
    BY <2>1 DEF Read, Write
  <2>4. CASE ReadFile(i, pos, size, r)
    <3>1. Halt("aborted") \/ Refuse
      BY <2>4 DEF ReadFile
    <3> QED BY <3>1, HaltBlocks, RefuseBlocks DEF Refuse, Stops
  <2> QED BY <1>0, <2>2, <2>3, <2>4, WriteBlocks
<1> QED BY <1>1, <1>2, <1>3 DEF Next

\* While the server is up, no pointer is shared and no owned block is free,
\* though TruncateFileInode, CleanDirectory and DeleteDir (yfs.c:289-346,
\* 473-533, 1075) leave the pointers they free in place.
THEOREM BlockInvariant == Spec => []BlockInv
<1>1. Init => BlockInv
  BY InitBlocks
<1>2. TreeInv /\ BlockInv /\ [Next]_vars => BlockInv'
  BY NextBlocks
<1> QED BY <1>1, <1>2, TreeInvariant, PTL DEF Spec

\* The pointers in use are as many as the blocks owned.
LEMMA OwnedCardinality ==
  ASSUME NEW ino \in InodeType, Pointers(ino),
         NEW own, own = { k \in 0 .. GetBlockCount(ino.size) - 1 : ino.block[k] # Nil }
  PROVE  Cardinality(Owned(ino)) = Cardinality(own) + Cardinality(IndirectOf(ino))
<1> DEFINE n == GetBlockCount(ino.size)
           V == { ino.block[k] : k \in 0 .. n - 1 } \ {Nil}
           I == IndirectOf(ino)
           f == [k \in own |-> ino.block[k]]
<1>1. n \in Nat
  BY OwnedType
<1>2. IsFiniteSet(own)
  <2>1. IsFiniteSet(0 .. n - 1)
    BY <1>1, FS_Interval
  <2> HIDE DEF n
  <2>2. own \in SUBSET (0 .. n - 1)
    BY DEF n
  <2> QED BY <2>1, <2>2, FS_Subset
<1>3. f \in Surjection(own, V)
  <2>1. f \in [own -> V]
    OBVIOUS
  <2>2. \A x \in V : \E k \in own : f[k] = x
    OBVIOUS
  <2> QED BY <2>1, <2>2 DEF Surjection
<1>4. f \in Injection(own, V)
  <2>1. \A j, k \in 0 .. n - 1 : ino.block[j] = ino.block[k] /\ ino.block[j] # Nil => j = k
    BY DEF Pointers
  <2>2. f \in [own -> V]
    OBVIOUS
  <2>3. \A j, k \in own : f[j] = f[k] => j = k
    BY <2>1
  <2> QED BY <2>2, <2>3 DEF Injection, IsInjective
<1>5. V \cap I = {}
  <2>1. n > NumDirect /\ ino.indirect # Nil => \A k \in 0 .. n - 1 : ino.block[k] # ino.indirect
    BY DEF Pointers
  <2> QED BY <2>1 DEF IndirectOf
<1>6. IsFiniteSet(I)
  <2>1. I \in SUBSET {ino.indirect} /\ IsFiniteSet({ino.indirect})
    BY FS_Singleton DEF IndirectOf
  <2> HIDE DEF I
  <2> QED BY <2>1, FS_Subset
<1>7. Owned(ino) = V \cup I
  BY DEF Owned
<1> HIDE DEF V, I, f, n
<1>8. IsFiniteSet(V) /\ Cardinality(V) = Cardinality(own)
  BY <1>2, <1>3, <1>4, FS_Surjection
<1>9. Cardinality(V \cup I) = Cardinality(V) + Cardinality(I) - Cardinality(V \cap I)
  BY <1>6, <1>8, FS_Union
<1>10. Cardinality(V \cap I) = 0 /\ Cardinality(V) \in Nat /\ Cardinality(I) \in Nat
  BY <1>5, <1>6, <1>8, FS_EmptySet, FS_CardinalityType
<1> QED BY <1>7, <1>8, <1>9, <1>10 DEF I

LEMMA ExclusiveByPointers ==
  ASSUME inode \in [Inodes -> InodeType], BlockInv
  PROVE  BlocksExclusive
<1>1. SUFFICES ASSUME status = "up"
               PROVE  /\ \A i, j \in Used : i # j => Owned(inode[i]) \cap Owned(inode[j]) = {}
                      /\ \A i \in Used : LET own == { k \in 0 .. GetBlockCount(inode[i].size) - 1 :
                                                        inode[i].block[k] # Nil }
                                          IN Cardinality(Owned(inode[i]))
                                               = Cardinality(own) + Cardinality(IndirectOf(inode[i]))
                      /\ \A i \in Used : Owned(inode[i]) \cap free_block_list = {}
  BY DEF BlocksExclusive
<1>2. (\A i \in Inodes : inode[i] \in InodeType /\ Pointers(inode[i])) /\ Exclusive
  BY <1>1 DEF BlockInv
<1>3. ASSUME NEW i \in Used
      PROVE  LET own == { k \in 0 .. GetBlockCount(inode[i].size) - 1 : inode[i].block[k] # Nil }
             IN Cardinality(Owned(inode[i])) = Cardinality(own) + Cardinality(IndirectOf(inode[i]))
  BY <1>2, OwnedCardinality DEF Used
<1> QED BY <1>2, <1>3 DEF Exclusive, Used

\* No block of data has two owners or is free while it has one, after any
\* sequence of writes, truncations, removals and growing directories
\* (yfs.c:289-346, 473-533, 595-673, 872-979).
THEOREM BlocksAreExclusive == Spec => []BlocksExclusive
<1>1. TypeOK /\ BlockInv => BlocksExclusive
  BY ExclusiveByPointers DEF TypeOK
<1> QED BY <1>1, Typing, BlockInvariant, PTL
=============================================================================
