---------------------------- MODULE InodeProofs ----------------------------
(***************************************************************************)
(* What the operations of Inode return, for every size of a block, every   *)
(* number of pointers and every set of names and inodes: the facts the     *)
(* theorems about the file server rest on.                                 *)
(***************************************************************************)
EXTENDS Inode, FiniteSetTheorems, SequenceTheorems, WellFoundedInduction, TLAPS

\* The entries that stand for an inode.
LiveIn(ino) == { k \in 1 .. Len(ino.entry) : ino.entry[k].inum # Nil }

-----------------------------------------------------------------------------
(* The least and the greatest element of a set of numbers.                 *)

LEMMA LeastElement ==
  ASSUME NEW S \in SUBSET Nat, S # {}
  PROVE  Least(S) \in S /\ \A j \in S : Least(S) <= j
<1> DEFINE Before == OpToRel(<, Nat)
<1>1. IsWellFoundedOn(Before, Nat)
  BY NatLessThanWellFounded
<1>2. \A j, k \in Nat : j < k => <<j, k>> \in Before
  BY DEF OpToRel
<1> HIDE DEF Before
<1>3. PICK k \in S : \A j \in S : <<j, k>> \notin Before
  BY <1>1, WFMin
<1>4. ASSUME NEW j \in S PROVE k <= j
  <2>1. j \in Nat /\ k \in Nat
    OBVIOUS
  <2>2. ~(j < k)
    BY <1>2, <1>3, <2>1
  <2> QED BY <2>1, <2>2
<1> QED BY <1>4 DEF Least

LEMMA GreatestElement ==
  ASSUME NEW S \in SUBSET Nat, S # {}, NEW n \in Nat, \A k \in S : k <= n
  PROVE  \E k \in S : \A j \in S : j <= k
<1> DEFINE T == { n - k : k \in S }
<1>1. T \in SUBSET Nat /\ T # {}
  <2>1. ASSUME NEW k \in S PROVE n - k \in Nat
    BY <2>1
  <2>2. PICK k \in S : TRUE
    OBVIOUS
  <2> QED BY <2>1, <2>2
<1>2. Least(T) \in T /\ \A j \in T : Least(T) <= j
  BY <1>1, LeastElement
<1>3. PICK k \in S : Least(T) = n - k
  BY <1>2
<1>4. ASSUME NEW j \in S PROVE j <= k
  <2>1. n - k <= n - j
    BY <1>2, <1>3
  <2> QED BY <2>1
<1> QED BY <1>4

-----------------------------------------------------------------------------
(* Types.                                                                  *)

\* The sizes of the geometry.
LEMMA Geometry ==
  /\ BlockSize \in Nat /\ BlockSize >= 2
  /\ NumDirect \in Nat /\ NumDirect >= 1 /\ NumIndirect \in Nat /\ NumIndirect >= 1
  /\ MaxBlocks \in Nat /\ MaxBlocks = NumDirect + NumIndirect
  /\ MaxFileSize \in Nat /\ MaxFileSize >= 2
<1>1. /\ BlockSize \in Nat /\ BlockSize >= 2
      /\ NumDirect \in Nat /\ NumDirect >= 1 /\ NumIndirect \in Nat /\ NumIndirect >= 1
      /\ MaxBlocks \in Nat /\ MaxBlocks = NumDirect + NumIndirect
  BY GeometryAssumption DEF MaxBlocks
<1>2. MaxBlocks >= 2
  BY <1>1
<1>3. BlockSize * MaxBlocks >= BlockSize /\ BlockSize * MaxBlocks \in Nat
  BY <1>1, <1>2
<1> QED BY <1>1, <1>3 DEF MaxFileSize

\* The fields of an inode.
LEMMA InodeFields ==
  ASSUME NEW ino \in InodeType
  PROVE  /\ ino.type \in {FREE, DIRECTORY, REGULAR} /\ ino.nlink \in Int /\ ino.reuse \in Nat
         /\ ino.size \in 0 .. MaxFileSize
         /\ ino.block \in [0 .. MaxBlocks - 1 -> Blocks \cup {Nil}]
         /\ ino.indirect \in Blocks \cup {Nil}
         /\ ino.entry \in Seq(Entry)
BY DEF InodeType

\* An inode with other entries and other blocks.
LEMMA InodeResized ==
  ASSUME NEW ino \in InodeType, NEW size \in 0 .. MaxFileSize, NEW entry \in Seq(Entry),
         NEW block \in [0 .. MaxBlocks - 1 -> Blocks \cup {Nil}], NEW indirect \in Blocks \cup {Nil}
  PROVE  [ino EXCEPT !.size = size, !.entry = entry, !.indirect = indirect, !.block = block]
           \in InodeType
BY DEF InodeType

\* A block pointer of an inode exists for every cell below the largest size.
LEMMA PointerInRange ==
  ASSUME NEW s \in 0 .. MaxFileSize - 1
  PROVE  s \div BlockSize \in 0 .. MaxBlocks - 1
<1>1. /\ BlockSize \in Nat /\ BlockSize >= 2 /\ MaxBlocks \in Nat
      /\ s \in Nat /\ s < BlockSize * MaxBlocks
  BY Geometry DEF MaxFileSize
<1> DEFINE q == s \div BlockSize
           r == s % BlockSize
<1>2. q \in Nat /\ r \in 0 .. BlockSize - 1 /\ s = BlockSize * q + r
  BY <1>1
<1> HIDE DEF q, r
<1>3. q < MaxBlocks
  <2>1. SUFFICES ASSUME q >= MaxBlocks PROVE FALSE
    BY <1>1, <1>2
  <2>2. BlockSize * q >= BlockSize * MaxBlocks
    BY <1>1, <1>2, <2>1
  <2> QED BY <1>1, <1>2, <2>2
<1> QED BY <1>1, <1>2, <1>3 DEF q

\* The number of blocks for a size: the blocks up to it hold it, one less do not.
LEMMA BlockCount ==
  ASSUME NEW size \in Nat
  PROVE  /\ GetBlockCount(size) \in Nat
         /\ size <= BlockSize * GetBlockCount(size)
         /\ BlockSize * GetBlockCount(size) < size + BlockSize
         /\ \A n \in Nat : size <= BlockSize * n => GetBlockCount(size) <= n
         /\ \A n \in Nat : BlockSize * n < size => n < GetBlockCount(size)
<1>1. BlockSize \in Nat /\ BlockSize >= 2
  BY Geometry
<1> DEFINE q == (size + BlockSize - 1) \div BlockSize
           r == (size + BlockSize - 1) % BlockSize
<1>2. q \in Nat /\ r \in 0 .. BlockSize - 1 /\ size + BlockSize - 1 = BlockSize * q + r
  BY <1>1
<1>3. GetBlockCount(size) = q
  BY DEF GetBlockCount
<1> HIDE DEF q, r
<1>4. size <= BlockSize * q /\ BlockSize * q < size + BlockSize
  <2>1. BlockSize * q \in Nat
    BY <1>1, <1>2
  <2> QED BY <1>1, <1>2, <2>1
<1>5. ASSUME NEW n \in Nat, size <= BlockSize * n PROVE q <= n
  <2>1. SUFFICES ASSUME q >= n + 1 PROVE FALSE
    BY <1>2
  <2>2. BlockSize * q >= BlockSize * n + BlockSize
    <3>1. BlockSize * q >= BlockSize * (n + 1)
      BY <1>1, <1>2, <2>1
    <3> QED BY <1>1, <3>1
  <2>3. BlockSize * q \in Nat /\ BlockSize * n \in Nat
    BY <1>1, <1>2
  <2> QED BY <1>1, <1>4, <1>5, <2>2, <2>3
<1>6. ASSUME NEW n \in Nat, BlockSize * n < size PROVE n < q
  <2>1. SUFFICES ASSUME q <= n PROVE FALSE
    BY <1>2
  <2>2. BlockSize * q <= BlockSize * n
    BY <1>1, <1>2, <2>1
  <2>3. BlockSize * q \in Nat /\ BlockSize * n \in Nat
    BY <1>1, <1>2
  <2> QED BY <1>4, <1>6, <2>2, <2>3
<1> QED BY <1>2, <1>3, <1>4, <1>5, <1>6

LEMMA BlockCountInRange ==
  ASSUME NEW size \in 0 .. MaxFileSize
  PROVE  GetBlockCount(size) \in 0 .. MaxBlocks
<1>1. size \in Nat /\ MaxBlocks \in Nat /\ size <= BlockSize * MaxBlocks
  BY Geometry DEF MaxFileSize
<1> QED BY <1>1, BlockCount

LEMMA BlockCountMonotonic ==
  ASSUME NEW s \in Nat, NEW t \in Nat, s <= t
  PROVE  GetBlockCount(s) <= GetBlockCount(t)
<1>1. GetBlockCount(t) \in Nat /\ t <= BlockSize * GetBlockCount(t) /\ BlockSize \in Nat
  BY BlockCount, Geometry
<1>2. s <= BlockSize * GetBlockCount(t)
  <2>1. BlockSize * GetBlockCount(t) \in Nat
    BY <1>1
  <2> QED BY <1>1, <2>1
<1> QED BY <1>1, <1>2, BlockCount

\* What an inode owns are blocks.
LEMMA OwnedType ==
  ASSUME NEW ino \in InodeType
  PROVE  /\ GetBlockCount(ino.size) \in 0 .. MaxBlocks
         /\ \A k \in 0 .. GetBlockCount(ino.size) - 1 : ino.block[k] \in Blocks \cup {Nil}
         /\ Owned(ino) \subseteq Blocks
<1>1. /\ ino.block \in [0 .. MaxBlocks - 1 -> Blocks \cup {Nil}]
      /\ ino.indirect \in Blocks \cup {Nil} /\ MaxBlocks \in Nat
  BY InodeFields, Geometry
<1>2. GetBlockCount(ino.size) \in 0 .. MaxBlocks
  BY InodeFields, BlockCountInRange
<1>3. \A k \in 0 .. GetBlockCount(ino.size) - 1 : ino.block[k] \in Blocks \cup {Nil}
  BY <1>1, <1>2
<1> QED BY <1>1, <1>2, <1>3 DEF Owned, IndirectOf

\* CleanDirectory gives back blocks the directory owned.
LEMMA FreedByCleanOwned ==
  ASSUME NEW ino \in InodeType, NEW junk \in BOOLEAN, CleanSize(ino) \in Nat
  PROVE  FreedByClean(ino, junk) \subseteq Owned(ino)
<1>1. GetBlockCount(CleanSize(ino)) \in Nat
  BY BlockCount
<1>2. GetBlockCount(ino.size) \in Nat /\ NumDirect \in Nat
  BY OwnedType, Geometry
<1> DEFINE gone == GetBlockCount(CleanSize(ino)) .. GetBlockCount(ino.size) - 1
<1>3. gone \subseteq 0 .. GetBlockCount(ino.size) - 1
  BY <1>1, <1>2
<1>4. NumDirect \in gone => GetBlockCount(ino.size) > NumDirect
  BY <1>1, <1>2
<1> QED BY <1>3, <1>4 DEF FreedByClean, Owned, IndirectOf

-----------------------------------------------------------------------------
(* Creation and truncation.                                                *)

\* What mkyfs writes is an inode.
LEMMA FreeInodeType ==
  /\ FreeInode \in InodeType /\ FreeInode.type = FREE /\ FreeInode.entry = <<>>
  /\ FreeInode.nlink = 0 /\ FreeInode.reuse = 0
<1> DEFINE e == <<>>
           k0 == [k \in 0 .. MaxBlocks - 1 |-> Nil]
<1>1. e \in Seq(Entry) /\ k0 \in [0 .. MaxBlocks - 1 -> Blocks \cup {Nil}] /\ 0 \in 0 .. MaxFileSize
  BY EmptySeq, Geometry
<1>2. FreeInode = [type |-> FREE, nlink |-> 0, reuse |-> 0, size |-> 0,
                   block |-> k0, indirect |-> Nil, entry |-> e]
  BY DEF FreeInode
<1> HIDE DEF e, k0
<1>3. FreeInode \in InodeType
  BY <1>1, <1>2 DEF InodeType
<1> QED BY <1>2, <1>3 DEF e

LEMMA CreatedFileType ==
  ASSUME NEW ino \in InodeType
  PROVE  LET c == CreatedFile(ino)
         IN /\ c \in InodeType /\ c.type = REGULAR /\ c.size = 0 /\ c.nlink = 0
            /\ c.reuse = ino.reuse + 1 /\ c.entry = <<>>
            /\ c.block = ino.block /\ c.indirect = ino.indirect
<1> DEFINE c == CreatedFile(ino)
<1>1. <<>> \in Seq(Entry) /\ 0 \in 0 .. MaxFileSize /\ ino.reuse + 1 \in Nat
  BY EmptySeq, Geometry, InodeFields
<1>2. c = [ino EXCEPT !.type = REGULAR, !.size = 0, !.nlink = 0, !.reuse = ino.reuse + 1,
                      !.entry = <<>>]
  BY DEF CreatedFile
<1>3. c = [type |-> REGULAR, nlink |-> 0, reuse |-> ino.reuse + 1, size |-> 0,
           block |-> ino.block, indirect |-> ino.indirect, entry |-> <<>>]
  BY <1>2 DEF InodeType
<1>4. c \in InodeType
  BY <1>1, <1>3, InodeFields DEF InodeType
<1> QED BY <1>3, <1>4

LEMMA TruncatedType ==
  ASSUME NEW ino \in InodeType
  PROVE  LET c == Truncated(ino)
         IN /\ c \in InodeType /\ c.type = ino.type /\ c.nlink = ino.nlink /\ c.reuse = ino.reuse
            /\ c.size = 0 /\ c.entry = <<>> /\ c.block = ino.block /\ c.indirect = ino.indirect
<1> DEFINE c == Truncated(ino)
<1>1. <<>> \in Seq(Entry) /\ 0 \in 0 .. MaxFileSize
  BY EmptySeq, Geometry
<1>2. c = [type |-> ino.type, nlink |-> ino.nlink, reuse |-> ino.reuse, size |-> 0,
           block |-> ino.block, indirect |-> ino.indirect, entry |-> <<>>]
  <2>1. c = [ino EXCEPT !.size = 0, !.entry = <<>>]
    BY DEF Truncated
  <2> HIDE DEF c
  <2> QED BY <2>1 DEF InodeType
<1>3. c \in InodeType
  BY <1>1, <1>2, InodeFields DEF InodeType
<1> QED BY <1>2, <1>3

\* What DeleteLink leaves of a file without links.
LEMMA FreedType ==
  ASSUME NEW t \in InodeType, NEW u, u = [t EXCEPT !.nlink = 0, !.type = FREE]
  PROVE  /\ u \in InodeType /\ u.type = FREE /\ u.nlink = 0 /\ u.reuse = t.reuse
         /\ u.size = t.size /\ u.entry = t.entry
         /\ u.block = t.block /\ u.indirect = t.indirect
<1>1. u = [type |-> FREE, nlink |-> 0, reuse |-> t.reuse, size |-> t.size,
           block |-> t.block, indirect |-> t.indirect, entry |-> t.entry]
  BY DEF InodeType
<1>2. u \in InodeType
  BY <1>1, InodeFields DEF InodeType
<1> QED BY <1>1, <1>2

\* What DeleteDir leaves of a directory.
LEMMA VacatedType ==
  ASSUME NEW ino \in InodeType, NEW u,
         u = [ino EXCEPT !.type = FREE, !.size = 0, !.nlink = 0, !.entry = <<>>]
  PROVE  /\ u \in InodeType /\ u.type = FREE /\ u.size = 0 /\ u.entry = <<>>
         /\ u.reuse = ino.reuse /\ u.block = ino.block /\ u.indirect = ino.indirect
<1>1. <<>> \in Seq(Entry) /\ 0 \in 0 .. MaxFileSize
  BY EmptySeq, Geometry
<1>2. u = [type |-> FREE, nlink |-> 0, reuse |-> ino.reuse, size |-> 0,
           block |-> ino.block, indirect |-> ino.indirect, entry |-> <<>>]
  BY DEF InodeType
<1>3. u \in InodeType
  <2> DEFINE e == <<>>
  <2>1. u = [type |-> FREE, nlink |-> 0, reuse |-> ino.reuse, size |-> 0,
             block |-> ino.block, indirect |-> ino.indirect, entry |-> e]
    BY <1>2
  <2>2. e \in Seq(Entry)
    BY <1>1
  <2> HIDE DEF e
  <2> QED BY <1>1, <2>1, <2>2, InodeFields DEF InodeType
<1> QED BY <1>2, <1>3

-----------------------------------------------------------------------------
(* Entering a name.                                                        *)

\* RegisterDirectory makes one more entry live, a cleared one or a new last
\* one, and leaves the live ones as they are.
LEMMA RegisteredEntries ==
  ASSUME NEW ino \in InodeType, Len(ino.entry) = ino.size, CanRegister(ino),
         NEW inum \in Inodes, NEW name \in Names \cup {Dot, DotDot},
         NEW new \in Seq(Blocks), Len(new) = BlocksToRegister(ino)
  PROVE  LET r == Registered(ino, inum, name, new)
         IN /\ r \in InodeType /\ Len(r.entry) = r.size
            /\ r.type = ino.type /\ r.nlink = ino.nlink /\ r.reuse = ino.reuse
            /\ \E k \in Nat \ LiveIn(ino) :
                 /\ LiveIn(r) = LiveIn(ino) \cup {k}
                 /\ r.entry[k] = [inum |-> inum, name |-> name]
                 /\ \A j \in LiveIn(ino) : r.entry[j] = ino.entry[j]
                 /\ r.size = ino.size \/ r.size = k
<1> DEFINE e == [inum |-> inum, name |-> name]
           r == Registered(ino, inum, name, new)
           n == BlocksToRegister(ino)
<1>1. /\ ino.size \in 0 .. MaxFileSize /\ ino.entry \in Seq(Entry)
      /\ ino.block \in [0 .. MaxBlocks - 1 -> Blocks \cup {Nil}]
      /\ ino.indirect \in Blocks \cup {Nil}
      /\ ino.type \in {FREE, DIRECTORY, REGULAR} /\ ino.nlink \in Int /\ ino.reuse \in Nat
  BY InodeFields
<1>2. e \in Entry /\ e.inum # Nil
  BY NilAssumption DEF Entry
<1>3. MaxFileSize \in Nat /\ MaxBlocks \in Nat
  BY Geometry
<1>4. CASE Cleared(ino) # {}
  <2> DEFINE k == Least(Cleared(ino))
  <2>1. k \in Cleared(ino)
    <3>1. Cleared(ino) \in SUBSET Nat
      BY <1>1, LenProperties DEF Cleared
    <3> QED BY <3>1, <1>4, LeastElement
  <2>2. k \in 1 .. Len(ino.entry) /\ k \notin LiveIn(ino) /\ k \in Nat
    BY <1>1, <2>1, LenProperties DEF Cleared, LiveIn
  <2> HIDE DEF k
  <2>3. r = [ino EXCEPT !.entry = [ino.entry EXCEPT ![k] = e]]
    BY <1>4 DEF Registered, k
  <2>4. /\ [ino.entry EXCEPT ![k] = e] \in Seq(Entry)
        /\ Len([ino.entry EXCEPT ![k] = e]) = Len(ino.entry)
        /\ \A j \in 1 .. Len(ino.entry) :
             [ino.entry EXCEPT ![k] = e][j] = IF j = k THEN e ELSE ino.entry[j]
    BY <1>1, <1>2, <2>2, ExceptSeq
  <2>5. /\ r \in InodeType /\ r.entry = [ino.entry EXCEPT ![k] = e] /\ r.size = ino.size
        /\ r.type = ino.type /\ r.nlink = ino.nlink /\ r.reuse = ino.reuse
    BY <2>3, <2>4 DEF InodeType
  <2> HIDE DEF r, e
  <2>6. LiveIn(r) = LiveIn(ino) \cup {k}
    BY <1>2, <2>2, <2>4, <2>5 DEF LiveIn
  <2>7. \A j \in LiveIn(ino) : r.entry[j] = ino.entry[j]
    BY <2>2, <2>4, <2>5 DEF LiveIn
  <2>8. r.entry[k] = e
    BY <2>2, <2>4, <2>5
  <2> QED BY <2>2, <2>4, <2>5, <2>6, <2>7, <2>8 DEF r, e
<1>5. CASE Cleared(ino) = {}
  <2> DEFINE k == ino.size + 1
             b == ino.size \div BlockSize
             ind == IF n = 2 THEN new[1] ELSE ino.indirect
             blk == [ino.block EXCEPT ![b] = IF n > 0 THEN new[n] ELSE ino.block[b]]
             ent == Append(ino.entry, e)
  <2>1. ino.size < MaxFileSize /\ ino.size \in 0 .. MaxFileSize - 1
    BY <1>1, <1>3, <1>5 DEF CanRegister
  <2>2. k \in 1 .. MaxFileSize /\ k \notin LiveIn(ino) /\ k \in Nat
    BY <1>1, <1>3, <2>1 DEF LiveIn
  <2>3. b \in 0 .. MaxBlocks - 1
    BY <2>1, PointerInRange
  <2>4. n \in 0 .. 2 /\ \A m \in 1 .. n : new[m] \in Blocks
    <3>1. n \in 0 .. 2
      BY DEF BlocksToRegister
    <3> QED BY <3>1, ElementOfSeq
  <2>5. /\ ent \in Seq(Entry)
        /\ Len(ent) = k
        /\ \A j \in 1 .. Len(ino.entry) : ent[j] = ino.entry[j]
        /\ ent[k] = e
    BY <1>1, <1>2, AppendProperties
  <2>6. r = [ino EXCEPT !.size = k, !.entry = ent, !.indirect = ind, !.block = blk]
    BY <1>5 DEF Registered
  <2>7. ind \in Blocks \cup {Nil} /\ blk \in [0 .. MaxBlocks - 1 -> Blocks \cup {Nil}]
    <3>1. n = 2 => new[1] \in Blocks
      BY <2>4
    <3>2. n > 0 => new[n] \in Blocks
      BY <2>4
    <3>3. ino.block[b] \in Blocks \cup {Nil}
      BY <1>1, <2>3
    <3> QED BY <1>1, <3>1, <3>2, <3>3
  <2> HIDE DEF n, b, e, ind, blk, ent
  <2>8. /\ r \in InodeType /\ r.entry = ent /\ r.size = k
        /\ r.type = ino.type /\ r.nlink = ino.nlink /\ r.reuse = ino.reuse
    <3>1. k \in 0 .. MaxFileSize
      BY <2>2
    <3> HIDE DEF k, r
    <3>2. [ino EXCEPT !.size = k, !.entry = ent, !.indirect = ind, !.block = blk] \in InodeType
      BY <2>5, <2>7, <3>1, InodeResized
    <3> QED BY <2>6, <3>2 DEF InodeType
  <2> HIDE DEF r
  <2>9. LiveIn(r) = LiveIn(ino) \cup {k}
    BY <1>1, <1>2, <2>2, <2>5, <2>8 DEF LiveIn, e
  <2>10. \A j \in LiveIn(ino) : r.entry[j] = ino.entry[j]
    BY <2>5, <2>8 DEF LiveIn
  <2> QED BY <2>2, <2>5, <2>8, <2>9, <2>10 DEF e, r
<1> QED BY <1>4, <1>5

\* A name is found exactly when a live entry has it.
LEMMA SearchResult ==
  ASSUME NEW ino \in InodeType, NEW name
  PROVE  LET t == SearchDirectory(ino, name)
         IN /\ t # Nil => \E k \in LiveIn(ino) :
                            ino.entry[k].name = name /\ ino.entry[k].inum = t
            /\ t = Nil => \A k \in LiveIn(ino) : ino.entry[k].name # name
<1> DEFINE hits == { k \in 1 .. Len(ino.entry) : ino.entry[k].inum # Nil /\ ino.entry[k].name = name }
           t == SearchDirectory(ino, name)
<1>1. hits \in SUBSET Nat
  BY InodeFields, LenProperties
<1>2. hits = { k \in LiveIn(ino) : ino.entry[k].name = name }
  BY DEF LiveIn
<1>3. t = IF hits = {} THEN Nil ELSE ino.entry[Least(hits)].inum
  BY DEF SearchDirectory
<1> HIDE DEF hits, t
<1>4. CASE hits = {}
  BY <1>2, <1>3, <1>4 DEF t
<1>5. CASE hits # {}
  <2>1. Least(hits) \in hits
    BY <1>1, <1>5, LeastElement
  <2>2. t = ino.entry[Least(hits)].inum /\ t # Nil
    BY <1>2, <1>3, <1>5, <2>1 DEF LiveIn
  <2> QED BY <1>2, <2>1, <2>2 DEF t
<1> QED BY <1>4, <1>5

-----------------------------------------------------------------------------
(* Removing a name.                                                        *)

\* UnregisterDirectory clears one entry that stands for the inode.
LEMMA UnregisteredEntries ==
  ASSUME NEW ino \in InodeType, NEW inum \in Inodes, EntriesOf(ino, inum) # {}
  PROVE  LET u == Unregistered(ino, inum)
         IN \E k \in LiveIn(ino) :
              /\ ino.entry[k].inum = inum
              /\ u = [ino EXCEPT !.entry = [ino.entry EXCEPT ![k].inum = Nil]]
              /\ u \in InodeType /\ Len(u.entry) = Len(ino.entry)
              /\ LiveIn(u) = LiveIn(ino) \ {k}
              /\ \A j \in LiveIn(ino) \ {k} : u.entry[j] = ino.entry[j]
<1> DEFINE u == Unregistered(ino, inum)
           k == Least(EntriesOf(ino, inum))
           gone == [ino.entry[k] EXCEPT !.inum = Nil]
<1>1. ino.entry \in Seq(Entry) /\ Len(ino.entry) \in Nat
  BY InodeFields, LenProperties
<1>2. k \in EntriesOf(ino, inum)
  <2>1. EntriesOf(ino, inum) \in SUBSET Nat
    BY <1>1 DEF EntriesOf
  <2> QED BY <2>1, LeastElement
<1>3. k \in LiveIn(ino) /\ k \in 1 .. Len(ino.entry) /\ ino.entry[k].inum = inum
  BY <1>2, NilAssumption DEF EntriesOf, LiveIn
<1>4. u = [ino EXCEPT !.entry = [ino.entry EXCEPT ![k] = gone]]
  BY DEF Unregistered
<1> HIDE DEF k
<1>5. gone \in Entry /\ gone.inum = Nil
  <2>1. ino.entry[k] \in Entry
    BY <1>1, <1>3, ElementOfSeq
  <2> QED BY <2>1 DEF Entry
<1> HIDE DEF gone
<1>6. /\ [ino.entry EXCEPT ![k] = gone] \in Seq(Entry)
      /\ Len([ino.entry EXCEPT ![k] = gone]) = Len(ino.entry)
      /\ \A j \in 1 .. Len(ino.entry) :
           [ino.entry EXCEPT ![k] = gone][j] = IF j = k THEN gone ELSE ino.entry[j]
  BY <1>1, <1>3, <1>5, ExceptSeq
<1>7. u \in InodeType /\ u.entry = [ino.entry EXCEPT ![k] = gone]
  BY <1>4, <1>6 DEF InodeType
<1> HIDE DEF u
<1>8. /\ LiveIn(u) = LiveIn(ino) \ {k}
      /\ \A j \in LiveIn(ino) \ {k} : u.entry[j] = ino.entry[j]
  BY <1>3, <1>5, <1>6, <1>7 DEF LiveIn
<1> QED BY <1>3, <1>4, <1>6, <1>7, <1>8 DEF u, gone

\* CleanDirectory keeps every live entry, and ends with one or with the first.
LEMMA CleanedEntries ==
  ASSUME NEW ino \in InodeType, Len(ino.entry) = ino.size, ino.size > 0
  PROVE  LET c == Cleaned(ino)
         IN /\ c \in InodeType /\ Len(c.entry) = c.size /\ c.size \in 1 .. ino.size
            /\ c = [ino EXCEPT !.size = CleanSize(ino), !.entry = SubSeq(ino.entry, 1, CleanSize(ino))]
            /\ LiveIn(c) = LiveIn(ino)
            /\ \A j \in LiveIn(ino) : c.entry[j] = ino.entry[j]
            /\ c.size = 1 \/ c.size \in LiveIn(c)
<1> DEFINE c == Cleaned(ino)
           n == CleanSize(ino)
           live == { k \in 1 .. Len(ino.entry) : k = 1 \/ ino.entry[k].inum # Nil }
<1>1. /\ ino.entry \in Seq(Entry) /\ ino.size \in 0 .. MaxFileSize /\ MaxFileSize \in Nat
  BY InodeFields, Geometry
<1>2. 1 \in live /\ live \in SUBSET Nat /\ \A k \in live : k <= ino.size
  BY <1>1
<1>3. n \in live /\ \A j \in live : j <= n
  <2>1. \E k \in live : \A j \in live : j <= k
    <3>1. ino.size \in Nat /\ live # {}
      BY <1>1, <1>2
    <3> HIDE DEF live
    <3> QED BY <1>2, <3>1, GreatestElement
  <2> QED BY <1>2, <2>1 DEF CleanSize
<1>4. n \in 1 .. ino.size /\ LiveIn(ino) \subseteq 1 .. n /\ (n = 1 \/ n \in LiveIn(ino))
  BY <1>1, <1>3 DEF LiveIn
<1> HIDE DEF n, live
<1> DEFINE e == SubSeq(ino.entry, 1, n)
<1>5. e \in Seq(Entry) /\ Len(e) = n /\ \A j \in 1 .. n : e[j] = ino.entry[j]
  <2>1. \A j \in 1 .. n : ino.entry[j] \in Entry
    BY <1>1, <1>4, ElementOfSeq
  <2>2. /\ e \in Seq(Entry) /\ Len(e) = (IF 1 <= n THEN n - 1 + 1 ELSE 0)
        /\ \A j \in 1 .. n - 1 + 1 : e[j] = ino.entry[1 + j - 1]
    BY <1>4, <2>1, SubSeqProperties
  <2> QED BY <1>4, <2>2
<1>6. c = [ino EXCEPT !.size = n, !.entry = e]
  BY DEF Cleaned, n
<1> HIDE DEF e
<1>7. c \in InodeType /\ c.entry = e /\ c.size = n
  <2>1. n \in 0 .. MaxFileSize
    BY <1>1, <1>4
  <2> QED BY <1>5, <1>6, <2>1 DEF InodeType
<1> HIDE DEF c
<1>8. /\ LiveIn(c) = LiveIn(ino)
      /\ \A j \in LiveIn(ino) : c.entry[j] = ino.entry[j]
  BY <1>1, <1>4, <1>5, <1>7 DEF LiveIn
<1> QED BY <1>4, <1>5, <1>6, <1>7, <1>8 DEF c, n, e

\* A directory after one of its names went.
LEMMA RemovedEntries ==
  ASSUME NEW ino \in InodeType, Len(ino.entry) = ino.size,
         NEW inum \in Inodes, EntriesOf(ino, inum) # {}
  PROVE  LET c == Cleaned(Unregistered(ino, inum))
         IN /\ c \in InodeType /\ Len(c.entry) = c.size /\ c.size <= ino.size
            /\ c.type = ino.type /\ c.nlink = ino.nlink /\ c.reuse = ino.reuse
            /\ c.block = ino.block /\ c.indirect = ino.indirect
            /\ c.size = CleanSize(Unregistered(ino, inum))
            /\ c.size = 1 \/ c.size \in LiveIn(c)
            /\ \E k \in LiveIn(ino) :
                 /\ ino.entry[k].inum = inum
                 /\ LiveIn(c) = LiveIn(ino) \ {k}
                 /\ \A j \in LiveIn(ino) \ {k} : c.entry[j] = ino.entry[j]
<1> DEFINE u == Unregistered(ino, inum)
           c == Cleaned(u)
<1>1. PICK k \in LiveIn(ino) :
        /\ ino.entry[k].inum = inum
        /\ u = [ino EXCEPT !.entry = [ino.entry EXCEPT ![k].inum = Nil]]
        /\ u \in InodeType /\ Len(u.entry) = Len(ino.entry)
        /\ LiveIn(u) = LiveIn(ino) \ {k}
        /\ \A j \in LiveIn(ino) \ {k} : u.entry[j] = ino.entry[j]
  BY UnregisteredEntries
<1>2. /\ u.size = ino.size /\ u.type = ino.type /\ u.nlink = ino.nlink /\ u.reuse = ino.reuse
      /\ u.block = ino.block /\ u.indirect = ino.indirect
  BY <1>1 DEF InodeType
<1>3. u.size > 0 /\ Len(u.entry) = u.size /\ ino.size \in Nat
  BY <1>1, <1>2, InodeFields DEF LiveIn
<1> HIDE DEF u
<1>4. /\ c \in InodeType /\ Len(c.entry) = c.size /\ c.size \in 1 .. u.size
      /\ c = [u EXCEPT !.size = CleanSize(u), !.entry = SubSeq(u.entry, 1, CleanSize(u))]
      /\ LiveIn(c) = LiveIn(u)
      /\ \A j \in LiveIn(u) : c.entry[j] = u.entry[j]
      /\ c.size = 1 \/ c.size \in LiveIn(c)
  BY <1>1, <1>3, CleanedEntries
<1>5. /\ c.type = u.type /\ c.nlink = u.nlink /\ c.reuse = u.reuse
      /\ c.block = u.block /\ c.indirect = u.indirect /\ c.size = CleanSize(u)
  BY <1>1, <1>4 DEF InodeType
<1> HIDE DEF c
<1>6. c.size <= ino.size
  BY <1>2, <1>3, <1>4
<1>7. \A j \in LiveIn(ino) \ {k} : c.entry[j] = ino.entry[j]
  BY <1>1, <1>4
<1> QED BY <1>1, <1>2, <1>4, <1>5, <1>6, <1>7 DEF u, c

-----------------------------------------------------------------------------
(* The entries of a directory.                                             *)

\* A directory d with the entries it should have: "." and ".." first, then
\* names clients gave, each once, the last entry a live one.
WellFormed(ino, d) ==
  /\ Len(ino.entry) = ino.size
  /\ {1, 2} \subseteq LiveIn(ino)
  /\ ino.entry[1] = [inum |-> d, name |-> Dot]
  /\ ino.entry[2].name = DotDot
  /\ \A k \in LiveIn(ino) \ {1, 2} : ino.entry[k].name \in Names
  /\ \A j, k \in LiveIn(ino) : ino.entry[j].name = ino.entry[k].name => j = k
  /\ ino.size > 2 => ino.size \in LiveIn(ino)

\* "." and "..", alone, make a directory.
LEMMA CreatedWellFormed ==
  ASSUME NEW ino \in InodeType, NEW d \in Inodes, NEW parent \in Inodes, NEW new \in Blocks,
         NEW c, c = CreatedDirectory(ino, d, parent, new)
  PROVE  /\ c \in InodeType /\ WellFormed(c, d) /\ LiveIn(c) = {1, 2}
         /\ c.type = DIRECTORY /\ c.size = 2 /\ c.nlink = 1 /\ c.reuse = ino.reuse + 1
         /\ c.entry[2].inum = parent
<1> DEFINE e == << [inum |-> d, name |-> Dot], [inum |-> parent, name |-> DotDot] >>
           b == [ino.block EXCEPT ![0] = new]
<1>1. e \in Seq(Entry) /\ Len(e) = 2
  BY DEF Entry
<1>2. e[1] = [inum |-> d, name |-> Dot] /\ e[2] = [inum |-> parent, name |-> DotDot]
  OBVIOUS
<1>3. b \in [0 .. MaxBlocks - 1 -> Blocks \cup {Nil}]
  BY InodeFields
<1>4. 2 \in 0 .. MaxFileSize
  BY Geometry
<1>5. ino.reuse + 1 \in Nat
  BY InodeFields
<1>6. c = [ino EXCEPT !.type = DIRECTORY, !.size = 2, !.nlink = 1, !.reuse = ino.reuse + 1,
                      !.block = b, !.entry = e]
  BY DEF CreatedDirectory
<1> HIDE DEF e, b
<1>7. /\ c \in InodeType /\ c.entry = e /\ c.block = b /\ c.size = 2 /\ c.type = DIRECTORY
      /\ c.nlink = 1 /\ c.reuse = ino.reuse + 1 /\ c.indirect = ino.indirect
  <2>1. c.entry = e /\ c.block = b /\ c.size = 2 /\ c.type = DIRECTORY
    BY <1>6 DEF InodeType
  <2>2. c.nlink = 1 /\ c.reuse = ino.reuse + 1 /\ c.indirect = ino.indirect
    BY <1>6 DEF InodeType
  <2>3. c \in InodeType
    <3>1. c = [type |-> DIRECTORY, nlink |-> 1, reuse |-> ino.reuse + 1, size |-> 2,
               block |-> b, indirect |-> ino.indirect, entry |-> e]
      BY <1>6 DEF InodeType
    <3>2. ino.indirect \in Blocks \cup {Nil}
      BY InodeFields
    <3> QED BY <1>1, <1>3, <1>4, <1>5, <3>1, <3>2 DEF InodeType
  <2> QED BY <2>1, <2>2, <2>3
<1>8. LiveIn(c) = {1, 2}
  <2>1. d # Nil /\ parent # Nil
    BY NilAssumption
  <2>2. c.entry[1].inum = d /\ c.entry[2].inum = parent /\ Len(c.entry) = 2
    BY <1>1, <1>2, <1>7
  <2> QED BY <2>1, <2>2 DEF LiveIn
<1>9. WellFormed(c, d)
  BY <1>1, <1>2, <1>7, <1>8, NamesAssumption DEF WellFormed
<1> QED BY <1>2, <1>7, <1>8, <1>9

\* Of its pointers only the first changes.
LEMMA CreatedPointers ==
  ASSUME NEW ino \in InodeType, NEW d, NEW parent, NEW new
  PROVE  LET c == CreatedDirectory(ino, d, parent, new)
         IN c.block = [ino.block EXCEPT ![0] = new] /\ c.indirect = ino.indirect
BY DEF CreatedDirectory, InodeType

\* A directory that gets a name it did not have.
LEMMA RegisteredWellFormed ==
  ASSUME NEW ino \in InodeType, NEW r \in InodeType, NEW d, WellFormed(ino, d),
         Len(r.entry) = r.size, NEW k \in Nat \ LiveIn(ino), LiveIn(r) = LiveIn(ino) \cup {k},
         r.entry[k].name \in Names, \A j \in LiveIn(ino) : ino.entry[j].name # r.entry[k].name,
         \A j \in LiveIn(ino) : r.entry[j] = ino.entry[j],
         r.size = ino.size \/ r.size = k
  PROVE  WellFormed(r, d)
<1>1. r.size > 2 => r.size \in LiveIn(r)
  BY InodeFields DEF WellFormed
<1> QED BY <1>1 DEF WellFormed

\* A directory that loses a name.
LEMMA RemovedWellFormed ==
  ASSUME NEW ino \in InodeType, NEW c \in InodeType, NEW d, WellFormed(ino, d),
         Len(c.entry) = c.size, NEW k \in LiveIn(ino) \ {1, 2}, LiveIn(c) = LiveIn(ino) \ {k},
         \A j \in LiveIn(ino) \ {k} : c.entry[j] = ino.entry[j],
         c.size = 1 \/ c.size \in LiveIn(c)
  PROVE  WellFormed(c, d)
BY DEF WellFormed
=============================================================================
