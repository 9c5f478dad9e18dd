------------------------------- MODULE Inode -------------------------------
(***************************************************************************)
(* One inode of the file system and the operations of yfs.c on it: what    *)
(* they leave in the inode and in the blocks it owns, which blocks they    *)
(* take and which they give back.  Values only; the state and the message  *)
(* handlers are in YfsServer.                                              *)
(*                                                                         *)
(* Sizes and positions count cells of sizeof(struct dir_entry) bytes, so a *)
(* block holds BlockSize cells.  ino.block[k] is the k-th block pointer of *)
(* the inode: direct[k] for k < NumDirect, and word k - NumDirect of the   *)
(* indirect block from there on.  ino.entry is the array of directory      *)
(* entries of a directory, <<>> for any other inode: entry[k + 1] is the   *)
(* dir_entry at dir_index k.  No operation clears a pointer that it frees. *)
(***************************************************************************)
EXTENDS Integers, Sequences, FiniteSets

CONSTANTS BlockSize     \* cells in a block: DIR_PER_BLOCK (yfs.c:20)
        , NumDirect     \* NUM_DIRECT, pointers in the inode itself
        , NumIndirect   \* pointers in an indirect block
        , Names         \* the names clients use for files
        , Dot, DotDot   \* the names "." and ".."
        , Inodes        \* the inode numbers
        , Blocks        \* the data blocks
        , Nil           \* 0: no inode, no block

ASSUME GeometryAssumption ==
  /\ BlockSize \in Nat \ {0, 1} /\ NumDirect \in Nat \ {0} /\ NumIndirect \in Nat \ {0}

ASSUME NilAssumption == Nil \notin Inodes /\ Nil \notin Blocks

ASSUME NamesAssumption == Dot \notin Names /\ DotDot \notin Names /\ Dot # DotDot

FREE      == "free"
DIRECTORY == "directory"
REGULAR   == "regular"

MaxBlocks     == NumDirect + NumIndirect
MaxDirectSize == BlockSize * NumDirect
MaxFileSize   == BlockSize * MaxBlocks

Entry == [inum : Inodes \cup {Nil}, name : Names \cup {Dot, DotDot}]

InodeType ==
  [type : {FREE, DIRECTORY, REGULAR}, nlink : Int, reuse : Nat, size : 0 .. MaxFileSize,
   block : [0 .. MaxBlocks - 1 -> Blocks \cup {Nil}], indirect : Blocks \cup {Nil},
   entry : Seq(Entry)]

\* An inode as mkyfs writes it.
FreeInode ==
  [type |-> FREE, nlink |-> 0, reuse |-> 0, size |-> 0,
   block |-> [k \in 0 .. MaxBlocks - 1 |-> Nil], indirect |-> Nil, entry |-> <<>>]

GetBlockCount(size) == (size + BlockSize - 1) \div BlockSize

\* The indirect block of an inode, which belongs to it while its size needs one.
IndirectOf(ino) ==
  IF GetBlockCount(ino.size) > NumDirect THEN {ino.indirect} \ {Nil} ELSE {}

\* Mutant of Owned: the pointers of holes are given back, too.
Owned_HolesToo(ino) ==
  { ino.block[k] : k \in 0 .. GetBlockCount(ino.size) - 1 } \cup IndirectOf(ino)

\* The blocks an inode owns by its size: those its first pointers name, and
\* the indirect block if there are more than NumDirect of them.
Owned(ino) ==
  ({ ino.block[k] : k \in 0 .. GetBlockCount(ino.size) - 1 } \ {Nil}) \cup IndirectOf(ino)

-----------------------------------------------------------------------------
(* Creation and truncation.                                                *)

\* Mutant of CreatedFile: the reuse count is not incremented.
CreatedFile_SameReuse(ino) ==
  [ino EXCEPT !.type = REGULAR, !.size = 0, !.nlink = 0, !.entry = <<>>]

\* CreateFileInode: what the previous owner of the inode left in the pointers
\* stays there, except direct[0] of a directory.  new is the block popped.
CreatedFile(ino) ==
  [ino EXCEPT !.type = REGULAR, !.size = 0, !.nlink = 0, !.reuse = @ + 1, !.entry = <<>>]

\* Mutant of CreatedDirectory: the reuse count is not incremented.
CreatedDirectory_SameReuse(ino, inum, parent, new) ==
  [ino EXCEPT !.type = DIRECTORY, !.size = 2, !.nlink = 1, !.block[0] = new,
              !.entry = << [inum |-> inum, name |-> Dot], [inum |-> parent, name |-> DotDot] >>]

CreatedDirectory(ino, inum, parent, new) ==
  [ino EXCEPT !.type = DIRECTORY, !.size = 2, !.nlink = 1, !.reuse = @ + 1,
              !.block[0] = new,
              !.entry = << [inum |-> inum, name |-> Dot], [inum |-> parent, name |-> DotDot] >>]

\* Mutant of Truncated: the size is not reset.
Truncated_KeepsSize(ino) == [ino EXCEPT !.entry = <<>>]

\* TruncateFileInode gives back every block the inode owns.  It reads the
\* indirect block of a long file, which must be there.
Truncated(ino) == [ino EXCEPT !.size = 0, !.entry = <<>>]

CanTruncate(ino) == GetBlockCount(ino.size) > NumDirect => ino.indirect # Nil

-----------------------------------------------------------------------------
(* Directories.                                                            *)

Least(S) == CHOOSE k \in S : \A j \in S : k <= j

\* The inode a name stands for in a directory, the first match, or Nil.
SearchDirectory(ino, name) ==
  LET hits == { k \in 1 .. Len(ino.entry) : ino.entry[k].inum # Nil /\ ino.entry[k].name = name }
  IN IF hits = {} THEN Nil ELSE ino.entry[Least(hits)].inum

\* RegisterDirectory: the first cleared entry is reused; without one the
\* directory grows by an entry, which takes a block at the start of each
\* block and the indirect block as well when the direct pointers are used up.
Cleared(ino) == { k \in 1 .. Len(ino.entry) : ino.entry[k].inum = Nil }

BlocksToRegister(ino) ==
  IF Cleared(ino) # {} \/ ino.size % BlockSize # 0 THEN 0
  ELSE IF ino.size = MaxDirectSize THEN 2 ELSE 1

Registered(ino, inum, name, new) ==
  LET e == [inum |-> inum, name |-> name]
      n == BlocksToRegister(ino)
  IN IF Cleared(ino) # {}
     THEN [ino EXCEPT !.entry[Least(Cleared(ino))] = e]
     ELSE [ino EXCEPT !.size = @ + 1, !.entry = Append(@, e),
                      !.indirect = IF n = 2 THEN new[1] ELSE @,
                      !.block[ino.size \div BlockSize] = IF n > 0 THEN new[n] ELSE @]

\* The code does not test that a directory can grow: the handler that forgets
\* to writes a pointer past the end of the indirect block.
CanRegister(ino) == Cleared(ino) # {} \/ ino.size < MaxFileSize

\* UnregisterDirectory clears the first entry with that inode number.
EntriesOf(ino, inum) == { k \in 1 .. Len(ino.entry) : ino.entry[k].inum = inum }

Unregistered(ino, inum) == [ino EXCEPT !.entry[Least(EntriesOf(ino, inum))].inum = Nil]

\* CleanDirectory drops the cleared entries at the end, down to the first
\* entry, and gives back each block that lies entirely behind the new end.
\* Leaving the first block of the indirect range it tests the word in front
\* of the indirect block in memory, indirect_block[-1] (yfs.c:510), instead
\* of the pointer: junk says whether that word is different from 0.
CleanSize(ino) ==
  LET live == { k \in 1 .. Len(ino.entry) : k = 1 \/ ino.entry[k].inum # Nil }
  IN IF live = {} THEN 0 ELSE CHOOSE k \in live : \A j \in live : j <= k

\* Mutant of Cleaned: only one cleared entry at the end is dropped.
Cleaned_One(ino) ==
  LET n == IF CleanSize(ino) < Len(ino.entry) THEN Len(ino.entry) - 1 ELSE Len(ino.entry)
  IN [ino EXCEPT !.size = n, !.entry = SubSeq(@, 1, n)]

Cleaned(ino) ==
  [ino EXCEPT !.size = CleanSize(ino), !.entry = SubSeq(@, 1, CleanSize(ino))]

\* Mutant of FreedByClean: it gives back the block the end now lies in, too.
FreedByClean_OneMore(ino, junk) ==
  LET gone == CleanSize(ino) \div BlockSize .. GetBlockCount(ino.size) - 1
  IN { ino.block[k] : k \in gone } \ {Nil}

FreedByClean(ino, junk) ==
  LET gone == GetBlockCount(CleanSize(ino)) .. GetBlockCount(ino.size) - 1
      data == { k \in gone : k # NumDirect \/ junk }
  IN ({ ino.block[k] : k \in data } \ {Nil})
     \cup (IF NumDirect \in gone THEN {ino.indirect} \ {Nil} ELSE {})
=============================================================================
