----------------------------- MODULE YfsServer -----------------------------
(***************************************************************************)
(* The file server of yfs.c as its clients see it: the inodes, their       *)
(* blocks and directory entries, the two free lists, and one action per    *)
(* message handler.  The server is one thread that handles a message to    *)
(* its end before it receives the next, so a handler is one step.          *)
(*                                                                         *)
(* State is what the caches present (cache.c), whatever part of it is on   *)
(* disk.  The free lists are the sets of numbers they hold: that they hand *)
(* out each number once, and how the list of blocks loses the first block  *)
(* freed and wraps around while it is fresh, is the matter of FreeList.    *)
(* Which free number a pop returns is left open here.                      *)
(*                                                                         *)
(* The server stops taking part ("status") when an assert of GetInode or   *)
(* GetBlock fails on number 0 (cache.c:184, 374), and the model stops when *)
(* the code goes on with a state that is broken: the fresh list of blocks  *)
(* wrapped and offers blocks in use ("exhausted"), an unset pointer was    *)
(* taken for a hole but names some block ("stale"), or a pointer was       *)
(* written behind the end of an indirect block ("overrun").                *)
(***************************************************************************)
EXTENDS Inode, Functions

CONSTANTS Root      \* ROOTINODE
        , MaxReuse  \* bound: how often an inode is created in a run
        , Positions \* the positions and
        , Lengths   \* lengths, in cells, that clients read and write at

ASSUME RootAssumption == Root \in Inodes

\* What CreateFile and CreateLink test of the list of free blocks is its
\* capacity (yfs.c:647, 1113), the number of all blocks: it never fails.
ASSUME BlocksAssumption == IsFiniteSet(Blocks) /\ Cardinality(Blocks) >= 3

ASSUME BoundsAssumption ==
  MaxReuse \in Nat \ {0} /\ Positions \subseteq Nat /\ Lengths \subseteq Nat

VARIABLES inode            \* every inode, as the inode cache presents it
        , free_inode_list  \* the numbers in the list of free inodes
        , free_block_list  \* the numbers in the list of free blocks
        , fresh            \* no block was pushed since boot
        , status           \* "up", or how the server stopped

vars == <<inode, free_inode_list, free_block_list, fresh, status>>

Stops == {"aborted", "exhausted", "stale", "overrun"}

\* The server boots on a disk that mkyfs formatted: the root directory has
\* one block, everything else is free.
Init ==
  \E b \in Blocks :
    /\ inode = [i \in Inodes |->
                  IF i = Root THEN [CreatedDirectory(FreeInode, Root, Root, b) EXCEPT !.nlink = 2]
                  ELSE FreeInode]
    /\ free_inode_list = Inodes \ {Root}
    /\ free_block_list = Blocks \ {b}
    /\ fresh = TRUE
    /\ status = "up"

Halt(why) ==
  /\ status' = why
  /\ UNCHANGED <<inode, free_inode_list, free_block_list, fresh>>

Refuse == UNCHANGED vars

-----------------------------------------------------------------------------
(* The free lists.                                                         *)

\* What n pops may return when the list has n blocks to give.  The fresh list
\* wraps with the pop that takes its last block.
Draws(n) == { s \in [1 .. n -> free_block_list] : IsInjective(s) }

Supplies(n) ==
  n = 0 \/ n < Cardinality(free_block_list) \/ (n = Cardinality(free_block_list) /\ ~fresh)

\* Nothing tests for a list that has run dry: the pop returns 0, and GetBlock
\* or GetInode fails on it; the fresh list goes on with blocks in use.
RunDry == Halt(IF fresh THEN "exhausted" ELSE "aborted")

\* The list of blocks once the blocks in taken were popped and then those in
\* given were pushed: the first push since boot is lost.
UpdateBlocks(taken, given) ==
  LET rest == free_block_list \ taken
  IN \/ given = {} /\ free_block_list' = rest /\ fresh' = fresh
     \/ given # {} /\ ~fresh /\ free_block_list' = rest \cup given /\ fresh' = fresh
     \/ /\ given # {} /\ fresh /\ fresh' = FALSE
        /\ \E lost \in given : free_block_list' = rest \cup (given \ {lost})

-----------------------------------------------------------------------------
(* The message handlers.  p is the inode number of the parent directory    *)
(* and i that of the target in the message.                                *)

IsDirectory(i) == inode[i].type = DIRECTORY

\* CreateFile finds the name taken: the file, or the directory, is truncated.
TruncateExisting(p, n) ==
  LET t == SearchDirectory(inode[p], n)
  IN /\ t # Nil
     /\ IF CanTruncate(inode[t])
        THEN /\ inode' = [inode EXCEPT ![t] = Truncated(@)]
             /\ UpdateBlocks({}, Owned(inode[t]))
             /\ UNCHANGED <<free_inode_list, status>>
        ELSE Halt("aborted")

\* CreateFile makes a new inode t, a directory's own block first, and enters
\* it in the parent.
CreateNew(p, n, type) ==
  LET own  == IF type = DIRECTORY THEN 1 ELSE 0
      need == own + BlocksToRegister(inode[p])
  IN /\ SearchDirectory(inode[p], n) = Nil
     /\ \/ free_inode_list = {} /\ Halt("aborted")
        \/ free_inode_list # {} /\ ~Supplies(need) /\ RunDry
        \/ /\ Supplies(need)
           /\ \E t \in free_inode_list, pops \in Draws(need) :
                LET made == IF type = DIRECTORY
                            THEN CreatedDirectory(inode[t], t, p, pops[1])
                            ELSE CreatedFile(inode[t])
                IN /\ inode[t].reuse < MaxReuse
                   /\ inode' = [inode EXCEPT
                        ![t] = [made EXCEPT !.nlink = @ + 1],
                        ![p] = [Registered(inode[p], t, n, SubSeq(pops, own + 1, need))
                                  EXCEPT !.nlink = @ + own]]
                   /\ free_inode_list' = free_inode_list \ {t}
                   /\ UpdateBlocks(Range(pops), {})
                   /\ UNCHANGED status

CreateFile(p, n, type) ==
  /\ status = "up"
  /\ \/ ~IsDirectory(p) /\ Refuse
     \/ IsDirectory(p) /\ inode[p].size >= MaxFileSize /\ Refuse
     \/ /\ IsDirectory(p) /\ inode[p].size < MaxFileSize
        /\ TruncateExisting(p, n) \/ CreateNew(p, n, type)

\* ReadFile changes nothing, but it fetches the indirect block of a file that
\* fills its direct blocks, whether the file has one or not.
ReadFile(i, pos, size, reuse) ==
  /\ status = "up"
  /\ IF /\ inode[i].reuse = reuse /\ inode[i].type # FREE
        /\ pos + size <= inode[i].size \/ pos < inode[i].size
        /\ inode[i].size >= MaxDirectSize /\ inode[i].indirect = Nil
     THEN Halt("aborted")
     ELSE Refuse

\* The blocks a write adds to a file: those from the first one written on that
\* lie behind the end of the file.  The ones it skips over are holes, for which
\* no block is popped and whose pointers keep the value they have.
NewBlocks(ino, pos, size) ==
  { k \in pos \div BlockSize .. GetBlockCount(pos + size) - 1 : k >= GetBlockCount(ino.size) }

Holes(ino, pos, size) ==
  { k \in GetBlockCount(ino.size) .. GetBlockCount(pos + size) - 1 : k < pos \div BlockSize }

\* The file as WriteFile leaves it, when it popped the block new[k] for each k
\* of NewBlocks and ind, unless that is Nil, for the indirect block.
Written(ino, end, new, ind) ==
  LET word(k) == IF ind # Nil /\ k >= NumDirect THEN Nil ELSE ino.block[k]
  IN [ino EXCEPT !.size     = IF end > @ THEN end ELSE @,
                 !.indirect = IF ind # Nil THEN ind ELSE @,
                 !.block    = [k \in DOMAIN @ |-> IF k \in DOMAIN new THEN new[k] ELSE word(k)]]

\* WriteFile pops its blocks and stores: into a hole it cannot.
StoreFile(i, pos, size, new, ind) ==
  LET ino   == inode[i]
      after == Written(ino, pos + size, new, ind)
      holes == Holes(ino, pos, size)
  IN IF \E k \in pos \div BlockSize .. GetBlockCount(pos + size) - 1 : after.block[k] = Nil
     THEN Halt("aborted")
     ELSE /\ inode' = [inode EXCEPT ![i] = after]
          /\ UpdateBlocks(Range(new) \cup ({ind} \ {Nil}), {})
          /\ status' = IF \/ \E k \in holes : k < NumDirect /\ ino.block[k] # Nil
                          \/ NumDirect \in holes /\ ino.indirect # Nil
                       THEN "stale" ELSE "up"
          /\ UNCHANGED free_inode_list

\* What WriteFile refuses: -1 to -4 of its replies, none of which changes anything.
\* It counts the blocks it needs only after it fetched the indirect block of a
\* file that fills its direct ones.
WriteRefused(i, pos, size, reuse) ==
  LET adds == NewBlocks(inode[i], pos, size)
  IN \/ pos + size > MaxFileSize \/ inode[i].type # REGULAR \/ inode[i].reuse # reuse
     \/ /\ inode[i].size >= MaxDirectSize => inode[i].indirect # Nil
        /\ Cardinality(Blocks) <= Cardinality(adds) + (IF NumDirect \in adds THEN 1 ELSE 0)

\* WriteFile.  The indirect block is popped with the first block behind the
\* direct ones; a write that leaves that one a hole fetches whatever block the
\* pointer names.
WriteFile(i, pos, size, reuse) ==
  LET ino   == inode[i]
      adds  == NewBlocks(ino, pos, size)
      inds  == NumDirect \in adds
      need  == Cardinality(adds) + (IF inds THEN 1 ELSE 0)
      skips == ~inds /\ GetBlockCount(ino.size) <= NumDirect /\ \E k \in adds : k > NumDirect
      fetch == skips \/ ino.size >= MaxDirectSize
      refused == WriteRefused(i, pos, size, reuse)
  IN /\ status = "up"
     /\ \/ refused /\ Refuse
        \/ ~refused /\ fetch /\ ino.indirect = Nil /\ Halt("aborted")
        \/ ~refused /\ skips /\ ino.indirect # Nil /\ Halt("stale")
        \/ /\ ~refused /\ ~skips /\ (fetch => ino.indirect # Nil)
           /\ \/ ~Supplies(need) /\ RunDry
              \/ /\ Supplies(need)
                 /\ \E new \in { f \in [adds -> free_block_list] : IsInjective(f) },
                       ind \in IF inds THEN free_block_list ELSE {Nil} :
                      ind \notin Range(new) /\ StoreFile(i, pos, size, new, ind)

\* Mutant of WithoutDir: the link of the target's ".." is still counted.
WithoutDir_KeepsLink(i, p) ==
  [inode EXCEPT ![i] = [@ EXCEPT !.type = FREE, !.size = 0, !.nlink = 0, !.entry = <<>>],
                ![p] = Cleaned(Unregistered(@, i))]

\* What ".." among the first two entries of a directory stands for.  (The code
\* takes every name with '.' as its second character for "..".)
Above(i) == { inode[i].entry[k].inum : k \in { k \in 1 .. 2 : inode[i].entry[k].name = DotDot } }

\* DeleteDir.  The parent of the target, found by its "..", loses a link; the
\* inode goes to no list, and neither does its block.
WithoutDir(i, p) ==
  LET gone == [inode EXCEPT ![i] = [@ EXCEPT !.type = FREE, !.size = 0, !.nlink = 0, !.entry = <<>>],
                            ![p] = Cleaned(Unregistered(@, i))]
  IN [j \in Inodes |-> IF j \in Above(i) THEN [gone[j] EXCEPT !.nlink = @ - 1] ELSE gone[j]]

\* It reads two entries, there or not: a directory that was truncated may have
\* fewer, and then what an earlier owner left in the block.
DeleteDir(i, p, junk) ==
  /\ status = "up"
  /\ IF \/ i = Root \/ ~IsDirectory(p) \/ ~IsDirectory(i) \/ inode[i].size > 2
        \/ EntriesOf(inode[p], i) = {}
     THEN Refuse
     ELSE \/ inode[i].size < 2 /\ Halt("stale")
          \/ /\ inode[i].size = 2
             /\ IF Nil \in Above(i) THEN Halt("aborted")
                ELSE /\ inode' = WithoutDir(i, p)
                     /\ UpdateBlocks({}, FreedByClean(Unregistered(inode[p], i), junk))
                     /\ UNCHANGED <<free_inode_list, status>>

\* Mutant of WithLink: the new link is not counted.
WithLink_NotCounted(i, p, n, pops) == [inode EXCEPT ![p] = Registered(@, i, n, pops)]

\* Mutant of CanLink: whatever the library found is linked.
CanLink_Anything(i, p) == IsDirectory(p)

\* CreateLink tests the types again, but not that the name is unused, nor that
\* the directory can grow.
CanLink(i, p) == inode[i].type = REGULAR /\ IsDirectory(p)

WithLink(i, p, n, pops) ==
  [inode EXCEPT ![p] = Registered(@, i, n, pops), ![i].nlink = @ + 1]

CreateLink(i, p, n) ==
  LET need == BlocksToRegister(inode[p])
  IN /\ status = "up"
     /\ \/ ~CanLink(i, p) /\ Refuse
        \/ /\ CanLink(i, p)
           /\ \/ ~CanRegister(inode[p]) /\ Halt("overrun")
              \/ CanRegister(inode[p]) /\ ~Supplies(need) /\ RunDry
              \/ /\ CanRegister(inode[p]) /\ Supplies(need)
                 /\ \E pops \in Draws(need) :
                      /\ inode' = WithLink(i, p, n, pops)
                      /\ UpdateBlocks(Range(pops), {})
                      /\ UNCHANGED <<free_inode_list, status>>

\* Mutant of Unlinked: the inode goes to the free list but keeps its type.
Unlinked_KeepsType(ino) ==
  IF ino.nlink = 1 THEN [Truncated(ino) EXCEPT !.nlink = 0] ELSE [ino EXCEPT !.nlink = @ - 1]

\* DeleteLink: with its last link the file is truncated and its inode freed.
Unlinked(ino) ==
  IF ino.nlink = 1 THEN [Truncated(ino) EXCEPT !.nlink = 0, !.type = FREE]
                   ELSE [ino EXCEPT !.nlink = @ - 1]

DeleteLink(i, p, junk) ==
  LET last == inode[i].nlink = 1
  IN /\ status = "up"
     /\ \/ ~(IsDirectory(p) /\ EntriesOf(inode[p], i) # {}) /\ Refuse
        \/ /\ IsDirectory(p) /\ EntriesOf(inode[p], i) # {}
           /\ last /\ ~CanTruncate(inode[i]) /\ Halt("aborted")
        \/ /\ IsDirectory(p) /\ EntriesOf(inode[p], i) # {}
           /\ last => CanTruncate(inode[i])
           /\ inode' = [inode EXCEPT ![i] = Unlinked(@), ![p] = Cleaned(Unregistered(@, i))]
           /\ free_inode_list' = free_inode_list \cup (IF last THEN {i} ELSE {})
           /\ UpdateBlocks({}, FreedByClean(Unregistered(inode[p], i), junk)
                               \cup IF last THEN Owned(inode[i]) ELSE {})
           /\ UNCHANGED status

-----------------------------------------------------------------------------
(* Calls of iolib.c, each run to its end before the next begins.  A call   *)
(* resolves its pathname with MSG_SEARCH_FILE messages first: p is the     *)
(* directory the last component is looked up in, n that component.         *)

Lookup(p, n) == IF IsDirectory(p) THEN SearchDirectory(inode[p], n) ELSE Nil

Create(p, n) ==
  /\ Lookup(p, n) # Nil => ~IsDirectory(Lookup(p, n))
  /\ CreateFile(p, n, REGULAR)

\* Mutant of MkDir: it does not mind that the name is taken.
MkDir_AnyName(p, n) == CreateFile(p, n, DIRECTORY)

MkDir(p, n) == Lookup(p, n) = Nil /\ CreateFile(p, n, DIRECTORY)

RmDir(p, n) == Lookup(p, n) # Nil /\ \E junk \in BOOLEAN : DeleteDir(Lookup(p, n), p, junk)

Link(i, p, n) ==
  /\ \E d \in Inodes, m \in Names : Lookup(d, m) = i
  /\ Lookup(p, n) = Nil
  /\ CreateLink(i, p, n)

Unlink(p, n) ==
  /\ Lookup(p, n) # Nil /\ ~IsDirectory(Lookup(p, n))
  /\ \E junk \in BOOLEAN : DeleteLink(Lookup(p, n), p, junk)

\* Read and Write send the inode number and the reuse count that the file
\* descriptor got when it was opened, which may be long ago.
Read(i, r, pos, size)  == ReadFile(i, pos, size, r)
Write(i, r, pos, size) == WriteFile(i, pos, size, r)

Directories ==
  \E p \in Inodes, n \in Names :
    Create(p, n) \/ MkDir(p, n) \/ RmDir(p, n) \/ Unlink(p, n) \/ \E i \in Inodes : Link(i, p, n)

Files ==
  \E i \in Inodes, pos \in Positions, size \in Lengths : \E r \in 1 .. inode[i].reuse :
    Read(i, r, pos, size) \/ Write(i, r, pos, size)

Next == Directories \/ Files

Spec == Init /\ [][Next]_vars

-----------------------------------------------------------------------------
(* Properties of the server while it is up, every handler done.            *)

Used == { i \in Inodes : inode[i].type # FREE }

\* The numbers k for which the k-th entry of directory d stands for inode i.
Links(i) == { l \in Used \X (1 .. MaxFileSize) :
                l[2] <= Len(inode[l[1]].entry) /\ inode[l[1]].entry[l[2]].inum = i }

Live(d) == { k \in 1 .. Len(inode[d].entry) : inode[d].entry[k].inum # Nil }

Children(d) == { inode[d].entry[k].inum : k \in Live(d) \ {1, 2} }

\* Every variable has its type.
TypeOK ==
  /\ inode \in [Inodes -> InodeType]
  /\ free_inode_list \in SUBSET Inodes
  /\ free_block_list \in SUBSET Blocks
  /\ fresh \in BOOLEAN
  /\ status \in {"up"} \cup Stops

\* nlink of every inode in use is the number of directory entries that name
\* it, "." and ".." included: DeleteLink frees an inode (yfs.c:1163) exactly
\* when its last name goes, after any sequence of links, unlinks and removals.
LinkCounts == \A i \in Used : inode[i].nlink = Cardinality(Links(i))

\* The directories form a tree: "." is the directory itself, ".." of any other
\* than the root is the one directory that names it, each name of a directory
\* is there once and stands for an inode in use, and every inode in use is
\* found by some path from the root (what CreateFile, DeleteDir and CreateLink
\* leave after they registered and unregistered entries).
Tree ==
  /\ \A d \in Used : IsDirectory(d) =>
       /\ Len(inode[d].entry) = inode[d].size /\ {1, 2} \subseteq Live(d)
       /\ inode[d].entry[1] = [inum |-> d, name |-> Dot]
       /\ inode[d].entry[2].name = DotDot
  /\ \A d \in Used : IsDirectory(d) =>
       /\ \A j, k \in Live(d) : inode[d].entry[j].name = inode[d].entry[k].name => j = k
       /\ \A c \in Children(d) : c \in Used
       /\ \A c \in Children(d) : IsDirectory(c) =>
            /\ inode[c].entry[2].inum = d
            /\ Cardinality({ k \in Live(d) : inode[d].entry[k].inum = c }) = 1
  /\ \A S \in SUBSET Used :
       Root \in S /\ (\A d \in S : IsDirectory(d) => Children(d) \subseteq S) => S = Used

\* The directory entries, without "." and "..", are the tree of Namespace: a call
\* enters or removes one name, a file is freed with the last of its names, and a
\* directory only when it has no entries, whatever link counts, sizes and holes
\* in the array of entries the code decides that by (yfs.c:595-673, 986-1177).
NS == INSTANCE Namespace WITH
  kind <- [i \in Inodes |-> CASE inode[i].type = DIRECTORY -> "directory"
                               [] inode[i].type = REGULAR   -> "file"
                               [] OTHER                     -> "none"],
  tree <- UNION { { <<d, inode[d].entry[k].name, inode[d].entry[k].inum>> : k \in Live(d) \ {1, 2} }
                  : d \in { d \in Inodes : inode[d].type = DIRECTORY } }
ImplementsNamespace == NS!Spec

\* size > 2 entries, what DeleteDir takes for "not empty" (yfs.c:1027), means
\* just that: CleanDirectory left no cleared entries behind the last live one,
\* so an empty directory can always be removed and no other ever is.
EmptyIsSmall == \A d \in Used : IsDirectory(d) => (inode[d].size > 2 <=> Children(d) # {})

\* No block has two owners: the blocks inodes own by their sizes are theirs
\* alone, each pointer of an inode names another one, and none of them is in
\* the list of free blocks (or pushed twice, by CleanDirectory on shrinking a
\* directory and by TruncateFileInode on freeing a file).
BlocksExclusive ==
  status = "up" =>
    /\ \A i, j \in Used : i # j => Owned(inode[i]) \cap Owned(inode[j]) = {}
    /\ \A i \in Used : LET own == { k \in 0 .. GetBlockCount(inode[i].size) - 1 :
                                     inode[i].block[k] # Nil }
                        IN Cardinality(Owned(inode[i]))
                             = Cardinality(own) + Cardinality(IndirectOf(inode[i]))
    /\ \A i \in Used : Owned(inode[i]) \cap free_block_list = {}

\* The list of free inodes holds only inodes that are free.
FreeInodesFree == free_inode_list \cap Used = {}

\* An inode number and a reuse count name one file for ever, so a descriptor
\* kept over Unlink and Create is told from the new file (yfs.c:695, 821): the
\* count never falls, an inode comes into use only with a count one higher,
\* and never changes between file and directory otherwise.
Incarnations ==
  [][\A i \in Inodes :
       \/ inode'[i].reuse = inode[i].reuse /\ inode'[i].type \in {inode[i].type, FREE}
       \/ inode'[i].reuse = inode[i].reuse + 1 /\ inode[i].type = FREE]_vars

\* "If no free inode to spare, error" (yfs.c:637): the server does not stop
\* when it is asked for a file and the list of free inodes is empty.
ErrorWithoutInode ==
  [][(free_inode_list = {} /\ \E p \in Inodes, n \in Names : CreateFile(p, n, REGULAR))
       => status' = "up"]_vars

\* "Removes a directory and every file inside. Must not contain any directories"
\* (README.md:160): a directory without directories in it can be removed.
RmDirRemovesFiles ==
  status = "up" =>
    \A p \in Used, n \in Names :
      LET d == Lookup(p, n)
      IN d # Nil /\ IsDirectory(d) /\ (\A c \in Children(d) : ~IsDirectory(c))
           => ENABLED <<RmDir(p, n)>>_vars

\* "Removes directory entry for 'pathname'" (iolib.c:471): after Unlink the
\* name is gone.
UnlinkRemovesName ==
  [][\A p \in Inodes, n \in Names : Unlink(p, n) => Lookup(p, n)' = Nil \/ status' # "up"]_vars

\* "if block is entirely hole, it is 0" (yfs.c:843): the pointer of a block
\* that a write skipped over is never one of an earlier file.
HolesAreZero == status # "stale"
=============================================================================
