------------------------------ MODULE FreeList ------------------------------
(***************************************************************************)
(* The two free lists of the server, free_inode_list and free_block_list   *)
(* (yfs.c:28-29): how boot fills them and what the pops and pushes of the  *)
(* request handlers do to them.  Both are rings of buffer.c over the       *)
(* numbers 1 .. Size (block numbers are counted from the first data        *)
(* block).  SpecInodes starts from GetFreeInodeList, SpecBlocks from       *)
(* GetFreeBlockList, and SpecLists from either of them.                    *)
(***************************************************************************)
EXTENDS Buffer, BootScan

VARIABLES list     \* the struct buffer
        , boot     \* free_block_list->b as GetFreeBlockList built it
        , todo     \* iterations the boot loop has left
        , used     \* the numbers in use: inodes that are not INODE_FREE, blocks of files
        , orphans  \* ghost: numbers that are free but were never pushed
        , missed   \* ghost: the blocks in use that the boot scan passed over
        , wrapped  \* ghost: the boot-time array was popped past its end while it was fresh
        , got      \* the value the last pop returned

vars == <<list, boot, todo, used, orphans, missed, wrapped, got>>

fresh == list.in = list.size

Booted == todo = 0

-----------------------------------------------------------------------------
(* Boot of the inode list: an empty ring, every free inode pushed.         *)

GetFreeInodeList ==
  /\ list = GetBuffer(Size)
  /\ boot = <<>>
  /\ used \in SUBSET Ids
  /\ todo = Size

ScanInode ==
  /\ ~Booted /\ ~fresh
  /\ LET i == Size - todo + 1
     IN list' = IF i \in used THEN list ELSE PushToBuffer(list, i)
  /\ todo' = todo - 1
  /\ UNCHANGED <<boot, used, orphans, missed, wrapped, got>>

(* Boot of the block list: a ring filled by hand with the busy blocks in   *)
(* front, which are then popped: one pop for each pointer of the scan, so  *)
(* that boot itself may pop the array past its end.                        *)

GetFreeBlockList ==
  \E ptrs \in PointerLists, behind \in Words :
    /\ boot = Scanned(ptrs, behind) /\ todo = Len(ptrs)
    /\ used = Busy(ptrs) /\ orphans = Lost(ptrs, boot)
    /\ missed = { ptrs[k].num : k \in { j \in DOMAIN ptrs : Passed(ptrs[j]) } }
    /\ list = [size |-> Size, b |-> [k \in 0 .. Size |-> IF k < Size THEN boot[k + 1] ELSE 0],
               in |-> Size, out |-> 0, empty |-> FALSE, full |-> TRUE]

DiscardBusy ==
  /\ ~Booted /\ fresh
  /\ got' = Front(list)
  /\ list' = PopFromBuffer(list)
  /\ wrapped' = (wrapped \/ list'.out = 0)
  /\ todo' = todo - 1
  /\ UNCHANGED <<boot, used, orphans, missed>>

-----------------------------------------------------------------------------
(* The handlers.                                                           *)

\* A pop that finds a number: CreateFile takes an inode, a write a block.
Alloc ==
  /\ Booted /\ ~list.empty
  /\ got' = Front(list)
  /\ list' = PopFromBuffer(list)
  /\ used' = used \cup ({got'} \ {0})
  /\ wrapped' = (wrapped \/ (fresh /\ list'.out = 0))
  /\ UNCHANGED <<boot, todo, orphans, missed>>

\* A pop of the empty list returns 0: the capacity is what the callers test,
\* never whether the list is empty.
AllocEmpty ==
  /\ Booted /\ list.empty
  /\ got' = Front(list)
  /\ list' = PopFromBuffer(list)
  /\ UNCHANGED <<boot, todo, used, orphans, missed, wrapped>>

\* Mutant of Release: the number is freed, but the push was forgotten.
Release_NoPush(i) ==
  /\ Booted /\ i \in used
  /\ used' = used \ {i}
  /\ UNCHANGED <<list, boot, todo, orphans, missed, wrapped, got>>

\* A push: DeleteLink frees an inode, TruncateFileInode a block.
Release(i) ==
  /\ Booted /\ i \in used
  /\ list' = PushToBuffer(list, i)
  /\ used' = used \ {i}
  /\ UNCHANGED <<boot, todo, orphans, missed, wrapped, got>>

\* DeleteDir frees the inode and the block of a directory without a push.
Retire(i) ==
  /\ Booted /\ i \in used
  /\ used' = used \ {i}
  /\ orphans' = orphans \cup {i}
  /\ UNCHANGED <<list, boot, todo, missed, wrapped, got>>

Handlers == Alloc \/ AllocEmpty \/ \E i \in Ids : Release(i) \/ Retire(i)

InitInodes == GetFreeInodeList /\ orphans = {} /\ missed = {} /\ wrapped = FALSE /\ got = 0
NextInodes == ScanInode \/ Handlers
SpecInodes == InitInodes /\ [][NextInodes]_vars

InitBlocks == GetFreeBlockList /\ wrapped = FALSE /\ got = 0
NextBlocks == DiscardBusy \/ Handlers
SpecBlocks == InitBlocks /\ [][NextBlocks]_vars

SpecLists == (InitInodes \/ InitBlocks) /\ [][NextInodes \/ NextBlocks]_vars

-----------------------------------------------------------------------------
(* Properties.                                                             *)

Held == { Contents(list)[k] : k \in DOMAIN Contents(list) }

NoDuplicates ==
  \A j, k \in DOMAIN Contents(list) : Contents(list)[j] = Contents(list)[k] => j = k

\* Every variable has its type: the indices of the ring stay inside the array,
\* the one slot past its end included.
TypeOK ==
  /\ list \in [size : {Size}, b : [0 .. Size -> 0 .. Size], in : 0 .. Size,
               out : 0 .. Size - 1, empty : BOOLEAN, full : BOOLEAN]
  /\ boot \in Seq(0 .. Size)
  /\ todo \in 0 .. (IF boot = <<>> THEN Size ELSE MaxPointers)
  /\ used \in SUBSET Ids
  /\ orphans \in SUBSET Ids
  /\ missed \in SUBSET Ids
  /\ wrapped \in BOOLEAN
  /\ got \in 0 .. Size

\* The flags and the indices of the ring agree (buffer.c:19-52): it is not
\* both full and empty, and in meets out only when it is one of them.
FlagsAgree ==
  /\ ~(list.empty /\ list.full)
  /\ list.empty => list.in = list.out
  /\ list.in = list.out => list.empty \/ list.full

\* Once the server serves requests, the list of free inodes (yfs.c:28) offers
\* each inode that is not in use exactly once, except those DeleteDir lost:
\* however pops and pushes interleave, no inode in use is handed out again
\* and none that was pushed is ever dropped.
ExactlyFree ==
  (Booted /\ boot = <<>>) => Held = Ids \ (used \cup orphans) /\ NoDuplicates

\* The list of free blocks (yfs.c:29) loses one block with its first push and
\* no other, ever: apart from that one and those the boot scan lost, and as long
\* as the scan missed no busy block and the boot-time array was not used up
\* first, it offers each block that is not in use exactly once.
OneBlockLost ==
  (Booted /\ boot # <<>> /\ ~wrapped /\ missed = {}) =>
     /\ Held \cap (used \cup orphans) = {} /\ NoDuplicates
     /\ Cardinality(Ids \ (Held \cup used \cup orphans)) = IF fresh THEN 0 ELSE 1

\* The boot scan (yfs.c:126-205) leaves the busy blocks in front, where boot
\* discards them, in any order of the inodes' pointers and with any number of
\* holes among them: until the first push, and as long as the pops of boot and
\* of the handlers have not used the array up, what is still to be offered are
\* numbers, each once, and the only busy ones those the scan passed over.
\* Boot itself uses the array up when it pops once for each of as many pointers
\* as there are blocks (yfs.c:216-219): then blocks in use are offered again.
BusyInFront ==
  (boot # <<>> /\ fresh /\ ~wrapped) =>
     LET kept == list.out + todo + 1 .. Size
     IN /\ \A k \in kept : boot[k] \in used => boot[k] \in missed
        /\ \A j, k \in kept : boot[k] # 0 /\ (boot[j] = boot[k] => j = k)

\* A pop never hands out a number that is in use (yfs.c:29: "List of blocks
\* ready to allocate for file data").
NoDoubleAlloc == [][Alloc => got' \notin used]_vars

\* Both lists behave as the queue of FreeQueue.
Queue == INSTANCE FreeQueue WITH q <- Contents(list)
Refines == Queue!Spec
=============================================================================
