------------------------------ MODULE YfsCache ------------------------------
(***************************************************************************)
(* The inode cache and the block cache of cache.c, and SyncCache of yfs.c: *)
(* where the copies of an inode and of a data block are, which of them are *)
(* up to date, and which reach the disk.                                   *)
(*                                                                         *)
(* A buffer of a cached block holds the whole block.  The entry of a       *)
(* cached inode is a pointer into the buffer of its block; when the block  *)
(* is evicted the buffer is not freed, and the inode lives on in it, cut   *)
(* loose from any buffer that is read for that block later.                *)
(*                                                                         *)
(* Contents are abstracted to what can be lost: a copy of an inode or of a *)
(* data block is the set of its two parts that hold the last values        *)
(* stored.  "head" is the first eight bytes, "tail" the rest.  What is     *)
(* stored in one place never depends on another, only where the copies are *)
(* and what is dirty does: one place, any of them, is watched, and stores  *)
(* elsewhere just set and clear flags.  The handlers of yfs.c are          *)
(* sequences of the actions here; their working sets fit the caches, so an *)
(* entry stays while a handler uses it.                                    *)
(***************************************************************************)
EXTENDS LruStack

CONSTANTS Inodes      \* the inode numbers
        , PerBlock    \* INODE_PER_BLOCK
        , DataBlocks  \* the numbers of data blocks
        , InodeCap    \* INODE_CACHESIZE
        , BlockCap    \* BLOCK_CACHESIZE
        , Changing    \* inodes that handlers change; they read them all

Home(i) == (i \div PerBlock) + 1

Blocks == { Home(i) : i \in Inodes } \cup DataBlocks

Slots(b) == IF b \in DataBlocks THEN {0} ELSE { i \in Inodes : Home(i) = b }

\* Each entry but the one on top can be the base: one block is fetched while
\* the pointer to another is in use (cache.c:188-191).
ASSUME CacheAssumption ==
  /\ Inodes \subseteq Nat \ {0} /\ DataBlocks \subseteq Nat /\ Changing \subseteq Inodes
  /\ PerBlock \in Nat \ {0} /\ InodeCap \in Nat \ {0, 1} /\ BlockCap \in Nat \ {0, 1}
  /\ \A i \in Inodes : Home(i) \notin DataBlocks

VARIABLES cache   \* both caches and the disk
        , watched \* the place, <<block, slot>>, whose contents are told apart
        , excuse  \* ghost: its parts whose last change the code did not flag

vars == <<cache, watched, excuse>>

Parts == {"head", "tail"}

Places == UNION { {b} \X Slots(b) : b \in Blocks }

Of(i) == <<Home(i), i>>

\* The parts a handler may change there, and that are watched.
Stores(place, P) == IF place = watched THEN SUBSET P ELSE {{}}

-----------------------------------------------------------------------------
(* Operations on a state c of the caches; each returns the next one.       *)

\* The copy of a cached inode that its entry points to.
View(c, i) == IF i \in DOMAIN c.loose THEN c.loose[i] ELSE c.buf[Home(i)][i]

\* Mutant of EvictBlock: a dirty block leaves without being written.
EvictBlock_NoWrite(c) ==
  LET b == c.blocks.base
      held == { i \in Members(c.inodes) \cap Inodes : Home(i) = b } \ DOMAIN c.loose
  IN [c EXCEPT !.blocks = Drop(@), !.bdirty = @ \ {b}, !.buf = Restrict(@, DOMAIN @ \ {b}),
               !.loose = [i \in DOMAIN @ \cup held |-> View(c, i)]]

\* The block used longest ago makes room.
EvictBlock(c) ==
  LET b == c.blocks.base
      held == { i \in Members(c.inodes) \cap Inodes : Home(i) = b } \ DOMAIN c.loose
  IN [c EXCEPT !.blocks = Drop(@),
               !.disk   = IF b \in c.bdirty THEN [@ EXCEPT ![b] = c.buf[b]] ELSE @,
               !.bdirty = @ \ {b},
               !.buf    = Restrict(@, DOMAIN @ \ {b}),
               !.loose  = [i \in DOMAIN @ \cup held |-> View(c, i)]]

\* Mutant of GetBlock: the cache takes one block more than it has room for.
GetBlock_OneMore(c, b) ==
  IF b \in Members(c.blocks) THEN [c EXCEPT !.blocks = Raise(@, b)]
  ELSE LET room == IF Cardinality(Members(c.blocks)) > BlockCap THEN EvictBlock(c) ELSE c
       IN [room EXCEPT !.blocks = Push(@, b), !.buf = With(@, b, room.disk[b])]

\* A hit, or the block is read from the disk.
GetBlock(c, b) ==
  IF b \in Members(c.blocks) THEN [c EXCEPT !.blocks = Raise(@, b)]
  ELSE LET room == IF Cardinality(Members(c.blocks)) = BlockCap THEN EvictBlock(c) ELSE c
       IN [room EXCEPT !.blocks = Push(@, b), !.buf = With(@, b, room.disk[b])]

\* Mutant of WriteBackInode: the block it copies into is not marked dirty.
WriteBackInode_Unmarked(c, i) ==
  LET g == GetBlock(c, Home(i))
  IN [g EXCEPT !.buf[Home(i)][i] = View(g, i), !.idirty = @ \ {i}]

\* An inode that leaves is copied into its block: over itself unless it is loose.
WriteBackInode(c, i) ==
  LET g == GetBlock(c, Home(i))
  IN [g EXCEPT !.buf[Home(i)][i] = View(g, i), !.bdirty = @ \cup {Home(i)}, !.idirty = @ \ {i}]

EvictInode(c) ==
  LET i == c.inodes.base
      w == IF i \in c.idirty THEN WriteBackInode(c, i) ELSE c
  IN [w EXCEPT !.inodes = Drop(@), !.loose = Restrict(@, DOMAIN @ \ {i})]

\* A hit, or the inode is found in its block; the block comes first.
GetInode(c, i) ==
  IF i \in Members(c.inodes) THEN [c EXCEPT !.inodes = Raise(@, i)]
  ELSE [EvictInode(GetBlock(c, Home(i))) EXCEPT !.inodes = Push(@, i)]

\* A store of the parts P through the entry of inode i, or into a data block:
\* every other copy is out of date with it.
StoreInode(c, i, P) ==
  LET b == Home(i)
  IN [c EXCEPT !.disk[b][i] = @ \ P,
               !.buf   = IF i \notin DOMAIN c.loose THEN [c.buf EXCEPT ![b][i] = @ \cup P]
                         ELSE IF b \in DOMAIN @ THEN [c.buf EXCEPT ![b][i] = @ \ P] ELSE @,
               !.loose = IF i \in DOMAIN @ THEN [c.loose EXCEPT ![i] = @ \cup P] ELSE @]

StoreBlock(c, b, P) == [c EXCEPT !.disk[b][0] = @ \ P, !.buf[b][0] = @ \cup P]

\* SyncCache: each dirty inode, from the top of the cache down, is copied into
\* its block, the first sizeof(inode) bytes of it, the size of a pointer; then
\* each dirty block is written.
FlushInode(c, i) ==
  LET b == Home(i)
      g == GetBlock(c, b)
  IN [g EXCEPT !.buf[b][i] = (View(g, i) \cap {"head"}) \cup (@ \cap {"tail"}),
               !.bdirty = @ \cup {b}, !.idirty = @ \ {i}]

FlushInodes(c) ==
  LET order == Order(c.inodes)
      after[n \in 0 .. Len(order)] ==
        IF n = 0 THEN c
        ELSE IF order[n] \in c.idirty THEN FlushInode(after[n - 1], order[n]) ELSE after[n - 1]
  IN after[Len(order)]

WriteBlocks(c) ==
  [c EXCEPT !.disk = [b \in Blocks |-> IF b \in c.bdirty THEN c.buf[b] ELSE @[b]], !.bdirty = {}]

\* Mutant of SyncCache: blocks are written before the inodes are copied there.
SyncCache_BlocksFirst(c) == FlushInodes(WriteBlocks(c))

SyncCache(c) == WriteBlocks(FlushInodes(c))

-----------------------------------------------------------------------------
(* What the handlers do with the caches.  The inode cache is created full  *)
(* of entries for no inode, numbered from -1 down.                         *)

Dummies ==
  LET filled[n \in 0 .. InodeCap] == IF n = 0 THEN EmptyStack ELSE Push(filled[n - 1], -n)
  IN filled[InodeCap]

Init ==
  /\ cache = [inodes |-> Dummies, idirty |-> {}, blocks |-> EmptyStack, bdirty |-> {},
              buf |-> <<>>, loose |-> <<>>, disk |-> [b \in Blocks |-> [s \in Slots(b) |-> Parts]]]
  /\ watched \in { Of(i) : i \in Changing } \cup DataBlocks \X {0}
  /\ excuse = {}

ReadInode(i) == cache' = GetInode(cache, i) /\ UNCHANGED <<watched, excuse>>

ReadBlock(b) == cache' = GetBlock(cache, b) /\ UNCHANGED <<watched, excuse>>

\* A handler changes an inode and marks its entry dirty (yfs.c:232, 267, 908,
\* 976, 1038, 1059, 1120, 1159).
UpdateInode(i) ==
  \E P \in Stores(Of(i), Parts) :
    /\ cache' = [StoreInode(GetInode(cache, i), i, P) EXCEPT !.idirty = @ \cup {i}]
    /\ excuse' = excuse \ P
    /\ UNCHANGED watched

\* A handler changes a directory and takes what RegisterDirectory or
\* CleanDirectory returns for the flag of its entry (yfs.c:658, 1044, 1118,
\* 1171).  That is 1 if the directory grew or shrank, which is UpdateInode, and
\* 0 otherwise: the flag is cleared, whatever changes came before, the link
\* that MkDir adds to the parent among them.
KeepParent(p) ==
  \E P \in Stores(Of(p), {"head"}) :
    /\ cache' = [StoreInode(GetInode(cache, p), p, P) EXCEPT !.idirty = @ \ {p}]
    /\ excuse' = excuse \cup P \cup IF p \in cache.idirty /\ Of(p) = watched THEN Parts ELSE {}
    /\ UNCHANGED watched

\* A handler changes a data block and marks its entry dirty.
UpdateBlock(b) ==
  \E P \in Stores(<<b, 0>>, Parts) :
    /\ cache' = [StoreBlock(GetBlock(cache, b), b, P) EXCEPT !.bdirty = @ \cup {b}]
    /\ excuse' = excuse \ P
    /\ UNCHANGED watched

\* WriteFile zeroes a new block without marking it (yfs.c:901, 907).
ZeroBlock(b) ==
  LET c == GetBlock(cache, b)
  IN \E P \in Stores(<<b, 0>>, Parts) :
       /\ cache' = StoreBlock(c, b, P)
       /\ excuse' = IF b \in c.bdirty THEN excuse \ P ELSE excuse \cup P
       /\ UNCHANGED watched

\* The call Sync.  What it copies of a loose inode is not all that was changed.
Sync ==
  LET i == watched[2]
  IN /\ cache' = SyncCache(cache)
     /\ excuse' = excuse \cup IF i \in cache.idirty /\ i \in DOMAIN cache'.loose
                              THEN {"tail"} ELSE {}
     /\ UNCHANGED watched

Next ==
  \/ \E i \in Inodes : ReadInode(i)
  \/ \E i \in Changing : UpdateInode(i) \/ KeepParent(i)
  \/ \E b \in DataBlocks : ReadBlock(b) \/ UpdateBlock(b) \/ ZeroBlock(b)
  \/ Sync

Spec == Init /\ [][Next]_vars

-----------------------------------------------------------------------------
(* Properties.                                                             *)

Copies == [Blocks -> UNION { [Slots(b) -> SUBSET Parts] : b \in Blocks }]

\* Every variable has its type: the caches hold no more than they may, a
\* cached inode is loose or its block is cached, and only what is cached is
\* dirty.
TypeOK ==
  /\ cache.disk \in Copies /\ watched \in Places /\ excuse \subseteq Parts
  /\ Cardinality(Members(cache.inodes)) = InodeCap
  /\ Cardinality(Members(cache.blocks)) <= BlockCap
  /\ DOMAIN cache.buf = Members(cache.blocks) /\ cache.bdirty \subseteq Members(cache.blocks)
  /\ cache.idirty \cup DOMAIN cache.loose \subseteq Members(cache.inodes) \cap Inodes
  /\ \A i \in Members(cache.inodes) \cap (Inodes \ DOMAIN cache.loose) :
       Home(i) \in DOMAIN cache.buf

\* After any sequence of hits, misses and evictions both caches are proper
\* doubly linked lists of their entries from top to base (cache.c:41-111,
\* 152-174): no entry is cut off, none is reached twice.
Linked == WellLinked(cache.inodes) /\ WellLinked(cache.blocks)

\* The copies of what is watched: on disk, in its block's buffer, and the one
\* that a handler gets from GetInode or GetBlock.
OnDisk == cache.disk[watched[1]][watched[2]]

InBuffer == IF watched[1] \in DOMAIN cache.buf THEN cache.buf[watched[1]][watched[2]] ELSE OnDisk

Current == IF watched[2] \in Members(cache.inodes) THEN View(cache, watched[2]) ELSE InBuffer

Flagged == Parts \ excuse

\* What GetInode and GetBlock return has every change that was flagged: with
\* two copies of an inode in memory and a third on disk, evictions in any
\* order never bring back an old one (cache.c:137-145, 181-195).
Coherent == Flagged \subseteq Current

\* A flagged change that is not on the disk is in a copy that is marked to be
\* written: an inode marked dirty, or a block marked dirty (cache.c:54, 259).
Recoverable ==
  \A part \in Flagged \ OnDisk :
    \/ watched[2] \in cache.idirty /\ part \in Current
    \/ watched[1] \in cache.bdirty /\ part \in InBuffer

\* No inode is dirty after Sync; the test in front spares TLC most of the work.
Syncs == cache'.idirty = {} /\ Sync

\* After Sync nothing flagged is missing from the disk (yfs.c:1182-1213), but
\* for the tails of inodes whose block had been evicted under them.
SyncWrites == [][Syncs => Flagged' \subseteq OnDisk']_vars

\* A change of an inode counts as its use: whenever a handler makes an inode
\* dirty the cache is left with the inodes used last, in that order
\* (cache.c:147-151).
InodeOrder ==
  [][\A i \in cache'.idirty \ cache.idirty :
       Order(cache'.inodes) = UsedLast(Order(cache.inodes), i)]_vars

\* "Writes dirty caches to the disk so they are not lost" (iolib.c:699): after
\* Sync a change that was flagged in an inode is on the disk.
SyncSavesDirty == [][Syncs => Flagged \subseteq OnDisk']_vars
=============================================================================
