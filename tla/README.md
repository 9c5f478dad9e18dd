# A verification model of the Yalnix file server (comp421 lab 3)

This directory models the file server `yfs`, its free lists, its caches and its client
library in TLA+. TLC checks the models on small
instances; TLAPS proves theorems about them for every value of their constants.
Paths are relative to the repository, line numbers refer to its source files.

## 1. The system

One server process (`yfs.c`) owns a disk. Clients are separate processes linked
with `iolib.c`; a library call sends one or more 32-byte messages and blocks
for each reply. The server handles one message to its end before it receives
the next. Nothing else runs on the disk.

| Component | Files | State | Operations | Hard behaviour |
|---|---|---|---|---|
| Free lists | `buffer.c`, `yfs.c:28-29, 142-220` | a ring of inode numbers, one of block numbers: `b, in, out, empty, full` | `GetBuffer`, `PushToBuffer`, `PopFromBuffer`; filled once at boot | wrap-around; empty and full both have `in = out`; the block ring is filled by hand with `in = size` |
| Inodes and directories | `yfs.c:225-537` | type, link count, reuse count, size, 12 direct pointers and one indirect block per inode; directory entries in the blocks of directories | create, truncate, register, unregister, search, clean | pointers outlive the blocks they name; holes in files and in directories; the edge between direct and indirect blocks |
| Request handlers | `yfs.c:539-1177` | the above and the free lists | `CreateFile`, `ReadFile`, `WriteFile`, `DeleteDir`, `CreateLink`, `DeleteLink`, `SearchFile`, `GetFile` | several inodes change in one handler; lists that run dry; asserts that stop the server |
| Boot scan | `yfs.c:126-220` | an array of block numbers, busy ones swapped to the front | `SearchAndSwap`, `GetFreeInodeList`, `GetFreeBlockList` | runs on whatever the last shutdown left on disk |
| Caches | `cache.c`, `yfs.c:1182-1213` | LRU lists and hash chains of 16 inodes and 32 blocks, dirty flags; inode entries point into block buffers | `GetInode`, `GetBlock`, `WriteBackInode`, `SyncCache` | eviction inside a handler, two copies of one inode, what survives a crash |
| Client library | `iolib.c`, `packet.h` | current directory | `Create` ... `Shutdown`, each a sequence of messages | a name looked up in one message is used in a later one |
| Open files | `fd.c` | a table of 16 descriptors: inode, reuse count, position | create, close, get | a descriptor outlives the file it was opened on |
| Pathnames | `path.c`, `dirname.c` | none | `ParsePath`, name copy and comparison | slashes at the start, at the end, in a row |
| Symbolic links | `iolib.c:518-524` | none | stubs that return -1 | not implemented |
| Formatter, tests | `samples-lab3/mkyfs.c`, `t*.c` | a disk image | writes the initial file system | - |

Interaction: a library call resolves its pathname with one `MSG_SEARCH_FILE` per
component and then sends one request with inode numbers. The handler reads and
changes inodes and blocks through the caches, and takes numbers from and gives
them back to the free lists. The lists are never stored: boot rebuilds them
from the inodes.

What makes the components correct:

* a free list offers each free number once and no number in use;
* link counts are exact, the directories form a tree, every inode in use has a
  path from the root; names are unique in a directory;
* no block has two owners, and an owner is an inode or the free list;
* an inode number and a reuse count identify one file for ever;
* `RmDir` removes empty directories, all of them and no other;
* every call does to the names what an abstract tree of names says, as long as
  calls do not overlap; overlapping calls leave no name for a freed inode, no
  lost descriptor and no call without an answer;
* no change that was flagged dirty is lost by an eviction, and after Sync it is
  on the disk;
* a restart rebuilds the free lists: every busy block is discarded and stays out of
  the list (it does not when many pointers or high numbers are met: section 3, findings).

`PROJECT.json` lists the hazards of the code line by line and which properties
watch them.

## 2. The modules

| Module | What it is | Models |
|---|---|---|
| `Buffer` | the ring as a record and its operations; views `Count`, `Slot`, `Contents` | `buffer.c` |
| `FreeQueue` | abstract: a bounded FIFO of numbers, with the irregularities of the list of blocks spelled out | what the lists promise |
| `BootScan` | `SearchAndSwap` and the array it leaves, as functions | `yfs.c:126-205` |
| `FreeList` | EXTENDS `Buffer` and `BootScan`: the two lists from boot on, `SpecInodes`, `SpecBlocks`, `SpecLists` | `yfs.c:142-220` and the pops and pushes of the handlers |
| `FreeListProofs` | theorems about `SpecInodes` and `SpecLists` | |
| `Inode` | one inode as a value, its blocks and directory entries, and the helper functions of `yfs.c` on it | `yfs.c:225-537` |
| `InodeProofs` | what each of these functions returns, for every size of a block and every number of pointers | |
| `Namespace` | abstract: a tree of names | what the server promises about names |
| `YfsServer` | all inodes, both lists, one action per handler and per library call that runs one | `yfs.c:595-1177`, `iolib.c` |
| `MCYfs` | symmetry sets for TLC | |
| `YfsServerProofs` | EXTENDS `YfsServer` and `InodeProofs`: the tree, the link counts and the free inodes | |
| `NamespaceProofs` | EXTENDS `YfsServerProofs`: the server implements `Namespace` | |
| `YfsBlockProofs` | EXTENDS `YfsServerProofs`: no block has two owners | |
| `LruStack` | the doubly linked list of both caches, pointer by pointer | `cache.c:23-175` |
| `YfsCache` | both caches over a disk, dirty flags, `SyncCache` | `cache.c`, `yfs.c:1182-1213` |
| `YfsCacheProofs` | EXTENDS `YfsCache`: both lists, and every copy of what is cached | |
| `Path` | `ParsePath`, as a function of how many characters are read, and a reference definition | `path.c`, `dirname.c` |
| `YfsClients` | EXTENDS `YfsServer` and `Path`: several programs whose calls are message sequences, open file tables, shutdown | `iolib.c`, `fd.c`, `yfs.c:1249-1312` |
| `MCClients` | the calls each client makes, for TLC | |
| `LinkProofs` | EXTENDS `YfsServerProofs`: what the handlers keep when their requests are out of date | |
| `YfsClientsProofs` | EXTENDS `YfsClients`, `LinkProofs` and `YfsBlockProofs`: what holds however the calls of any number of clients interleave, and what `ParsePath` makes of any pathname | |

### Buffer, FreeQueue, BootScan, FreeList

`Buffer` keeps the representation: slots, `in`, `out` and both flags. A ring
made by `GetBuffer` never touches the slot past its end. The list of blocks
does: `GetFreeBlockList` sets `in = size`, so its first push writes `b[size]`,
one element past the array; the record has that slot. `Front` and
`PopFromBuffer` are the result and the effect of the same C function.

`BootScan` takes the pointers that the sizes of the inodes say are set, in the
order the loops meet them, and folds `SearchAndSwap` over the array of block
numbers. Three edges are in it. The bound `i > size` of a direct pointer compares
a number on disk with the length of the array, so the blocks with the highest
numbers are passed over (`Passed`). The pointer of a hole is 0, which is not in
the array: the search reads on behind the array until it meets a 0, and
the number at the index is put there; the model takes that place to be one where a
later search finds the number again. And holes are counted as pointers, so there may be
more pointers than blocks (`MaxPointers` is the only bound) and the index itself runs
behind the array. Then a direct pointer is no longer looked for; any other, for which
the bound is `num_blocks` (`Bound`), still is, and the word at the index, any of `Words`, takes the place of
the number found. What is written behind the array is undefined behaviour and left out.

`FreeList` has one boot step per iteration of the boot loops (`ScanInode`,
`DiscardBusy`) and one action per use: `Alloc` and `AllocEmpty` are the pops,
`Release` is a push of a number in use, `Retire` is what `DeleteDir` does, which
frees inode and block and pushes neither. `DiscardBusy` pops once per pointer, so with
as many pointers as blocks the pops of boot go around the array. `used`, `orphans`, `missed`
(the blocks in use that the scan passed over) and `wrapped` (the fresh array was
used up, by boot or later) are ghosts. `BusyInFront` says what holds until it is;
after that only `Refines` holds, which lets the list offer all numbers again. Numbers are `1 .. Size`; block numbers are counted from the first data
block, and `FirstBlock` gives them their number on disk.

`FreeQueue` is what callers may rely on. The list of inodes is simply a bounded
queue. The list of blocks starts *fresh*: while nothing was pushed it never
runs dry, because the pop of its last number makes the whole boot-time array
available again, numbers in use included; and the first push is lost. After that
it is the same queue. `Refines` says that both concrete lists implement it,
with `Contents(list)` for the queue.

### Inode, YfsServer

Positions and sizes are counted in cells of one directory entry (32 bytes), so
a block has `BlockSize` cells. `block[k]` is the k-th pointer of an inode,
direct or in its indirect block. Pointers are never cleared, in the model as in
the code: which of them count is decided by the size. `entry` is the array of
directory entries of a directory; a cleared entry has inode number `Nil` (0).
File contents are left out. Names are atomic.

A handler is one step: the server is single-threaded and its replies do not
feed back into it. The actions are the library calls `Create`, `MkDir`, `RmDir`,
`Link`, `Unlink`, `Read` and `Write`, each applying the library's own tests
and then the handler, with no other client in between; `YfsClients` interleaves them. `Read` and `Write` carry any reuse count an
earlier descriptor may have. In this module the caches are transparent: its
state is what `GetInode` and `GetBlock` present.

The free lists are sets here: which number a pop returns is open, which
covers every order the real queue can be in. `fresh` and `UpdateBlocks` keep the
two irregularities of the list of blocks: its first push is lost (any one of
the blocks that handler gives back may be the first) and it wraps when it is
used up while fresh.

`status` says how the server stopped, if it did:

* `aborted`: `GetInode(0)` or `GetBlock(0)` fails its assert (`cache.c:184, 374`):
  an empty list of inodes, a list of blocks that ran dry, a fetch of an indirect
  block that does not exist (`yfs.c:742, 835`), a write into a hole;
* `exhausted`: the fresh list of blocks wrapped and now offers blocks in use;
* `stale`: a hole has an old pointer in it, or `DeleteDir` reads entries that a
  truncated directory no longer has (only with interleaved clients);
* `overrun`: `CreateLink` grows a directory that is at its limit and writes
  behind the end of the indirect block.

`YfsClients` adds `down`: a client shut the server down.

In `exhausted`, `stale` and `overrun` the program runs on with a broken file system; the model stops
there, because nothing it could say about later states would hold. All
invariants are about the states up to that point. The other way to put it:
every run of the server keeps its invariants until one of these four happens,
and the violation runs show that they do happen.

Undefined behaviour: leaving the first block of the indirect range,
`CleanDirectory` reads `indirect_block[-1]` (`yfs.c:510`); the parameter `junk`
is either outcome of that test.

`Namespace` has neither inode numbers to free, link counts, sizes nor blocks:
each step enters or removes one name, a file is there as long as it has a name,
a directory goes only when it is empty (as in the code; `README.md:160` promises more,
see `rmdir_files`). `ImplementsNamespace` maps the entries
other than `.` and `..` to it. That `Unlink` may remove another name of the same
file than the one it was given is a step of `Namespace` too (`RemoveName` of
that entry); `UnlinkRemovesName` is the property that tells.

### LruStack, YfsCache

`LruStack` is the list as the code links it: `top`, `base`, `prev`, `next`. An
entry that is raised keeps its old `prev_lru`, as in the code, so `WellLinked`
says nothing of that of the top. The hash chains are left out: a number is found
when its entry is in the list.

`YfsCache` has three kinds of copies: on disk, in the buffer of a cached block,
and, for an inode whose block was evicted while it stayed cached, in the old
buffer, which is never freed (`loose`). Contents are reduced to one question:
does a copy hold the last value stored? A copy is the set of its parts that do, the
first eight bytes (`head`) and the rest (`tail`), because `SyncCache` copies
the size of a pointer. One place of the disk, chosen in `Init`, is watched;
stores elsewhere set and clear flags only. That is enough because which copy is
where and what is dirty never depends on contents.

The actions are the ways the handlers use the caches: `ReadInode`, `ReadBlock`,
`UpdateInode`, `UpdateBlock`; `KeepParent`, where the flag of a directory is overwritten with the
result of `RegisterDirectory` or `CleanDirectory` (`yfs.c:658, 1044, 1118, 1171`);
and `ZeroBlock`, where a new block is cleared in its buffer but not marked
(`yfs.c:901, 907`). The last two leave changes unflagged. The ghost `excuse` is
the set of parts whose last change the code did not flag: the properties speak
of all the others. So they do not hide those two defects, they state what holds
in spite of them.

There is no crash action: a crash leaves the disk and nothing else, and the next
boot is `Init` with that disk. `Recoverable` and `SyncWrites` say, in every
state, what the disk has. Undefined behaviour: `next_lru` and `dirty` of a new
cache entry are not initialised (`cache.c:84`); the entries come from memory
fresh from the system and are taken to be zero. Assumption: the entries a handler
uses stay cached while it uses them (16 inodes and 32 blocks against the
handful a handler touches).

### Path, YfsClients

`Path` parses sequences of characters; slash, dot and some letters are told
apart, names are cut at `NameLength`. `YfsClients` uses it for every pathname.

A client's call is a record: the components it has yet to look up, what it
found, the descriptor it took. `Begin` is the part of the library function
before its first message, `Walk` one `MSG_SEARCH_FILE` with what the library does
with the reply, `Serve` the handler of the final request with its reply,
`Close` sends nothing. Between any two of these, other clients may act. The
requests carry inode numbers (and `Create`, `MkDir` and `Link` a name), as the
packets do; nothing ties them to what the walk saw. A descriptor keeps inode,
reuse count and position, and `Read`, `Write` and `Seek` use it however old it is.

`ServeShutdown` stops the server after its reply. When it is gone, by that or by
an assert, `Send` fails in every client that waits or sends; the library does not
test for that and takes for the reply what is in its packet: its own request, or
memory never initialised. `Broken` is any outcome of that. Calls begun after the
server has stopped are left out.

Left out: `Stat` and `Sync`, which change nothing here; `SymLink` and `ReadLink`, stubs that return
-1; calls refused for their arguments; what is printed or reported of a request
whose reply the library does not keep.

## 3. What the runs check

Every cfg gives constants and nothing else. `SYMMETRY` is sound in `MCYfs`: no
operation orders or distinguishes names, blocks or inodes other than the root.

| Run | Bounds | Shows |
|---|---|---|
| `free_lists` | 3 inodes, any of them in use at boot, or 3 data blocks from number 2 on and every list of up to 5 pointers, holes included | `TypeOK`, `FlagsAgree`, `ExactlyFree`, `OneBlockLost`, `BusyInFront`, `Refines` |
| `double_alloc` | 4 data blocks | violated: after the scan passed over a busy block with a high number a pop returns it |
| `tree` | root and 3 inodes, 2 names, 5 blocks of 3 cells, 1 direct and 1 indirect pointer | `Tree`, `LinkCounts`, `EmptyIsSmall`, `Incarnations`, `ImplementsNamespace` |
| `growth` | root and 1 inode, 5 names, 5 blocks of 2 cells, 1 direct and 2 indirect pointers; positions 0, 1, 2, 4, 5, lengths 0, 1, 3 | `TypeOK`, `LinkCounts`, `EmptyIsSmall`, `BlocksExclusive`, `FreeInodesFree` |
| `inode_error` | root and 2 inodes | violated: with no inode left `Create` stops the server |
| `unlink_name` | root and 1 inode, 2 names | violated: the other name goes |
| `rmdir_files` | root and 2 inodes, 2 names | violated: `RmDir` refuses a directory with a file in it |
| `holes` | root and 1 inode, 1 name | violated: a hole has an old pointer |
| `cache` | 3 inodes in 3 blocks, and 1 data block; 2 inodes and 3 blocks fit | `TypeOK`, `Linked`, `Coherent`, `Recoverable`, `SyncWrites`, `InodeOrder` |
| `sync_lost` | 3 inodes in 2 blocks, 1 data block; 2 and 2 fit | violated: Sync writes eight bytes of an inode whose block was evicted |
| `clients` | 2 clients with 1 descriptor each; root and 1 inode, 2 names, 3 blocks; pathnames of up to 4 characters for `ParsesAll` | `ClientsTypeOK`, `LinksNeverUndercount`, `NoDanglingName`, `NoDescriptorLeak`, `FreeInodesFree`, `BlocksExclusive`, `StaleForGood`, `ParsesAll`, `CallsReturn` |
| `create_race` | the same | violated: `Create` truncates a directory made in between |

Why the bounds are enough for the cases that matter.

* A ring of 3 slots is full, empty and wrapped in every combination of flags;
  3 blocks and 3 pointers put every pointer in front of, at and behind its place, and 5 pointers
  have two more indices behind the array, which both bounds of `SearchAndSwap` tell apart.
* In `tree` a directory can hold a directory that holds a directory, a file can have
  two names in one directory or in several, and the supply of blocks runs dry.
* In `growth` a directory passes every edge: from the first to the second block
  (which takes the indirect block), to the third, to its limit and beyond, and
  shrinks again from every pattern of cleared entries.
* The file next to it, in the same run, takes blocks from the same small supply: its positions start inside the first block, at its end, in the block with
  which the indirect block comes and behind it, so that files have holes of every
  kind; length 0 extends a file without a block. It is truncated, deleted
  and made again in the same inode, as a file or a directory, with its old pointers.
* In `cache` the three blocks of inodes and the data block do not fit the block cache, nor the three
  inodes the inode cache, so every kind of entry is evicted while another that
  depends on it stays: an inode loose from its block, its block read again next
  to it, evicted a second time in either order, and all that with Sync in between.
* In `clients` one inode is created, opened, unlinked and created again by the
  other client as file or directory while the descriptor, the current directory,
  or a request under way still refers to it. One client makes the calls on files
  and descriptors, the other those on directories, links and the shutdown;
  with one descriptor the table is full at once.

`MaxReuse` (how often an inode is created) is the only counter bound. In
`YfsServer` it disables further creations in that inode; in `YfsClients` calls
that create begin only while every call under way can still have one.
Deadlock is not checked for `MCYfs` and `MCClients`: the server stops, and programs may
have nothing more to call.

Fairness. `FairSpec` has weak fairness, per client, of `Walk`, `Serve` and
`Broken`: the server is a loop that receives every message some day and a client
whose `Send` has returned goes on (`yfs.c:1250-1312`). Nothing makes a program
begin a call. `CallsReturn` says that under it every call returns, also those
that wait when the server aborts or is shut down. Where the model stops because
the server runs on in a broken state, nothing is said. The other modules have no
scheduler and no fairness.

What interleaving costs. When calls run one after the other the server implements
`Namespace`. When their messages interleave it does not: two names may be equal in one directory,
a directory may be truncated (`create_race`) and link counts may be too high.
What is left are the weaker invariants of `clients`: `nlink` is never too low, no name
stands for a free inode, an inode in the list is free. Two things are not lost at all: no block of
data gets two owners (`BlocksExclusive`), and a descriptor whose file is gone never
comes to reach another one (`StaleForGood`).

Each property has a mutant: a definition with a plausible bug, next to the
definition it replaces, under which TLC finds the property violated.

Findings. `PROJECT.json` quotes the line each violated property is taken from.

* The boot scan passes over busy blocks with high numbers (`yfs.c:133`), so that
  after a restart the list of free blocks offers blocks of files. The same happens without
  such a block once the list is used up without any push (`yfs.c:211`). It
  also loses the first block freed.
* Boot discards one block per pointer and counts holes as pointers (`yfs.c:184-219`). With as many
  pointers as data blocks (eleven files with two writes each can have more, and so has
  a full disk) it goes around the array and offers blocks in use from the start. No run checks this by itself:
  it is why `BusyInFront` and `OneBlockLost` end with `wrapped`, and `NoDoubleAlloc` fails of it, too.
* Creating a file with no free inode stops the server (`yfs.c:638`); the test is of
  the list's capacity. The tests at 647, 870 and 1113 have the same flaw.
* `Unlink` of one of two names of a file in the same directory may remove the
  other (`yfs.c:1154`).
* `RmDir` refuses a directory that has files in it (`yfs.c:1027`), where `README.md:160` says
  that it removes "every file inside". The test `trmdir1.c:18` expects what the code
  does, and so do `Namespace` and `EmptyIsSmall`, which are stated of the code:
  here the document is what is wrong.
* A file that was truncated, or lives in a used inode, has old pointers in its
  holes (`yfs.c:299`): it reads blocks of other files, and gives them back when
  it is deleted.
* `Sync` copies eight bytes of a dirty inode whose block was evicted and read again,
  and marks it clean (`yfs.c:1196`).
* `Create` truncates a directory that another client made after the lookup
  (`yfs.c:634`, `iolib.c:141-154`).

## 4. What is proved

### The free lists: `FreeListProofs`

For every `Size`. About the list of free inodes:

* `InodeInvariant`: the inductive invariant. `FlagsAgree` and `ExactlyFree` are
  not inductive: a push keeps the contents distinct only if the pushed number is
  not in the ring, and it finds room only because the ring has a slot for every
  number and the contents have no duplicates (a pigeonhole argument). The
  invariant therefore reads the ring as a sequence without repetition and says
  which numbers are in it, during boot those scanned so far.
* `InodesTypeOK`, `InodesFlagsAgree`, `InodesExactlyFree`, `InodesNoDoubleAlloc`
  follow from it.
* `InodesRefineQueue`: `SpecInodes` implements `FreeQueue`. Each step of the ring
  is a step of the queue: `Contents` loses its head on a pop and gains its
  last element on a push; a pop of the empty ring is `PopEmpty`; the rest
  stutter.

About both lists (`SpecLists`):

* `ScanResult`: what the boot scan leaves, by induction over the pointers.
  `Behind` is what each `SearchAndSwap` keeps: behind the pointers done so far the
  array has data blocks, each once, and none of those pointers, but for the ones passed over; once
  the index is behind the array nothing is left there, and the array is one of words. A
  theorem of the library cannot be used for the induction; the proof takes the
  least number of pointers for which the claim fails.
* `ListInvariant`: one of two inductive invariants holds. That of the list of
  blocks has a part for each phase of its life: while it is fresh (`BootArray`, `BusyBehind`
  and, if the scan passed over no block, `OfferedFree`), after the first push
  (`OneLost`, like the list of inodes but for one number). When the fresh
  list was used up, by boot or later, only types and flags are left.
* `BusyStaysInFront`, `OneBlockIsLost`, `ListsTypeOK`, `ListsFlagsAgree` follow.
* `ListsRefineQueue`: both lists implement `FreeQueue`, that of blocks with its
  irregular pop (the last number of the fresh list) and push (the first).

### The file server: `InodeProofs`, `YfsServerProofs`, `NamespaceProofs`, `YfsBlockProofs`

About `Spec` of `YfsServer`, for every geometry (cells per block, direct and indirect
pointers), every set of inodes, names and blocks and every bound of the model.

`TreeInv` is the inductive invariant of what the server says of names. `Tree` and
`LinkCounts` are not inductive. An unlink frees an inode when its count drops to one,
which is right only if the count is exact; the count stays exact only if each
directory is named once and has its own `.` and `..`; and that a new name closes no
circle needs that the inode it is given had no name. `TreeInv` has

* `TypeOK` and `Shape`: the entries of a directory fill its size, `.` and `..`
  come first, names are unique, the last entry is live or one of those two;
* `Children_OK` and `Parents_OK`: what is named is in use, and a directory is
  named once, by the one its `..` stands for;
* `Reached`: a set of inodes in use that has the root in it and what its directories
  name is all of them: reachability without a recursive path, which the provers could
  not handle;
* `Counted`, the link counts as cardinalities of sets of entries, and `FreeInodesFree`.

The proof that steps preserve it is in two halves. Whatever a handler does to sizes,
pointers and cleared entries, its effect on the live entries is one of five steps:
`SameStep` (none), `MakeStep` (a new inode with its first name), `LinkStep`,
`UnlinkStep`, `RmDirStep`. There is one lemma per handler for this half and one per
step for the other, which no longer mentions blocks, lists or sizes.
From `TreeInv` follow `Typing`, `LinkCountsCorrect`, `FreeInodesAreFree`, `TreeCorrect`,
`EmptyTestCorrect` (the test of `DeleteDir` by the size is right); `IncarnationsDistinct` is
the action property that a reuse count identifies a file. `NamespaceImplemented` maps each of the
five steps to a step of `Namespace` or to a stutter.

`BlockInv` is the inductive invariant behind `BlocksAreExclusive`. No operation clears
a pointer it frees, so an inode keeps old ones, and an old pointer must not
come back into use when the inode grows. `Pointers` says why none does while `status`
is `up`: those an inode uses differ; a file with an indirect block has no pointers set
behind its last block, because files never shrink but to nothing; and a directory sets
each pointer anew as it grows, because it grows by one cell at a time. The rest is a matter of sets: what an inode owns after
a handler it owned before, or it was popped; what was pushed no inode owns.

The lemmas about handlers do not assume `TreeInv`. `Workable` is all they need of the
tree: types, the entries of a directory fill its size, an inode in the list is free. That
a name was found, is the only one or is not `..` matters nowhere for the blocks, so the same
lemmas serve for requests that are out of date.

### Several clients: `LinkProofs`, `YfsClientsProofs`

About `ClientsSpec`, for any number of clients, any calls and any pathnames. Requests
are out of date when they arrive: `TreeInv` does not hold any more, because a directory
may be truncated, lose its name or have a name twice. What is left is `LinkInv`:

* the root is a directory, and (`NamesUsed`) every entry but a `..` stands for an inode in use;
* `Listed`: an inode in the list is free and no other inode has an entry for it, not even a `..`;
* `Selves`, `NamedOnce`: a directory names itself only as `.`, or the root as `..`, and
  has one other name;
* `Enough`: the link count covers the entries of other inodes and the inode's own, also
  those a truncation dropped.

Again the effect of each handler is one of five steps (`LoseStep`, `NewStep`, `AddStep`,
`RemoveStep`, `VacateStep`). `ClientsInv` adds what is still true of a request when the server
gets it. A request to remove i from p: `Pending(i, p)`, p is still the directory it
was or gone for good, because `RmDir` never puts an inode in the list; and
`Removable(i, p)`, if i is a directory that p names, that is its only name. The steps of all other clients
keep both. From it: `ClientsTyping`, `NoLeak` (a descriptor without a file belongs to a
call under way), `LinksNeverTooLow`, `NamesNeverDangle`, `ListedStayFree`.

`StaleStaysStale` is an action property. A descriptor compares its reuse count for
equality, so a stale one stays stale only if its count cannot come back:
`Current` says that no count in a table exceeds that of its inode. `UsesKept`, shown of every handler,
says that a count grows by one or stays, and then a free inode stays free. `TableStep` is what
any action does to a table: a descriptor keeps inode and count, is given back, or had no file
and gets one. The last needs that the descriptor of a `Create` or `Open` under way has none.

`BlocksStayExclusive`: `ClientsInv` implies `Workable` while the server is up, so the lemmas of
`YfsBlockProofs` carry `BlockInv` over every step of every client.

`ParsePathIsNamesIn`, for every pathname of any length: what `ParsePath` returns behind the slash
in front are the names of the runs between slashes, in order (`NamesIn`, a
definition by sets of positions, without a loop). The loop invariant `ReadTo` says of the
characters read so far that the runs ended have their names in their places and that where the
last name began is the start of the run not ended. The induction over the characters takes the
least one for which the claim fails. `EveryPathParses` follows:
`ParsesAll` for every maximal length, every set of letters and every current directory.

### The caches: `YfsCacheProofs`

About `Spec` of `YfsCache`, for any capacities of at least two, any inodes and blocks
and any number of inodes in a block. `CacheInv` has two parts.

* `Shape`, what is where. Each list is a `Chain`: a sequence without repetition that
  the pointers of the entries follow in both directions, the `prev_lru` of the top excepted. There are
  three lemmas about what `Push`, `Drop` and `Raise` do to that sequence; everything else
  about the lists follows from them, `Order` included, so no proof about the caches mentions a pointer.
  A cached inode has its block cached or is loose, and only what is cached is dirty.
* `Safe`, what the copies of the watched place hold. `Coherent` and `Recoverable` are not inductive:
  that an inode written back over its block loses nothing needs that the block
  has no change the inode lacks. So the copy on disk is part of the one in the buffer, and that
  of the one a handler sees; the flagged parts are all in the last, and each of
  them is on disk, or in a dirty block, or its inode is dirty.

There is one lemma for each operation and each part: eviction of a block, hit and
miss, write-back, eviction of an inode, stores, and one turn of the loop of `SyncCache`. That an eviction
of an inode reads its block again while the inode goes is the step that uses most:
the block that comes in must not be the one that is needed (`BlockCap > 1`), and a
loose inode is copied over an older block. The loop of `SyncCache` goes over
the list while its blocks move through the other one; the claim about each prefix of it is proved from the
least one for which it would fail.

From `CacheInv`: `CacheTypeOK`, `CachesLinked`, `CachesCoherent`, `ChangesRecoverable`,
`SyncWritesFlagged` (Sync leaves nothing dirty, and what is `Safe` and not dirty is on disk) and
`InodesInOrder`, which compares the sequences before and after each action.

### Assumptions

All are assumptions on constants, stated where the constants are declared, and TLC
evaluates them in the runs.

* `SizeAssumption`, a free list has at least one slot. `FirstBlockAssumption`: the boot block and a
  block of inodes come before the data. `MaxPointersAssumption`: the bound on pointers is a number.
* `GeometryAssumption`: a block has at least two cells, an inode at least one
  direct and one indirect pointer, so that a new directory fits its first block.
  `NilAssumption`: number 0 is neither an inode nor a block.
  `NamesAssumption`: no client uses `.` or `..` as the name of a file.
  `RootAssumption`: the root is an inode. `BlocksAssumption`: there are finitely many
  blocks, at least the three that `CreateFile` and `CreateLink` test the list's capacity
  for. `BoundsAssumption`: the bounds of the model are numbers.
* `CacheAssumption`: inode numbers are positive, each cache has at least two entries, and no
  block of inodes is a data block. `NullAssumption`: the null pointer is no number.
* `DescriptorsAssumption`, `CallsAssumption`, `NamesAreStrings`: descriptors are numbered from 0, and the pathnames
  of the calls have names in them that the model knows. `LengthsAssumption`: the lengths of names and
  pathnames are numbers.

### What is only model-checked

* `CallsReturn`: liveness under fairness is out of the prover's reach here.
* The seven violations are facts about small instances and need no proof.

## 5. Not modelled

* Symbolic links: `SymLink` and `ReadLink` return -1 and the server has no handler.
* The hash chains of the caches, the contents of files and of buffers, printing.
* Handlers whose working set exceeds a cache (a directory with an indirect block in a
  cache of 32 blocks does not).
* `Stat` and `Sync` as client calls: they change nothing that another call sees.
* `mkyfs.c` but for the disk it leaves, the test programs, `tls.c`, build files.
* The terminal and the kernel: `Send`, `Receive` and `Reply` are one step each way, sectors
  are written whole.

## 6. Plan

Done: all modules, runs and theorems above. Every invariant and action property that a
passing run checks is a theorem. Left:

* `cache`: a working set larger than a cache, so that the pointer a handler
  holds is to a buffer no longer cached.
