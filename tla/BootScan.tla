------------------------------ MODULE BootScan ------------------------------
(***************************************************************************)
(* The boot scan for busy blocks: SearchAndSwap and the loops of           *)
(* GetFreeBlockList (yfs.c:126-205).  The array of all data blocks is      *)
(* permuted so that the blocks that inodes point to come first, one for    *)
(* each pointer seen.  Data blocks are counted from 1; 0 is the pointer of *)
(* a hole.  Holes are counted as pointers, so there may be more pointers   *)
(* than blocks, and the index of the scan then runs on behind the array.   *)
(***************************************************************************)
EXTENDS Naturals, Sequences, FiniteSets

CONSTANTS Size        \* the number of numbers in a free list: inodes, or data blocks
        , FirstBlock  \* first_data_block
        , MaxPointers \* bound: the pointers, holes among them, that the scan meets

ASSUME SizeAssumption == Size \in Nat \ {0}

\* The boot block and at least one block of inodes come first.
ASSUME FirstBlockAssumption == FirstBlock \in Nat /\ FirstBlock >= 2

ASSUME MaxPointersAssumption == MaxPointers \in Nat

Ids == 1 .. Size

\* The number on disk of the n-th data block.
Number(n) == IF n = 0 THEN 0 ELSE n + FirstBlock - 1

-----------------------------------------------------------------------------
(* What the scan meets: the pointers that the sizes of the inodes say are  *)
(* set, direct or not, in the order of the inodes, as many holes as there  *)
(* may be among them.  No block is pointed to twice.  The root directory   *)
(* comes first and has a block.                                            *)

Pointers == [num : Ids \cup {0}, direct : BOOLEAN]

PointerLists ==
  { ptrs \in UNION { [1 .. n -> Pointers] : n \in 1 .. MaxPointers } :
      /\ ptrs[1].direct /\ ptrs[1].num # 0
      /\ \A j, k \in DOMAIN ptrs : ptrs[j].num = ptrs[k].num /\ ptrs[j].num # 0 => j = k }

Busy(ptrs)  == { ptrs[k].num : k \in DOMAIN ptrs } \ {0}

-----------------------------------------------------------------------------

\* A direct pointer is looked for as if the numbers of the data blocks began
\* at 1: those behind block_count are taken for wrong (yfs.c:133, 190).
Passed(ptr) == ptr.direct /\ Number(ptr.num) > Size

\* The size that SearchAndSwap is given: block_count for a direct pointer,
\* num_blocks for any other (yfs.c:184, 194, 199).
Bound(ptr) == IF ptr.direct THEN Size ELSE Size + FirstBlock

\* The words behind the array that the scan may swap into it: whatever the
\* allocator keeps there.  0 also stands for a word that is no block's number.
Words == [Size + 1 .. Size + FirstBlock -> 0 .. Size]

\* The search stops at the first place that holds the number.
FoundAt(arr, num, k) == arr[k] = num /\ \A j \in 1 .. k - 1 : arr[j] # num

\* Mutant of SearchAndSwap: the other number is not put back.
SearchAndSwap_Overwrites(arr, behind, ptr, index) ==
  IF Passed(ptr) \/ index > Bound(ptr) THEN arr
  ELSE [k \in Ids |-> IF k = index THEN ptr.num ELSE arr[k]]

\* The search for the 0 of a hole runs on behind the array to some 0 there, and
\* leaves in its place the number that was at the index; a later search for
\* that number finds it there.  An index behind the array brings the word there
\* into the array, and writes the number behind it.
SearchAndSwap(arr, behind, ptr, index) ==
  IF Passed(ptr) \/ index > Bound(ptr) THEN arr
  ELSE [k \in Ids |-> IF k = index THEN ptr.num
                      ELSE IF ~FoundAt(arr, ptr.num, k) THEN arr[k]
                      ELSE IF index \in Ids THEN arr[index] ELSE behind[index]]

\* The array after the scan.
Scanned(ptrs, behind) ==
  LET after[n \in 0 .. Len(ptrs)] ==
        IF n = 0 THEN [k \in Ids |-> k]
        ELSE SearchAndSwap(after[n - 1], behind, ptrs[n], n)
  IN after[Len(ptrs)]

-----------------------------------------------------------------------------

\* The blocks that boot loses: neither busy nor behind the busy part of the array.
Lost(ptrs, arr) == Ids \ (Busy(ptrs) \cup { arr[k] : k \in Len(ptrs) + 1 .. Size })
=============================================================================
