----------------------------- MODULE FreeQueue -----------------------------
(***************************************************************************)
(* What a free list of the server promises to its callers, without slots,  *)
(* indices or flags: a bounded first-in first-out queue of numbers, plus   *)
(* the one irregularity of the list of free blocks.  That list starts out  *)
(* "fresh" (filled by hand at boot, yfs.c:207-214) and stays so until the  *)
(* first push.  While it is fresh it never runs dry: the pop that takes    *)
(* the last number makes the whole boot-time array available again, the    *)
(* numbers in use included; and the push that ends the freshness loses the *)
(* number it pushes.  The boot scan may have left a 0 in it, or a number   *)
(* twice.                                                                  *)
(***************************************************************************)
EXTENDS Naturals, Sequences

CONSTANTS Size  \* capacity of the queue
        , Ids   \* the numbers it may hold

VARIABLES q      \* the numbers the list offers, the next one first
        , boot   \* the array the list was filled with at boot
        , fresh  \* nothing was pushed since the list was filled at boot
        , got    \* the value the last pop returned, 0 if the list was empty

qvars == <<q, boot, fresh, got>>

Init ==
  /\ got = 0
  /\ \/ q = <<>> /\ boot = <<>> /\ fresh = FALSE
     \/ q = boot /\ fresh = TRUE /\ boot \in [1 .. Size -> Ids \cup {0}]

PopEmpty == q = <<>> /\ got' = 0 /\ UNCHANGED <<q, boot, fresh>>

Pop ==
  /\ q # <<>>
  /\ got' = Head(q)
  /\ q' = IF fresh /\ Tail(q) = <<>> THEN boot ELSE Tail(q)
  /\ UNCHANGED <<boot, fresh>>

Push(i) == ~fresh /\ Len(q) < Size /\ q' = Append(q, i) /\ UNCHANGED <<boot, fresh, got>>

PushFull(i) == ~fresh /\ Len(q) = Size /\ UNCHANGED qvars

PushLost(i) == fresh /\ fresh' = FALSE /\ UNCHANGED <<q, boot, got>>

Next == PopEmpty \/ Pop \/ \E i \in Ids : Push(i) \/ PushFull(i) \/ PushLost(i)

Spec == Init /\ [][Next]_qvars
=============================================================================
