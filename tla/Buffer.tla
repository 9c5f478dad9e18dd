------------------------------- MODULE Buffer -------------------------------
(***************************************************************************)
(* The integer ring of buffer.c / buffer.h.  A buffer is a record with the *)
(* fields of struct buffer; its operations return the new record.          *)
(*                                                                         *)
(* The array b has one slot more than the ring, b[size].  No ring built by *)
(* GetBuffer ever writes it, but the ring that GetFreeBlockList builds by  *)
(* hand (yfs.c:207-214) starts with in = size, and its first push writes   *)
(* there, one element past the malloc'ed array.                            *)
(***************************************************************************)
EXTENDS Integers

\* An empty ring of n slots.  The slots are uninitialised in the code and are
\* never read before they are written; 0 stands for what they hold.
GetBuffer(n) ==
  [size |-> n, b |-> [k \in 0 .. n |-> 0], in |-> 0, out |-> 0,
   empty |-> TRUE, full |-> FALSE]

\* Mutant of Advance: the index wraps one slot late.
Advance_Late(buf, k) == IF k + 1 > buf.size THEN 0 ELSE k + 1

\* An index after it was incremented: back to 0 at the size of the ring.
Advance(buf, k) == IF k + 1 >= buf.size THEN 0 ELSE k + 1

\* Mutant of PushToBuffer: it never notices that the ring became full.
PushToBuffer_NeverFull(buf, i) ==
  IF buf.full THEN buf
  ELSE [buf EXCEPT !.b[buf.in] = i, !.in = Advance(buf, buf.in), !.empty = FALSE]

\* The ring after i was pushed: a full ring drops the value silently.
PushToBuffer(buf, i) ==
  IF buf.full THEN buf
  ELSE LET in == Advance(buf, buf.in)
       IN [buf EXCEPT !.b[buf.in] = i,
                      !.in        = in,
                      !.empty     = FALSE,
                      !.full      = (in = buf.out)]

\* Mutant of Front: the value pushed last comes out first.
Front_Newest(buf) ==
  IF buf.empty THEN 0 ELSE buf.b[IF buf.in = 0 THEN buf.size - 1 ELSE buf.in - 1]

\* The value a pop returns: 0, which is no valid number, if the ring is empty.
Front(buf) == IF buf.empty THEN 0 ELSE buf.b[buf.out]

\* Mutant of PopFromBuffer: a ring that was full once stays "full".
PopFromBuffer_StaysFull(buf) ==
  IF buf.empty THEN buf
  ELSE LET out == Advance(buf, buf.out) IN [buf EXCEPT !.out = out, !.empty = (out = buf.in)]

\* The ring after a pop.
PopFromBuffer(buf) ==
  IF buf.empty THEN buf
  ELSE LET out == Advance(buf, buf.out)
       IN [buf EXCEPT !.out   = out,
                      !.empty = (out = buf.in),
                      !.full  = FALSE]

(***************************************************************************)
(* What a ring holds.  These two are views of the ring, not code: the      *)
(* number of values the next pops can return before the ring is empty, and *)
(* the values, the next one first.                                         *)
(***************************************************************************)
Count(buf) ==
  IF buf.empty THEN 0
  ELSE IF buf.out < buf.in THEN buf.in - buf.out
       ELSE buf.size - buf.out + buf.in

Slot(buf, k) ==
  LET s == buf.out + k - 1 IN IF s >= buf.size THEN s - buf.size ELSE s

Contents(buf) == [k \in 1 .. Count(buf) |-> buf.b[Slot(buf, k)]]
=============================================================================
