--------------------------- MODULE FreeListProofs ---------------------------
(***************************************************************************)
(* Theorems about the free lists of FreeList, for every Size: first what   *)
(* the operations on a ring do to the sequence it holds, then the list of  *)
(* free inodes, the boot scan, the list of free blocks, and what is true   *)
(* of both.                                                                *)
(***************************************************************************)
EXTENDS FreeList, FiniteSetTheorems, SequenceTheorems, WellFoundedInduction, TLAPS

Ring == [size : {Size}, b : [0 .. Size -> 0 .. Size], in : 0 .. Size,
         out : 0 .. Size - 1, empty : BOOLEAN, full : BOOLEAN]

\* An index stays inside the ring when it is advanced.
LEMMA AdvanceType ==
  ASSUME NEW buf \in Ring, NEW k \in 0 .. Size
  PROVE  /\ Advance(buf, k) \in 0 .. Size - 1
         /\ Advance(buf, k) = IF k + 1 >= Size THEN 0 ELSE k + 1
<1>1. buf.size = Size
  BY DEF Ring
<1> QED BY <1>1, SizeAssumption DEF Advance

\* A push keeps the ring a ring, and moves in off the extra slot for good.
LEMMA PushType ==
  ASSUME NEW buf \in Ring, NEW i \in 0 .. Size
  PROVE  PushToBuffer(buf, i) \in Ring
<1> USE SizeAssumption
<1>1. CASE buf.full
  BY <1>1 DEF PushToBuffer
<1>2. CASE ~buf.full
  <2> DEFINE in == Advance(buf, buf.in)
  <2>1. buf.in \in 0 .. Size
    BY DEF Ring
  <2>1a. in \in 0 .. Size
    BY <2>1, AdvanceType
  <2>2. PushToBuffer(buf, i) =
          [buf EXCEPT !.b[buf.in] = i, !.in = in, !.empty = FALSE, !.full = (in = buf.out)]
    BY <1>2 DEF PushToBuffer
  <2>3. [buf.b EXCEPT ![buf.in] = i] \in [0 .. Size -> 0 .. Size]
    BY DEF Ring
  <2> HIDE DEF in
  <2> QED BY <2>1a, <2>2, <2>3 DEF Ring
<1> QED BY <1>1, <1>2

LEMMA PopType ==
  ASSUME NEW buf \in Ring
  PROVE  /\ PopFromBuffer(buf) \in Ring
         /\ Front(buf) \in 0 .. Size
<1>0. buf.out \in 0 .. Size /\ Size \in Nat
  BY SizeAssumption DEF Ring
<1>1. Advance(buf, buf.out) \in 0 .. Size - 1
  BY <1>0, AdvanceType
<1>2. PopFromBuffer(buf) \in Ring
  BY <1>1 DEF PopFromBuffer, Ring
<1>3. Front(buf) \in 0 .. Size
  BY <1>0 DEF Front, Ring
<1> QED BY <1>2, <1>3

-----------------------------------------------------------------------------
(* The ring as a sequence.                                                 *)

RingInv(buf) ==
  /\ buf \in Ring
  /\ ~(buf.empty /\ buf.full)
  /\ buf.empty => buf.in = buf.out
  /\ buf.in = buf.out => buf.empty \/ buf.full
  /\ buf.full => buf.in = buf.out \/ buf.in = Size

\* The fields of a ring.
LEMMA RingFields ==
  ASSUME NEW buf \in Ring
  PROVE  /\ buf.size = Size /\ Size \in Nat /\ Size > 0
         /\ buf.in \in 0 .. Size
         /\ buf.out \in 0 .. Size - 1
         /\ buf.b \in [0 .. Size -> 0 .. Size]
         /\ buf.empty \in BOOLEAN /\ buf.full \in BOOLEAN
<1>1. Size \in Nat /\ Size > 0
  BY SizeAssumption
<1>2. buf.size = Size /\ buf.in \in 0 .. Size
  BY DEF Ring
<1>3. buf.out \in 0 .. Size - 1
  BY DEF Ring
<1>4. buf.b \in [0 .. Size -> 0 .. Size]
  BY DEF Ring
<1>5. buf.empty \in BOOLEAN /\ buf.full \in BOOLEAN
  BY DEF Ring
<1> QED BY <1>1, <1>2, <1>3, <1>4, <1>5

\* The number of values in the ring, and the slots that hold them.
LEMMA CountSlot ==
  ASSUME NEW buf, RingInv(buf)
  PROVE  /\ Count(buf) \in 0 .. Size
         /\ Count(buf) = 0 <=> buf.empty
         /\ \A k \in 1 .. Count(buf) : Slot(buf, k) \in 0 .. Size - 1
         /\ Contents(buf) \in Seq(0 .. Size)
         /\ Len(Contents(buf)) = Count(buf)
         /\ \A k \in 1 .. Count(buf) : Contents(buf)[k] = buf.b[Slot(buf, k)]
<1>0. /\ buf.size = Size /\ Size \in Nat /\ Size > 0
      /\ buf.in \in 0 .. Size /\ buf.out \in 0 .. Size - 1
      /\ buf.empty \in BOOLEAN
  BY RingFields DEF RingInv
<1>a. buf.b \in [0 .. Size -> 0 .. Size]
  BY RingFields DEF RingInv
<1>1. Count(buf) \in 0 .. Size /\ (Count(buf) = 0 <=> buf.empty)
  <2>1. CASE buf.empty
    BY <1>0, <2>1 DEF Count
  <2>2. CASE ~buf.empty /\ buf.out < buf.in
    BY <1>0, <2>2 DEF Count
  <2>3. CASE ~buf.empty /\ ~(buf.out < buf.in)
    BY <1>0, <2>3 DEF Count
  <2> QED BY <2>1, <2>2, <2>3
<1>2. ASSUME NEW k \in 1 .. Count(buf) PROVE Slot(buf, k) \in 0 .. Size - 1
  <2>1. k \in 1 .. Size
    BY <1>0, <1>1
  <2> QED BY <1>0, <2>1 DEF Slot
<1>3. \A k \in 1 .. Count(buf) : buf.b[Slot(buf, k)] \in 0 .. Size
  BY <1>0, <1>a, <1>2
<1>4. Contents(buf) \in [1 .. Count(buf) -> 0 .. Size]
  BY <1>3 DEF Contents
<1>5. Contents(buf) \in Seq(0 .. Size) /\ Len(Contents(buf)) = Count(buf)
  <2>1. Count(buf) \in Nat
    BY <1>0, <1>1
  <2>2. Contents(buf) \in Seq(0 .. Size)
    BY <1>4, <2>1, SeqDef
  <2> QED BY <1>4, <2>1, <2>2, LenProperties
<1> QED BY <1>1, <1>2, <1>5 DEF Contents

\* A push appends, unless the ring is full or in its boot-time state.
LEMMA PushContents ==
  ASSUME NEW buf, RingInv(buf), ~buf.full, buf.in # Size, NEW i \in 0 .. Size
  PROVE  /\ RingInv(PushToBuffer(buf, i))
         /\ PushToBuffer(buf, i).in # Size
         /\ Contents(PushToBuffer(buf, i)) = Append(Contents(buf), i)
<1> DEFINE new == PushToBuffer(buf, i)
<1>0. /\ buf.size = Size /\ Size \in Nat /\ Size > 0
      /\ buf.in \in 0 .. Size /\ buf.in # Size /\ buf.out \in 0 .. Size - 1
      /\ buf.empty \in BOOLEAN
      /\ buf.empty <=> buf.in = buf.out
  BY RingFields DEF RingInv
<1>a. buf \in Ring /\ buf.b \in [0 .. Size -> 0 .. Size]
  BY RingFields DEF RingInv
<1>1. /\ new.in = (IF buf.in + 1 >= Size THEN 0 ELSE buf.in + 1)
      /\ new.out = buf.out /\ new.size = Size /\ new.empty = FALSE
      /\ new.full = (new.in = buf.out)
  BY <1>0, <1>a DEF PushToBuffer, Advance, Ring
<1>b. new.b = [buf.b EXCEPT ![buf.in] = i]
  BY <1>a DEF PushToBuffer, Ring
<1>2. new \in Ring
  BY <1>a, PushType
<1> HIDE DEF new
<1>c. new.in # Size
  BY <1>0, <1>1
<1>3. RingInv(new)
  BY <1>1, <1>2, <1>c DEF RingInv
<1>d. Count(buf) = IF buf.in < buf.out THEN Size - buf.out + buf.in ELSE buf.in - buf.out
  BY <1>0 DEF Count
<1>4. Count(new) = Count(buf) + 1
  <2>1. Count(new) = IF buf.out < new.in THEN new.in - buf.out ELSE Size - buf.out + new.in
    BY <1>1 DEF Count
  <2> QED BY <1>0, <1>1, <1>d, <2>1
<1>5. Slot(new, Count(buf) + 1) = buf.in
  BY <1>0, <1>1, <1>d DEF Slot
<1>6. ASSUME NEW k \in 1 .. Count(buf)
      PROVE  Slot(new, k) = Slot(buf, k) /\ Slot(buf, k) # buf.in /\ Slot(buf, k) \in 0 .. Size - 1
  BY <1>0, <1>1, <1>d DEF Slot
<1>7. Len(Append(Contents(buf), i)) = Count(buf) + 1 /\ Count(buf) \in Nat
  BY CountSlot
<1>8. ASSUME NEW k \in 1 .. Count(buf) + 1
      PROVE  Contents(new)[k] = Append(Contents(buf), i)[k]
  <2>1. Contents(new)[k] = new.b[Slot(new, k)]
    BY <1>3, <1>4, <1>8, CountSlot
  <2>2. CASE k = Count(buf) + 1
    <3>1. Append(Contents(buf), i)[k] = i
      BY <2>2, CountSlot, AppendProperties
    <3>2. new.b[buf.in] = i
      BY <1>0, <1>a, <1>b, Zenon
    <3> QED BY <1>5, <2>1, <2>2, <3>1, <3>2
  <2>3. CASE k \in 1 .. Count(buf)
    <3>1. Append(Contents(buf), i)[k] = buf.b[Slot(buf, k)]
      BY <2>3, CountSlot, AppendProperties
    <3>2. Slot(buf, k) \in 0 .. Size /\ Slot(buf, k) # buf.in
      BY <1>0, <1>6, <2>3
    <3>3. new.b[Slot(buf, k)] = buf.b[Slot(buf, k)]
      BY <1>a, <1>b, <3>2
    <3> QED BY <1>6, <2>1, <2>3, <3>1, <3>3
  <2> QED BY <1>7, <1>8, <2>2, <2>3
<1>9. Contents(new) \in Seq(0 .. Size) /\ Len(Contents(new)) = Count(buf) + 1
  BY <1>3, <1>4, CountSlot
<1>10. Append(Contents(buf), i) \in Seq(0 .. Size)
  BY CountSlot, AppendProperties
<1>11. Contents(new) = Append(Contents(buf), i)
  BY <1>7, <1>8, <1>9, <1>10, SeqEqual
<1> QED BY <1>3, <1>c, <1>11 DEF new

\* A pop takes the head, unless it takes the last slot of the boot-time array.
LEMMA PopContents ==
  ASSUME NEW buf, RingInv(buf), ~buf.empty, buf.in # Size \/ buf.out + 1 # Size
  PROVE  /\ RingInv(PopFromBuffer(buf))
         /\ PopFromBuffer(buf).in = buf.in
         /\ Front(buf) = Head(Contents(buf))
         /\ Contents(PopFromBuffer(buf)) = Tail(Contents(buf))
         /\ Contents(buf) # <<>>
<1> DEFINE new == PopFromBuffer(buf)
<1>0. /\ buf.size = Size /\ Size \in Nat /\ Size > 0
      /\ buf.in \in 0 .. Size /\ buf.out \in 0 .. Size - 1
      /\ buf.empty \in BOOLEAN
  BY RingFields DEF RingInv
<1>a. buf \in Ring
  BY DEF RingInv
<1>1. /\ new.out = (IF buf.out + 1 >= Size THEN 0 ELSE buf.out + 1)
      /\ new.in = buf.in /\ new.size = Size /\ new.full = FALSE
      /\ new.empty = (new.out = buf.in)
      /\ new.b = buf.b
  BY <1>0, <1>a DEF PopFromBuffer, Advance, Ring
<1>2. new \in Ring
  BY <1>a, PopType
<1> HIDE DEF new
<1>3. RingInv(new)
  BY <1>1, <1>2 DEF RingInv
<1>b. Count(buf) = IF buf.out < buf.in THEN buf.in - buf.out ELSE Size - buf.out + buf.in
  BY <1>0 DEF Count
<1>c. Count(new) = IF new.out = buf.in THEN 0
                   ELSE IF new.out < buf.in THEN buf.in - new.out ELSE Size - new.out + buf.in
  BY <1>1 DEF Count
<1>4. Count(new) = Count(buf) - 1 /\ Count(buf) \in 1 .. Size
  <2>1. Count(buf) \in 1 .. Size
    BY <1>0, <1>b DEF RingInv
  <2>2. Count(new) = Count(buf) - 1
    BY <1>0, <1>1, <1>b, <1>c
  <2> QED BY <2>1, <2>2
<1>5. ASSUME NEW k \in 1 .. Count(buf) - 1
      PROVE  Slot(new, k) = Slot(buf, k + 1)
  BY <1>0, <1>1, <1>4 DEF Slot
<1>6. Slot(buf, 1) = buf.out /\ Front(buf) = buf.b[buf.out]
  BY <1>0 DEF Slot, Front
<1>7. Contents(buf) \in Seq(0 .. Size) /\ Len(Contents(buf)) = Count(buf) /\ Contents(buf) # <<>>
  BY <1>4, CountSlot
<1>8. Head(Contents(buf)) = Front(buf)
  BY <1>4, <1>6, <1>7, CountSlot
<1>9. /\ Tail(Contents(buf)) \in Seq(0 .. Size)
      /\ Len(Tail(Contents(buf))) = Count(buf) - 1
      /\ \A k \in 1 .. Count(buf) - 1 : Tail(Contents(buf))[k] = Contents(buf)[k + 1]
  BY <1>4, <1>7
<1>10. Contents(new) \in Seq(0 .. Size) /\ Len(Contents(new)) = Count(buf) - 1
  BY <1>3, <1>4, CountSlot
<1>11. ASSUME NEW k \in 1 .. Count(buf) - 1
       PROVE  Contents(new)[k] = Contents(buf)[k + 1]
  <2>1. k \in 1 .. Count(new) /\ k + 1 \in 1 .. Count(buf)
    BY <1>4
  <2>2. Contents(new)[k] = new.b[Slot(new, k)]
    BY <1>3, <2>1, CountSlot
  <2>3. Contents(buf)[k + 1] = buf.b[Slot(buf, k + 1)]
    BY <2>1, CountSlot
  <2> QED BY <1>1, <1>5, <2>2, <2>3
<1>12. Contents(new) = Tail(Contents(buf))
  BY <1>9, <1>10, <1>11
<1> QED BY <1>1, <1>3, <1>7, <1>8, <1>12 DEF new

-----------------------------------------------------------------------------
(* Sequences without repetition, as sets of numbers.                       *)

Occurs(s, i) == \E k \in 1 .. Len(s) : s[k] = i

Distinct(s) == \A j, k \in 1 .. Len(s) : s[j] = s[k] => j = k

LEMMA AppendDistinct ==
  ASSUME NEW s \in Seq(Ids), NEW i \in Ids, Distinct(s), ~Occurs(s, i)
  PROVE  /\ Append(s, i) \in Seq(Ids)
         /\ Distinct(Append(s, i))
         /\ \A j \in Ids : Occurs(Append(s, i), j) <=> Occurs(s, j) \/ j = i
<1> DEFINE t == Append(s, i)
<1>1. /\ t \in Seq(Ids) /\ Len(t) = Len(s) + 1 /\ Len(s) \in Nat
      /\ \A k \in 1 .. Len(s) : t[k] = s[k]
      /\ t[Len(s) + 1] = i
  BY AppendProperties, LenProperties
<1> HIDE DEF t
<1>2. Distinct(t)
  BY <1>1 DEF Distinct, Occurs
<1>3. \A j \in Ids : Occurs(t, j) <=> Occurs(s, j) \/ j = i
  BY <1>1 DEF Occurs
<1> QED BY <1>1, <1>2, <1>3 DEF t

LEMMA TailDistinct ==
  ASSUME NEW s \in Seq(Ids), Distinct(s), s # <<>>
  PROVE  /\ Tail(s) \in Seq(Ids)
         /\ Head(s) \in Ids /\ Occurs(s, Head(s))
         /\ Distinct(Tail(s))
         /\ \A j \in Ids : Occurs(Tail(s), j) <=> Occurs(s, j) /\ j # Head(s)
<1> DEFINE t == Tail(s)
<1>1. /\ t \in Seq(Ids) /\ Len(t) = Len(s) - 1 /\ Len(s) \in Nat \ {0}
      /\ \A k \in 1 .. Len(s) - 1 : t[k] = s[k + 1]
      /\ Head(s) = s[1] /\ Head(s) \in Ids
  BY HeadTailProperties, LenProperties, EmptySeq
<1> HIDE DEF t
<1>2. Distinct(t)
  <2> SUFFICES ASSUME NEW j \in 1 .. Len(t), NEW k \in 1 .. Len(t), t[j] = t[k]
               PROVE  j = k
    BY DEF Distinct
  <2>1. /\ j + 1 \in 1 .. Len(s) /\ k + 1 \in 1 .. Len(s)
        /\ s[j + 1] = s[k + 1]
    BY <1>1
  <2>2. j + 1 = k + 1
    BY <2>1 DEF Distinct
  <2> QED BY <1>1, <2>2
<1>3. ASSUME NEW j \in Ids
      PROVE  Occurs(t, j) <=> Occurs(s, j) /\ j # Head(s)
  <2>1. ASSUME Occurs(t, j) PROVE Occurs(s, j) /\ j # Head(s)
    <3>1. PICK k \in 1 .. Len(t) : t[k] = j
      BY <2>1 DEF Occurs
    <3>2. k + 1 \in 1 .. Len(s) /\ s[k + 1] = j /\ k + 1 # 1 /\ 1 \in 1 .. Len(s)
      BY <1>1, <3>1
    <3> QED BY <1>1, <3>2 DEF Occurs, Distinct
  <2>2. ASSUME Occurs(s, j), j # Head(s) PROVE Occurs(t, j)
    <3>1. PICK k \in 1 .. Len(s) : s[k] = j
      BY <2>2 DEF Occurs
    <3>2. k - 1 \in 1 .. Len(t) /\ k = (k - 1) + 1
      BY <1>1, <2>2, <3>1
    <3>3. t[k - 1] = j
      BY <1>1, <3>1, <3>2
    <3> QED BY <3>2, <3>3 DEF Occurs
  <2> QED BY <2>1, <2>2
<1>4. Occurs(s, Head(s))
  BY <1>1 DEF Occurs
<1> QED BY <1>1, <1>2, <1>3, <1>4 DEF t

\* A full list without repetition holds every number.
LEMMA FullHoldsAll ==
  ASSUME NEW s \in Seq(Ids), Distinct(s), Len(s) = Size, NEW i \in Ids
  PROVE  Occurs(s, i)
<1> SUFFICES ASSUME ~Occurs(s, i) PROVE FALSE
  OBVIOUS
<1>1. Size \in Nat /\ Size > 0 /\ Size \in Int /\ 1 \in Int
  BY SizeAssumption
<1>2. IsFiniteSet(Ids) /\ Cardinality(Ids) = Size
  BY <1>1, FS_Interval DEF Ids
<1>3. IsFiniteSet(Ids \ {i}) /\ Cardinality(Ids \ {i}) < Cardinality(Ids)
  <2>1. IsFiniteSet(Ids \ {i}) /\ Cardinality(Ids \ {i}) = Cardinality(Ids) - 1
    BY <1>2, FS_RemoveElement, Zenon
  <2> QED BY <1>1, <1>2, <2>1
<1>4. s \in [Ids -> Ids \ {i}]
  <2>1. s \in [Ids -> Ids]
    BY LenProperties DEF Ids
  <2>2. \A k \in Ids : s[k] \in Ids \ {i}
    BY <2>1 DEF Occurs, Ids
  <2> QED BY <2>1, <2>2, Zenon
<1>5. \E j, k \in Ids : j # k /\ s[j] = s[k]
  BY <1>2, <1>3, <1>4, FS_PigeonHole
<1> QED BY <1>5 DEF Distinct, Ids

\* A ring is full when it holds Size numbers, but for its boot-time state.
LEMMA FullIsSize ==
  ASSUME NEW buf, RingInv(buf), buf.in # Size
  PROVE  buf.full <=> Len(Contents(buf)) = Size
<1>0. /\ buf.size = Size /\ Size \in Nat /\ Size > 0
      /\ buf.in \in 0 .. Size /\ buf.out \in 0 .. Size - 1
      /\ buf.empty \in BOOLEAN
  BY RingFields DEF RingInv
<1>1. Len(Contents(buf)) = Count(buf)
  BY CountSlot
<1>2. CASE buf.full
  <2>1. buf.in = buf.out /\ ~buf.empty
    BY <1>2 DEF RingInv
  <2>2. Count(buf) = Size
    BY <1>0, <2>1 DEF Count
  <2> QED BY <1>1, <1>2, <2>2
<1>3. CASE ~buf.full
  <2>1. buf.empty <=> buf.in = buf.out
    BY <1>3 DEF RingInv
  <2>2. Count(buf) # Size
    BY <1>0, <2>1 DEF Count
  <2> QED BY <1>1, <1>3, <2>2
<1> QED BY <1>2, <1>3

\* A push of a number that the ring does not hold is never dropped.
LEMMA NewPush ==
  ASSUME NEW buf, RingInv(buf), buf.in # Size, NEW i \in Ids,
         Contents(buf) \in Seq(Ids), Distinct(Contents(buf)), ~Occurs(Contents(buf), i)
  PROVE  LET new == PushToBuffer(buf, i) IN
         /\ RingInv(new) /\ new.in # Size
         /\ Contents(new) = Append(Contents(buf), i)
         /\ Len(Contents(buf)) < Size
         /\ Contents(new) \in Seq(Ids) /\ Distinct(Contents(new))
         /\ \A j \in Ids : Occurs(Contents(new), j) <=> Occurs(Contents(buf), j) \/ j = i
<1>0. Size \in Nat /\ i \in 0 .. Size
  BY SizeAssumption DEF Ids
<1>1. Len(Contents(buf)) # Size
  BY FullHoldsAll
<1>2. Len(Contents(buf)) = Count(buf) /\ Count(buf) \in 0 .. Size
  BY CountSlot
<1>3. ~buf.full
  BY <1>1, FullIsSize
<1>4. /\ RingInv(PushToBuffer(buf, i)) /\ PushToBuffer(buf, i).in # Size
      /\ Contents(PushToBuffer(buf, i)) = Append(Contents(buf), i)
  BY <1>0, <1>3, PushContents
<1>5. Len(Contents(buf)) < Size
  BY <1>0, <1>1, <1>2
<1> QED BY <1>4, <1>5, AppendDistinct

-----------------------------------------------------------------------------
(* The list of free inodes.  Its invariant: what the ring holds, read as a *)
(* sequence, has no repetition and is the set of the scanned inodes that   *)
(* are neither in use nor lost.  Full-ness then contradicts a push, since  *)
(* the inode pushed was in use and so was not in the ring.                 *)

Seen(i) == i \in 1 .. Size - todo

InodeInv ==
  /\ RingInv(list) /\ list.in # Size
  /\ Contents(list) \in Seq(Ids) /\ Distinct(Contents(list))
  /\ \A i \in Ids : Occurs(Contents(list), i) <=> Seen(i) /\ i \notin used \cup orphans
  /\ boot = <<>> /\ todo \in 0 .. Size /\ got \in 0 .. Size
  /\ missed = {} /\ wrapped = FALSE
  /\ used \in SUBSET Ids /\ orphans \in SUBSET Ids /\ used \cap orphans = {}
  /\ ~Booted => orphans = {}

LEMMA EmptyRing ==
  /\ RingInv(GetBuffer(Size)) /\ GetBuffer(Size).in = 0 /\ GetBuffer(Size).empty
  /\ Contents(GetBuffer(Size)) = <<>>
<1>0. Size \in Nat /\ Size > 0
  BY SizeAssumption
<1>1. GetBuffer(Size) \in Ring
  BY <1>0 DEF GetBuffer, Ring
<1>2. RingInv(GetBuffer(Size)) /\ GetBuffer(Size).in = 0 /\ GetBuffer(Size).empty
  BY <1>1 DEF RingInv, GetBuffer
<1>3. Count(GetBuffer(Size)) = 0
  BY <1>2, CountSlot
<1>4. Contents(GetBuffer(Size)) \in Seq(0 .. Size) /\ Len(Contents(GetBuffer(Size))) = 0
  BY <1>2, <1>3, CountSlot
<1> QED BY <1>2, <1>4, EmptySeq

LEMMA InodeInit == InitInodes => InodeInv
<1> SUFFICES ASSUME InitInodes PROVE InodeInv
  OBVIOUS
<1>0. Size \in Nat /\ Size > 0
  BY SizeAssumption
<1>1. RingInv(list) /\ list.in # Size /\ Contents(list) = <<>>
  BY <1>0, EmptyRing DEF InitInodes, GetFreeInodeList
<1>2. Contents(list) \in Seq(Ids) /\ Distinct(Contents(list)) /\ \A i : ~Occurs(Contents(list), i)
  BY <1>1, EmptySeq DEF Distinct, Occurs
<1>3. \A i \in Ids : ~Seen(i)
  BY <1>0 DEF Seen, InitInodes, GetFreeInodeList
<1> QED BY <1>0, <1>1, <1>2, <1>3 DEF InodeInv, InitInodes, GetFreeInodeList

\* A push of an inode that the ring does not hold is never dropped.
LEMMA InodePush ==
  ASSUME InodeInv, NEW i \in Ids, ~Occurs(Contents(list), i)
  PROVE  LET new == PushToBuffer(list, i) IN
         /\ RingInv(new) /\ new.in # Size
         /\ Contents(new) = Append(Contents(list), i)
         /\ Len(Contents(list)) < Size
         /\ Contents(new) \in Seq(Ids) /\ Distinct(Contents(new))
         /\ \A j \in Ids : Occurs(Contents(new), j) <=> Occurs(Contents(list), j) \/ j = i
BY NewPush DEF InodeInv

LEMMA InodeStep == InodeInv /\ [NextInodes]_vars => InodeInv'
<1> SUFFICES ASSUME InodeInv, [NextInodes]_vars PROVE InodeInv'
  OBVIOUS
<1>0. Size \in Nat /\ Size > 0
  BY SizeAssumption
<1>1. CASE ScanInode
  <2> DEFINE i == Size - todo + 1
  <2>1. i \in Ids /\ todo # 0 /\ todo' \in 0 .. Size /\ todo' = todo - 1 /\ todo \in 1 .. Size
    BY <1>0, <1>1 DEF ScanInode, Booted, InodeInv, Ids
  <2>2. \A j \in Ids : Seen(j)' <=> Seen(j) \/ j = i
    BY <1>0, <2>1 DEF Seen, Ids
  <2>3. ~Seen(i) /\ orphans = {}
    BY <1>0, <2>1 DEF Seen, InodeInv, Booted
  <2>4. CASE i \in used
    <3>1. list' = list
      BY <1>1, <2>4 DEF ScanInode
    <3> QED BY <1>1, <2>1, <2>2, <2>3, <2>4, <3>1 DEF ScanInode, InodeInv, Booted
  <2>5. CASE i \notin used
    <3>1. list' = PushToBuffer(list, i)
      BY <1>1, <2>5 DEF ScanInode
    <3>2. ~Occurs(Contents(list), i)
      BY <2>1, <2>3 DEF InodeInv
    <3>3. /\ RingInv(list') /\ list'.in # Size
          /\ Contents(list') \in Seq(Ids) /\ Distinct(Contents(list'))
          /\ \A j \in Ids : Occurs(Contents(list'), j) <=> Occurs(Contents(list), j) \/ j = i
      BY <2>1, <3>1, <3>2, InodePush
    <3> HIDE DEF i
    <3> QED BY <1>1, <2>1, <2>2, <2>3, <2>5, <3>3 DEF ScanInode, InodeInv, Booted
  <2> QED BY <2>4, <2>5
<1>2. CASE Alloc
  <2>1. Booted /\ ~list.empty /\ RingInv(list) /\ list.in # Size
    BY <1>2 DEF Alloc, InodeInv
  <2>2. /\ RingInv(list') /\ list'.in = list.in
        /\ got' = Head(Contents(list)) /\ Contents(list') = Tail(Contents(list))
        /\ Contents(list) # <<>>
    BY <1>2, <2>1, PopContents DEF Alloc
  <2>3. /\ got' \in Ids /\ Occurs(Contents(list), got')
        /\ Contents(list') \in Seq(Ids) /\ Distinct(Contents(list'))
        /\ \A j \in Ids : Occurs(Contents(list'), j) <=> Occurs(Contents(list), j) /\ j # got'
    BY <2>2, TailDistinct DEF InodeInv
  <2>4. wrapped' = FALSE
    <3>1. list.size = Size
      BY <2>1, RingFields DEF RingInv
    <3> QED BY <1>2, <2>1, <3>1 DEF Alloc, InodeInv, fresh
  <2>5. got' \in 0 .. Size
    BY <1>0, <2>3 DEF Ids
  <2>6. used' \in SUBSET Ids /\ todo' = todo /\ used' = used \cup {got'}
    <3>1. got' # 0
      BY <1>0, <2>3 DEF Ids
    <3>2. used' = used \cup {got'} /\ todo' = todo
      BY <1>2, <3>1 DEF Alloc
    <3> QED BY <2>3, <3>2 DEF InodeInv
  <2>7. \A j \in Ids : Seen(j)' <=> Seen(j)
    BY <2>6 DEF Seen
  <2> QED BY <1>2, <2>1, <2>2, <2>3, <2>4, <2>5, <2>6, <2>7 DEF Alloc, InodeInv, Booted
<1>3. CASE AllocEmpty
  <2>1. list' = list /\ got' = 0
    BY <1>3 DEF AllocEmpty, PopFromBuffer, Front
  <2> QED BY <1>0, <1>3, <2>1 DEF AllocEmpty, InodeInv, Booted, Seen
<1>4. ASSUME NEW i \in Ids, Release(i) PROVE InodeInv'
  <2>1. Booted /\ i \in used /\ list' = PushToBuffer(list, i)
    BY <1>4 DEF Release
  <2>2. ~Occurs(Contents(list), i) /\ i \notin orphans /\ Seen(i)
    <3>1. Seen(i)
      BY <1>0, <2>1 DEF Seen, Booted, Ids
    <3> QED BY <2>1, <3>1 DEF InodeInv
  <2>3. /\ RingInv(list') /\ list'.in # Size
        /\ Contents(list') \in Seq(Ids) /\ Distinct(Contents(list'))
        /\ \A j \in Ids : Occurs(Contents(list'), j) <=> Occurs(Contents(list), j) \/ j = i
    BY <2>1, <2>2, InodePush
  <2>4. \A j \in Ids : Seen(j)' <=> Seen(j)
    BY <1>4 DEF Seen, Release
  <2> QED BY <1>4, <2>1, <2>2, <2>3, <2>4 DEF Release, InodeInv, Booted
<1>5. ASSUME NEW i \in Ids, Retire(i) PROVE InodeInv'
  <2>1. \A j \in Ids : Seen(j)' <=> Seen(j)
    BY <1>5 DEF Seen, Retire
  <2> QED BY <1>5, <2>1 DEF Retire, InodeInv, Booted
<1>6. CASE UNCHANGED vars
  BY <1>6 DEF vars, InodeInv, Booted, Seen
<1> QED BY <1>1, <1>2, <1>3, <1>4, <1>5, <1>6 DEF NextInodes, Handlers

THEOREM InodeInvariant == SpecInodes => []InodeInv
BY InodeInit, InodeStep, PTL DEF SpecInodes

LEMMA ContentsRange ==
  ASSUME InodeInv
  PROVE  /\ DOMAIN Contents(list) = 1 .. Len(Contents(list))
         /\ Held = { i \in Ids : Occurs(Contents(list), i) }
<1>1. DOMAIN Contents(list) = 1 .. Len(Contents(list)) /\ Contents(list) \in Seq(Ids)
  BY LenProperties DEF InodeInv
<1>2. \A k \in 1 .. Len(Contents(list)) : Contents(list)[k] \in Ids
  BY <1>1, ElementOfSeq
<1> HIDE DEF Ids
<1>3. Held = { i \in Ids : Occurs(Contents(list), i) }
  BY <1>1, <1>2 DEF Held, Occurs
<1> QED BY <1>1, <1>3

\* Every variable of the inode list keeps its type, whatever the inodes in
\* use at boot and the order of pops and pushes (buffer.c:19-52).
THEOREM InodesTypeOK == SpecInodes => []TypeOK
<1>1. InodeInv => TypeOK
  BY EmptySeq DEF InodeInv, TypeOK, RingInv, Ring
<1> QED BY <1>1, InodeInvariant, PTL

\* The flags of the ring agree with its indices (buffer.c:19-52).
THEOREM InodesFlagsAgree == SpecInodes => []FlagsAgree
<1>1. InodeInv => FlagsAgree
  BY DEF InodeInv, FlagsAgree, RingInv
<1> QED BY <1>1, InodeInvariant, PTL

\* The list of free inodes holds each inode that is not in use exactly once,
\* except those DeleteDir never pushes (yfs.c:142-149, 653, 1167, 1039).
THEOREM InodesExactlyFree == SpecInodes => []ExactlyFree
<1>1. InodeInv => ExactlyFree
  <2> SUFFICES ASSUME InodeInv, Booted
               PROVE  Held = Ids \ (used \cup orphans) /\ NoDuplicates
    BY DEF ExactlyFree
  <2>1. \A i \in Ids : Seen(i)
    BY SizeAssumption DEF Seen, Booted, Ids
  <2>2. Held = Ids \ (used \cup orphans)
    <3>1. \A i \in Ids : Occurs(Contents(list), i) <=> i \notin used \cup orphans
      BY <2>1 DEF InodeInv
    <3> HIDE DEF Ids
    <3> QED BY <3>1, ContentsRange
  <2>3. NoDuplicates
    BY ContentsRange DEF NoDuplicates, InodeInv, Distinct
  <2> QED BY <2>2, <2>3
<1> QED BY <1>1, InodeInvariant, PTL

\* A pop never hands out an inode that is in use (yfs.c:653).
THEOREM InodesNoDoubleAlloc == SpecInodes => NoDoubleAlloc
<1>1. InodeInv /\ [NextInodes]_vars => [Alloc => got' \notin used]_vars
  <2> SUFFICES ASSUME InodeInv, Alloc PROVE got' \notin used
    OBVIOUS
  <2>1. ~list.empty /\ RingInv(list) /\ list.in # Size
    BY DEF Alloc, InodeInv
  <2>2. got' = Head(Contents(list)) /\ Contents(list) # <<>>
    BY <2>1, PopContents DEF Alloc
  <2>3. got' \in Ids /\ Occurs(Contents(list), got')
    BY <2>2, TailDistinct DEF InodeInv
  <2> QED BY <2>3 DEF InodeInv
<1> QED BY <1>1, InodeInvariant, PTL DEF SpecInodes, NoDoubleAlloc

LEMMA InodeQueueInit == InitInodes => Queue!Init
<1> SUFFICES ASSUME InitInodes PROVE Queue!Init
  OBVIOUS
<1>0. Size \in Nat /\ Size > 0
  BY SizeAssumption
<1>1. list = GetBuffer(Size) /\ boot = <<>> /\ got = 0
  BY DEF InitInodes, GetFreeInodeList
<1>2. Contents(list) = <<>> /\ list.in = 0 /\ list.size = Size
  BY <1>1, EmptyRing DEF GetBuffer
<1>3. fresh = FALSE
  BY <1>0, <1>2 DEF fresh
<1> QED BY <1>1, <1>2, <1>3 DEF Queue!Init

LEMMA InodeQueueStep == InodeInv /\ InodeInv' /\ [NextInodes]_vars => [Queue!Next]_(Queue!qvars)
<1> SUFFICES ASSUME InodeInv, InodeInv', [NextInodes]_vars
             PROVE  Queue!Next \/ UNCHANGED Queue!qvars
  OBVIOUS
<1>0. Size \in Nat /\ Size > 0
  BY SizeAssumption
<1>1. fresh = FALSE /\ fresh' = FALSE
  BY RingFields DEF fresh, InodeInv, RingInv
<1>2. ASSUME NEW i \in Ids, ~Occurs(Contents(list), i), list' = PushToBuffer(list, i),
             UNCHANGED <<boot, got>>
      PROVE  Queue!Next
  <2>1. Contents(list)' = Append(Contents(list), i) /\ Len(Contents(list)) < Size
    BY <1>2, InodePush
  <2>2. Queue!Push(i)
    BY <1>1, <1>2, <2>1 DEF Queue!Push
  <2> QED BY <2>2 DEF Queue!Next
<1>3. CASE ScanInode
  <2> DEFINE i == Size - todo + 1
  <2>1. i \in Ids /\ ~Seen(i)
    BY <1>0, <1>3 DEF ScanInode, Booted, InodeInv, Ids, Seen
  <2>2. ~Occurs(Contents(list), i)
    BY <2>1 DEF InodeInv
  <2>3. CASE i \in used
    BY <1>3, <2>3 DEF ScanInode, Queue!qvars, fresh
  <2>4. CASE i \notin used
    BY <1>2, <1>3, <2>1, <2>2, <2>4 DEF ScanInode
  <2> QED BY <2>3, <2>4
<1>4. CASE Alloc
  <2>1. ~list.empty /\ RingInv(list) /\ list.in # Size
    BY <1>4 DEF Alloc, InodeInv
  <2>2. got' = Head(Contents(list)) /\ Contents(list)' = Tail(Contents(list))
        /\ Contents(list) # <<>>
    BY <1>4, <2>1, PopContents DEF Alloc
  <2>3. Queue!Pop
    BY <1>1, <1>4, <2>2 DEF Alloc, Queue!Pop
  <2> QED BY <2>3 DEF Queue!Next
<1>5. CASE AllocEmpty
  <2>1. list' = list /\ got' = 0 /\ UNCHANGED boot
    BY <1>5 DEF AllocEmpty, PopFromBuffer, Front
  <2>2. Contents(list) = <<>>
    <3>1. Len(Contents(list)) = 0 /\ Contents(list) \in Seq(Ids)
      BY <1>5, CountSlot DEF AllocEmpty, InodeInv
    <3> QED BY <3>1, EmptySeq
  <2>3. Queue!PopEmpty
    BY <2>1, <2>2 DEF Queue!PopEmpty, fresh
  <2> QED BY <2>3 DEF Queue!Next
<1>6. ASSUME NEW i \in Ids, Release(i) PROVE Queue!Next
  <2>1. ~Occurs(Contents(list), i)
    BY <1>6 DEF Release, InodeInv
  <2> QED BY <1>2, <1>6, <2>1 DEF Release
<1>7. ASSUME NEW i \in Ids, Retire(i) PROVE UNCHANGED Queue!qvars
  BY <1>7 DEF Retire, Queue!qvars, fresh
<1>8. CASE UNCHANGED vars
  BY <1>8 DEF vars, Queue!qvars, fresh
<1> QED BY <1>3, <1>4, <1>5, <1>6, <1>7, <1>8 DEF NextInodes, Handlers

\* The list of free inodes behaves as the first-in first-out queue.
THEOREM InodesRefineQueue == SpecInodes => Refines
BY InodeInvariant, InodeQueueInit, InodeQueueStep, PTL DEF SpecInodes, Refines, Queue!Spec

-----------------------------------------------------------------------------
(* The boot scan.  What it does for any number of pointers goes by         *)
(* induction; it is done with the least number for which a claim fails.    *)
(* Nothing is known of the words behind the array, but what may be there.  *)

LEMMA LeastCounterexample ==
  ASSUME NEW S \in SUBSET Nat, S # {}
  PROVE  \E n \in S : \A m \in Nat : m < n => m \notin S
<1> DEFINE Before == OpToRel(<, Nat)
<1>1. IsWellFoundedOn(Before, Nat)
  BY NatLessThanWellFounded
<1>2. \A j, k \in Nat : j < k => <<j, k>> \in Before
  BY DEF OpToRel
<1> HIDE DEF Before
<1>3. PICK k \in S : \A j \in S : <<j, k>> \notin Before
  BY <1>1, WFMin
<1> QED BY <1>2, <1>3

\* f[m] is the array after the first m of n pointers.
IsScan(ptrs, behind, n, f) ==
  f = [m \in 0 .. n |-> IF m = 0 THEN [k \in Ids |-> k]
                        ELSE SearchAndSwap(f[m - 1], behind, ptrs[m], m)]

LEMMA ScanExists ==
  ASSUME NEW ptrs, NEW behind, NEW n \in Nat
  PROVE  \E f : IsScan(ptrs, behind, n, f)
<1> DEFINE Bad == { m \in Nat : ~ \E f : IsScan(ptrs, behind, m, f) }
<1> SUFFICES ASSUME Bad # {} PROVE FALSE
  OBVIOUS
<1>1. PICK m \in Bad : \A j \in Nat : j < m => j \notin Bad
  BY LeastCounterexample
<1>2. m \in Nat
  OBVIOUS
<1>3. m # 0
  <2> DEFINE f == [j \in 0 .. 0 |-> [k \in Ids |-> k]]
  <2>1. IsScan(ptrs, behind, 0, f)
    BY DEF IsScan
  <2> QED BY <2>1
<1>4. m - 1 \in Nat /\ m - 1 \notin Bad
  BY <1>1, <1>2, <1>3
<1>5. PICK f : IsScan(ptrs, behind, m - 1, f)
  BY <1>4
<1> DEFINE g == [j \in 0 .. m |-> IF j < m THEN f[j] ELSE SearchAndSwap(f[m - 1], behind, ptrs[m], m)]
<1>6. ASSUME NEW j \in 0 .. m
      PROVE  g[j] = IF j = 0 THEN [k \in Ids |-> k] ELSE SearchAndSwap(g[j - 1], behind, ptrs[j], j)
  <2>1. CASE j = m
    <3>1. m - 1 \in 0 .. m /\ m - 1 < m /\ m \in 0 .. m /\ ~(m < m)
      BY <1>2, <1>3
    <3>2. g[m] = SearchAndSwap(f[m - 1], behind, ptrs[m], m) /\ g[m - 1] = f[m - 1]
      BY <3>1
    <3> HIDE DEF g
    <3> QED BY <1>3, <2>1, <3>2
  <2>2. CASE j # m
    <3>1. j < m /\ j \in 0 .. m - 1
      BY <1>2, <2>2
    <3>2. f[j] = IF j = 0 THEN [k \in Ids |-> k] ELSE SearchAndSwap(f[j - 1], behind, ptrs[j], j)
      BY <1>5, <3>1 DEF IsScan
    <3>3. g[j] = f[j]
      BY <3>1
    <3>4. j # 0 => g[j - 1] = f[j - 1]
      <4> SUFFICES ASSUME j # 0 PROVE g[j - 1] = f[j - 1]
        OBVIOUS
      <4>1. j - 1 \in 0 .. m /\ j - 1 < m
        BY <1>2, <3>1
      <4> QED BY <4>1
    <3> HIDE DEF g
    <3> QED BY <3>2, <3>3, <3>4
  <2> QED BY <2>1, <2>2
<1>7. IsScan(ptrs, behind, m, g)
  <2>1. g = [j \in 0 .. m |-> g[j]]
    OBVIOUS
  <2> HIDE DEF g
  <2> QED BY <1>6, <2>1 DEF IsScan
<1> QED BY <1>2, <1>7

\* The array behind the first n places: data blocks, and none that one of the
\* first n pointers names, unless that was passed over.  As long as the index
\* was inside the array, no block is in it twice.
Behind(ptrs, n, arr) ==
  /\ arr \in [Ids -> 0 .. Size]
  /\ \A k \in Ids : k > n => arr[k] \in Ids
  /\ n <= Size => \A j, k \in Ids : arr[j] = arr[k] /\ arr[k] # 0 => j = k
  /\ \A j \in 1 .. n : ~Passed(ptrs[j]) =>
       \A k \in Ids : k > n => arr[k] # ptrs[j].num

\* While the index is inside the array.
LEMMA SwapKeepsBehind ==
  ASSUME NEW ptrs, NEW behind, NEW n \in Ids, ptrs[n] \in Pointers,
         NEW arr, Behind(ptrs, n - 1, arr)
  PROVE  Behind(ptrs, n, SearchAndSwap(arr, behind, ptrs[n], n))
<1>0. Size \in Nat /\ n \in Nat /\ n > 0 /\ n <= Size /\ FirstBlock \in Nat
  BY SizeAssumption, FirstBlockAssumption DEF Ids
<1> DEFINE num == ptrs[n].num
<1>1. num \in 0 .. Size
  BY <1>0 DEF Pointers, Ids
<1>2. \A k \in Ids : k \in Int /\ (k > n - 1 <=> k >= n)
  BY <1>0 DEF Ids
<1>3. \A j \in 1 .. n : j \in 1 .. n - 1 \/ j = n
  BY <1>0
<1>3a. \A k \in Ids : k > n => k > n - 1
  BY <1>0 DEF Ids
<1>4. CASE Passed(ptrs[n])
  <2>1. SearchAndSwap(arr, behind, ptrs[n], n) = arr
    BY <1>4 DEF SearchAndSwap
  <2>2. /\ arr \in [Ids -> 0 .. Size]
        /\ \A k \in Ids : k > n => arr[k] \in Ids
        /\ \A j, k \in Ids : arr[j] = arr[k] /\ arr[k] # 0 => j = k
    <3>1. n - 1 <= Size
      BY <1>0
    <3> QED BY <1>3a, <3>1 DEF Behind
  <2>3. ASSUME NEW j \in 1 .. n, ~Passed(ptrs[j]), NEW k \in Ids, k > n
        PROVE  arr[k] # ptrs[j].num
    BY <1>3, <1>3a, <1>4, <2>3 DEF Behind
  <2> QED BY <2>1, <2>2, <2>3 DEF Behind
<1>5. CASE ~Passed(ptrs[n])
  <2> DEFINE new == [k \in Ids |-> IF k = n THEN num
                                   ELSE IF ~FoundAt(arr, num, k) THEN arr[k] ELSE arr[n]]
  <2>1. SearchAndSwap(arr, behind, ptrs[n], n) = new
    <3>1. ~(n > Bound(ptrs[n]))
      BY <1>0 DEF Bound
    <3> QED BY <1>5, <3>1 DEF SearchAndSwap
  <2>2. /\ arr \in [Ids -> 0 .. Size] /\ arr[n] \in 0 .. Size
        /\ \A k \in Ids : k >= n => arr[k] \in Ids
        /\ \A j, k \in Ids : arr[j] = arr[k] /\ arr[k] # 0 => j = k
        /\ \A j \in 1 .. n - 1 : ~Passed(ptrs[j]) =>
             \A k \in Ids : k >= n => arr[k] # ptrs[j].num
    BY <1>0, <1>2 DEF Behind
  <2> HIDE DEF num
  <2>a. /\ \A k \in Ids : FoundAt(arr, num, k) => arr[k] = num
        /\ \A k \in Ids : arr[k] = num /\ num # 0 => FoundAt(arr, num, k)
    <3>1. \A k \in Ids : \A j \in 1 .. k - 1 : j \in Ids /\ j # k
      BY <1>0 DEF Ids
    <3> QED BY <2>2, <3>1 DEF FoundAt
  <2>b. \A j, k \in Ids : FoundAt(arr, num, j) /\ FoundAt(arr, num, k) => j = k
    <3>1. \A j, k \in Ids : j # k => j \in 1 .. k - 1 \/ k \in 1 .. j - 1
      BY <1>0 DEF Ids
    <3> QED BY <3>1 DEF FoundAt
  <2>c. \A k \in Ids : k >= n => arr[k] # 0
    BY <1>0, <2>2 DEF Ids
  <2>d. \A k \in Ids : new[k] = IF k = n THEN num
                                ELSE IF ~FoundAt(arr, num, k) THEN arr[k] ELSE arr[n]
    OBVIOUS
  <2>3. \A k \in Ids : k > n => new[k] = IF arr[k] = num THEN arr[n] ELSE arr[k]
    <3>1. \A k \in Ids : k > n => k # n /\ k >= n
      BY <1>0, <1>2
    <3> HIDE DEF new
    <3> QED BY <2>a, <2>c, <2>d, <3>1
  <2>4. new \in [Ids -> 0 .. Size]
    BY <1>1, <2>2
  <2> HIDE DEF new
  <2>5. \A k \in Ids : k > n => k >= n /\ k # n
    BY <1>0, <1>2
  <2>5a. n >= n
    BY <1>0
  <2>6. \A k \in Ids : k > n => new[k] \in Ids
    BY <2>2, <2>3, <2>5, <2>5a
  <2>7. ASSUME NEW j \in Ids, NEW k \in Ids, new[j] = new[k], new[k] # 0
        PROVE  j = k
    <3>1. CASE j = n \/ k = n
      BY <2>2, <2>a, <2>d, <2>7, <3>1
    <3>2. CASE j # n /\ k # n
      BY <2>2, <2>a, <2>b, <2>d, <2>7, <3>2
    <3> QED BY <3>1, <3>2
  <2>8. ASSUME NEW j \in 1 .. n, ~Passed(ptrs[j]), NEW k \in Ids, k > n
        PROVE  new[k] # ptrs[j].num
    <3>1. CASE j \in 1 .. n - 1
      BY <2>2, <2>3, <2>5, <2>5a, <2>8, <3>1
    <3>2. CASE j = n
      BY <2>2, <2>3, <2>5, <2>5a, <2>8, <2>c, <3>2 DEF num
    <3> QED BY <1>3, <3>1, <3>2
  <2>9. Behind(ptrs, n, new)
    BY <2>4, <2>6, <2>7, <2>8 DEF Behind
  <2> QED BY <2>1, <2>9
<1> QED BY <1>4, <1>5

\* An index behind the array leaves it an array of words, and no place is left
\* behind the index.
LEMMA SwapBehind ==
  ASSUME NEW ptrs, NEW behind \in Words, NEW n \in Nat, n > Size, ptrs[n] \in Pointers,
         NEW arr, Behind(ptrs, n - 1, arr)
  PROVE  Behind(ptrs, n, SearchAndSwap(arr, behind, ptrs[n], n))
<1> DEFINE new == SearchAndSwap(arr, behind, ptrs[n], n)
<1>0. Size \in Nat /\ FirstBlock \in Nat /\ n \notin Ids /\ ~(n <= Size) /\ \A k \in Ids : ~(k > n)
  BY SizeAssumption, FirstBlockAssumption DEF Ids
<1>1. arr \in [Ids -> 0 .. Size]
  BY DEF Behind
<1>2. new \in [Ids -> 0 .. Size]
  <2>1. CASE Passed(ptrs[n]) \/ n > Bound(ptrs[n])
    BY <1>1, <2>1 DEF SearchAndSwap
  <2>2. CASE ~(Passed(ptrs[n]) \/ n > Bound(ptrs[n]))
    <3>1. Bound(ptrs[n]) \in {Size, Size + FirstBlock}
      BY DEF Bound
    <3>2. n \in Size + 1 .. Size + FirstBlock
      BY <1>0, <2>2, <3>1
    <3>3. behind[n] \in 0 .. Size
      BY <3>2 DEF Words
    <3>4. new = [k \in Ids |-> IF FoundAt(arr, ptrs[n].num, k) THEN behind[n] ELSE arr[k]]
      BY <1>0, <2>2 DEF SearchAndSwap
    <3> QED BY <1>1, <3>3, <3>4
  <2> QED BY <2>1, <2>2
<1> HIDE DEF new
<1>3. Behind(ptrs, n, new)
  BY <1>0, <1>2 DEF Behind
<1> QED BY <1>3 DEF new

\* What boot takes off the front of the array is as many blocks as there are
\* pointers; the rest are blocks, each once, and busy only if passed over.
LEMMA ScanResult ==
  ASSUME NEW ptrs \in PointerLists, NEW behind \in Words
  PROVE  Len(ptrs) \in 1 .. MaxPointers /\ Behind(ptrs, Len(ptrs), Scanned(ptrs, behind))
<1>0. PICK n \in 1 .. MaxPointers : ptrs \in [1 .. n -> Pointers]
  BY DEF PointerLists
<1>1. Size \in Nat /\ n \in Nat /\ n > 0 /\ n <= MaxPointers
  BY SizeAssumption, MaxPointersAssumption
<1>2. Len(ptrs) = n
  BY <1>0, <1>1
<1> DEFINE f == CHOOSE g : IsScan(ptrs, behind, n, g)
<1>3. IsScan(ptrs, behind, n, f)
  BY <1>1, ScanExists
<1>4. Scanned(ptrs, behind) = f[n]
  BY <1>2 DEF Scanned, IsScan
<1> HIDE DEF f
<1> DEFINE Bad == { m \in Nat : m <= n /\ ~Behind(ptrs, m, f[m]) }
<1>5. Bad = {}
  <2> SUFFICES ASSUME Bad # {} PROVE FALSE
    OBVIOUS
  <2>1. PICK m \in Bad : \A j \in Nat : j < m => j \notin Bad
    BY LeastCounterexample
  <2>2. m \in Nat /\ m <= n /\ m \in 0 .. n
    BY <1>1
  <2>3. m # 0
    <3>1. 0 \in 0 .. n
      BY <1>1
    <3>2. f[0] = [k \in Ids |-> k]
      BY <1>3, <3>1 DEF IsScan
    <3>3. Behind(ptrs, 0, [k \in Ids |-> k])
      BY <1>1 DEF Behind, Ids
    <3> QED BY <2>1, <3>2, <3>3
  <2>4. m - 1 \in Nat /\ m - 1 < m /\ m - 1 <= n /\ m \in 1 .. n
    BY <1>1, <2>2, <2>3
  <2>5. Behind(ptrs, m - 1, f[m - 1])
    BY <2>1, <2>4
  <2>6. f[m] = SearchAndSwap(f[m - 1], behind, ptrs[m], m)
    BY <1>3, <2>2, <2>3 DEF IsScan
  <2>7. ptrs[m] \in Pointers
    BY <1>0, <2>4
  <2>8. Behind(ptrs, m, f[m])
    <3>1. CASE m \in Ids
      BY <2>5, <2>6, <2>7, <3>1, SwapKeepsBehind
    <3>2. CASE m \notin Ids
      <4>1. m > Size
        BY <1>1, <2>4, <3>2 DEF Ids
      <4> QED BY <2>2, <2>5, <2>6, <2>7, <4>1, SwapBehind
    <3> QED BY <3>1, <3>2
  <2> QED BY <2>1, <2>8
<1>6. n \in Nat /\ n <= n /\ n \notin Bad
  BY <1>1, <1>5
<1> HIDE DEF Bad
<1>7. Behind(ptrs, n, f[n])
  BY <1>6 DEF Bad
<1> QED BY <1>2, <1>4, <1>7

-----------------------------------------------------------------------------
(* The ring as GetFreeBlockList builds it, until the first push.           *)

LEMMA FreshFields ==
  ASSUME NEW buf, RingInv(buf), buf.in = Size
  PROVE  /\ ~buf.empty /\ Count(buf) = Size - buf.out
         /\ \A k \in 1 .. Size - buf.out : Contents(buf)[k] = buf.b[buf.out + k - 1]
<1>0. /\ buf.size = Size /\ Size \in Nat /\ Size > 0
      /\ buf.out \in 0 .. Size - 1
  BY RingFields DEF RingInv
<1>1. ~buf.empty
  BY <1>0 DEF RingInv
<1>2. Count(buf) = Size - buf.out
  BY <1>0, <1>1 DEF Count
<1>3. ASSUME NEW k \in 1 .. Size - buf.out
      PROVE  Slot(buf, k) = buf.out + k - 1
  BY <1>0 DEF Slot
<1>4. \A k \in 1 .. Count(buf) : Contents(buf)[k] = buf.b[Slot(buf, k)]
  BY CountSlot
<1> QED BY <1>1, <1>2, <1>3, <1>4

\* The array is what the list offers when the next slot to pop is the first.
LEMMA FreshArray ==
  ASSUME NEW buf, RingInv(buf), buf.in = Size, buf.out = 0,
         NEW arr \in [1 .. Size -> 0 .. Size], \A k \in Ids : buf.b[k - 1] = arr[k]
  PROVE  Contents(buf) = arr
<1>0. Size \in Nat /\ Size > 0
  BY SizeAssumption
<1>1. /\ Contents(buf) \in Seq(0 .. Size) /\ Len(Contents(buf)) = Size
      /\ \A k \in 1 .. Size : Contents(buf)[k] = buf.b[k - 1]
  <2>1. Count(buf) = Size
    BY <1>0, FreshFields
  <2>2. Contents(buf) \in Seq(0 .. Size) /\ Len(Contents(buf)) = Size
    BY <2>1, CountSlot
  <2>3. ASSUME NEW k \in 1 .. Size PROVE Contents(buf)[k] = buf.b[k - 1]
    <3>1. k \in 1 .. Size - buf.out /\ buf.out + k - 1 = k - 1
      BY <1>0
    <3>2. Contents(buf)[k] = buf.b[buf.out + k - 1]
      BY <3>1, FreshFields
    <3> QED BY <3>1, <3>2
  <2> QED BY <2>2, <2>3
<1>2. arr \in Seq(0 .. Size) /\ Len(arr) = Size
  BY <1>0, SeqDef, LenProperties
<1>3. \A k \in 1 .. Size : Contents(buf)[k] = arr[k]
  BY <1>1 DEF Ids
<1> QED BY <1>1, <1>2, <1>3, SeqEqual

\* The first push writes behind the array and changes nothing of what is offered.
LEMMA FreshPush ==
  ASSUME NEW buf, RingInv(buf), buf.in = Size, ~buf.full, NEW i \in 0 .. Size
  PROVE  LET new == PushToBuffer(buf, i)
         IN RingInv(new) /\ new.in = 0 /\ Contents(new) = Contents(buf)
<1> DEFINE new == PushToBuffer(buf, i)
<1>0. /\ buf.size = Size /\ Size \in Nat /\ Size > 0
      /\ buf.in \in 0 .. Size /\ buf.out \in 0 .. Size - 1
      /\ buf.empty \in BOOLEAN
  BY RingFields DEF RingInv
<1>a. buf \in Ring /\ buf.b \in [0 .. Size -> 0 .. Size]
  BY RingFields DEF RingInv
<1>1. /\ new.in = 0 /\ new.out = buf.out /\ new.size = Size /\ new.empty = FALSE
      /\ new.full = (0 = buf.out)
  BY <1>0, <1>a DEF PushToBuffer, Advance, Ring
<1>b. new.b = [buf.b EXCEPT ![Size] = i]
  BY <1>a DEF PushToBuffer, Ring
<1>2. new \in Ring
  BY <1>a, PushType
<1> HIDE DEF new
<1>3. RingInv(new)
  BY <1>0, <1>1, <1>2 DEF RingInv
<1>4. Count(new) = Size - buf.out
  BY <1>0, <1>1 DEF Count
<1>5. ASSUME NEW k \in 1 .. Size - buf.out
      PROVE  Contents(new)[k] = Contents(buf)[k]
  <2>1. Slot(new, k) = buf.out + k - 1
    BY <1>0, <1>1 DEF Slot
  <2>2. Contents(new)[k] = new.b[buf.out + k - 1]
    BY <1>3, <1>4, <2>1, CountSlot
  <2>3. buf.out + k - 1 \in 0 .. Size /\ buf.out + k - 1 # Size
    BY <1>0
  <2>4. new.b[buf.out + k - 1] = buf.b[buf.out + k - 1]
    BY <1>a, <1>b, <2>3
  <2> QED BY <2>2, <2>4, FreshFields
<1>6. /\ Contents(new) \in Seq(0 .. Size) /\ Len(Contents(new)) = Size - buf.out
      /\ Contents(buf) \in Seq(0 .. Size) /\ Len(Contents(buf)) = Size - buf.out
  BY <1>3, <1>4, CountSlot, FreshFields
<1>7. Contents(new) = Contents(buf)
  BY <1>5, <1>6, SeqEqual
<1> QED BY <1>1, <1>3, <1>7 DEF new

\* A pop goes on to the next slot, and from the last one back to the first.
LEMMA FreshPop ==
  ASSUME NEW buf, RingInv(buf), buf.in = Size
  PROVE  LET new == PopFromBuffer(buf)
         IN /\ RingInv(new) /\ new.in = Size /\ new.b = buf.b /\ ~new.full
            /\ new.out = (IF buf.out + 1 = Size THEN 0 ELSE buf.out + 1)
            /\ Front(buf) = buf.b[buf.out]
<1> DEFINE new == PopFromBuffer(buf)
<1>0. /\ buf.size = Size /\ Size \in Nat /\ Size > 0
      /\ buf.in \in 0 .. Size /\ buf.out \in 0 .. Size - 1
      /\ buf.empty = FALSE
  BY RingFields, FreshFields DEF RingInv
<1>a. buf \in Ring
  BY DEF RingInv
<1>1. /\ new.out = (IF buf.out + 1 >= Size THEN 0 ELSE buf.out + 1)
      /\ new.in = buf.in /\ new.size = Size /\ new.full = FALSE
      /\ new.empty = (new.out = buf.in)
      /\ new.b = buf.b
  BY <1>0, <1>a DEF PopFromBuffer, Advance, Ring
<1>2. new \in Ring
  BY <1>a, PopType
<1>3. Front(buf) = buf.b[buf.out]
  BY <1>0 DEF Front
<1> HIDE DEF new
<1>4. RingInv(new)
  BY <1>0, <1>1, <1>2 DEF RingInv
<1> QED BY <1>0, <1>1, <1>3, <1>4 DEF new

-----------------------------------------------------------------------------
(* The list of free blocks.  Until the first push it is the boot-time      *)
(* array, of which the slots in Offered are yet to be popped; afterwards   *)
(* it is a ring like the list of inodes, but for the one block that the    *)
(* first push lost.                                                        *)

\* The scan passed over no block in use, and the array was not used up.
Whole == ~wrapped /\ missed = {}

Offered == { k \in Ids : k > list.out + todo }

BlockTypes ==
  /\ RingInv(list) /\ boot \in [1 .. Size -> 0 .. Size]
  /\ todo \in 0 .. MaxPointers /\ got \in 0 .. Size
  /\ used \in SUBSET Ids /\ orphans \in SUBSET Ids /\ missed \in SUBSET Ids
  /\ wrapped \in BOOLEAN
  /\ Whole => used \cap orphans = {}

\* While the list is fresh its slots are as boot left them, and it is full only
\* before the first block is discarded.
BootArray ==
  /\ ~fresh => Booted
  /\ fresh => /\ \A k \in Ids : list.b[k - 1] = boot[k]
              /\ list.full => ~Booted

\* Until the array is used up: the blocks to be offered are as the scan left them.
BusyBehind ==
  fresh /\ ~wrapped =>
    \A k \in Offered : /\ boot[k] \in Ids /\ (boot[k] \in used => boot[k] \in missed)
                       /\ \A j \in Offered : boot[j] = boot[k] => j = k

\* The fresh list offers each free block once ...
OfferedFree ==
  fresh /\ Whole =>
    /\ \A k \in Offered : /\ boot[k] \in Ids \ (used \cup orphans)
                          /\ \A j \in Offered : boot[j] = boot[k] => j = k
    /\ \A i \in Ids \ (used \cup orphans) : \E k \in Offered : boot[k] = i

\* ... and after the first push all but one.
OneLost ==
  ~fresh /\ Whole =>
    /\ Contents(list) \in Seq(Ids) /\ Distinct(Contents(list))
    /\ \E x \in Ids \ (used \cup orphans) :
         \A i \in Ids : Occurs(Contents(list), i) <=> i \notin used \cup orphans \cup {x}

BlockListInv == BlockTypes /\ BootArray /\ BusyBehind /\ OfferedFree /\ OneLost

LEMMA BlockListInit == InitBlocks => BlockListInv
<1> SUFFICES ASSUME InitBlocks PROVE BlockListInv
  OBVIOUS
<1>0. Size \in Nat /\ Size > 0
  BY SizeAssumption
<1>1. PICK ptrs \in PointerLists, behind \in Words :
        /\ boot = Scanned(ptrs, behind) /\ todo = Len(ptrs)
        /\ used = Busy(ptrs) /\ orphans = Lost(ptrs, boot)
        /\ missed = { ptrs[k].num : k \in { j \in DOMAIN ptrs : Passed(ptrs[j]) } }
        /\ list = [size |-> Size, b |-> [k \in 0 .. Size |-> IF k < Size THEN boot[k + 1] ELSE 0],
                   in |-> Size, out |-> 0, empty |-> FALSE, full |-> TRUE]
  BY DEF InitBlocks, GetFreeBlockList
<1>2. todo \in 1 .. MaxPointers /\ Behind(ptrs, todo, boot)
  BY <1>1, ScanResult
<1>3. PICK n \in 1 .. MaxPointers : ptrs \in [1 .. n -> Pointers]
  BY DEF PointerLists
<1>4. n = todo /\ todo \in 1 .. MaxPointers /\ todo # 0 /\ todo \in Nat /\ todo > 0
  BY <1>0, <1>1, <1>2, <1>3, MaxPointersAssumption
<1>5. /\ boot \in [1 .. Size -> 0 .. Size]
      /\ \A k \in Ids : k > todo => boot[k] \in Ids
      /\ \A j, k \in Ids : j > todo /\ k > todo /\ boot[j] = boot[k] => j = k
      /\ \A j \in 1 .. todo : ~Passed(ptrs[j]) =>
           \A k \in Ids : k > todo => boot[k] # ptrs[j].num
  <2>1. \A k \in Ids : k > todo => todo <= Size
    BY <1>0, <1>4 DEF Ids
  <2>2. 0 \notin Ids /\ Ids = 1 .. Size
    BY <1>0 DEF Ids
  <2> HIDE DEF Ids
  <2> QED BY <1>2, <2>1, <2>2 DEF Behind
<1>6. /\ used \in SUBSET Ids /\ orphans \in SUBSET Ids /\ used \cap orphans = {}
      /\ missed \in SUBSET Ids
  <2>1. \A k \in 1 .. todo : ptrs[k].num \in Ids \cup {0}
    BY <1>3, <1>4 DEF Pointers
  <2>2. used \in SUBSET Ids
    BY <1>1, <1>3, <1>4, <2>1 DEF Busy
  <2>3. \A k \in 1 .. todo : Passed(ptrs[k]) => ptrs[k].num # 0
    BY <1>0 DEF Passed, Number
  <2>4. missed \in SUBSET Ids
    BY <1>1, <1>3, <1>4, <2>1, <2>3
  <2> QED BY <1>1, <2>2, <2>4 DEF Lost
<1>7. /\ list.in = Size /\ list.out = 0 /\ list.empty = FALSE /\ list.full = TRUE /\ list.size = Size
      /\ list.b = [k \in 0 .. Size |-> IF k < Size THEN boot[k + 1] ELSE 0]
  BY <1>1
<1>8. list \in Ring
  <2>1. list.b \in [0 .. Size -> 0 .. Size]
    BY <1>0, <1>5, <1>7
  <2>2. PICK b : b = [k \in 0 .. Size |-> IF k < Size THEN boot[k + 1] ELSE 0]
    OBVIOUS
  <2>3. list = [size |-> Size, b |-> b, in |-> Size, out |-> 0, empty |-> FALSE, full |-> TRUE]
    BY <1>1, <2>2
  <2>4. b \in [0 .. Size -> 0 .. Size]
    BY <1>7, <2>1, <2>2
  <2> QED BY <1>0, <2>3, <2>4 DEF Ring
<1>9. RingInv(list)
  BY <1>7, <1>8 DEF RingInv
<1>10. BlockTypes
  <2>1. wrapped = FALSE /\ todo \in 0 .. MaxPointers /\ got \in 0 .. Size
    BY <1>0, <1>4, MaxPointersAssumption DEF InitBlocks
  <2> QED BY <1>5, <1>6, <1>9, <2>1 DEF BlockTypes
<1>11. fresh /\ ~Booted /\ \A k \in Ids : k \in Offered <=> k > todo
  BY <1>0, <1>4, <1>7 DEF fresh, Booted, Offered
<1>12. BootArray
  <2>1. \A k \in Ids : list.b[k - 1] = boot[k]
    <3> SUFFICES ASSUME NEW k \in Ids PROVE list.b[k - 1] = boot[k]
      OBVIOUS
    <3>1. k - 1 \in 0 .. Size /\ k - 1 < Size /\ (k - 1) + 1 = k
      BY <1>0 DEF Ids
    <3> QED BY <1>7, <3>1
  <2> QED BY <1>0, <1>4, <1>7, <1>11, <2>1 DEF BootArray
<1>13. Offered \subseteq Ids
  BY DEF Offered
<1>14. ASSUME NEW k \in Offered, boot[k] \in used
       PROVE  boot[k] \in missed
  <2>1. PICK j \in 1 .. todo : ptrs[j].num = boot[k]
    BY <1>1, <1>3, <1>4, <1>14 DEF Busy
  <2>2. Passed(ptrs[j])
    BY <1>5, <1>11, <1>13, <2>1
  <2> QED BY <1>1, <1>3, <1>4, <2>1, <2>2
<1>15. BusyBehind
  BY <1>5, <1>11, <1>13, <1>14 DEF BusyBehind
<1>16. OfferedFree
  <2> SUFFICES ASSUME missed = {} PROVE OfferedFree
    BY DEF OfferedFree, Whole
  <2>2. \A i \in Ids \ (used \cup orphans) : \E k \in Offered : boot[k] = i
    <3> SUFFICES ASSUME NEW i \in Ids, i \notin used, i \notin orphans
                 PROVE  \E k \in Offered : boot[k] = i
      OBVIOUS
    <3>1. i \in { boot[k] : k \in todo + 1 .. Size }
      BY <1>1 DEF Lost
    <3>2. PICK k \in todo + 1 .. Size : boot[k] = i
      BY <3>1
    <3>3. k \in Ids /\ k > todo
      BY <1>0, <1>4 DEF Ids
    <3> QED BY <1>11, <3>2, <3>3
  <2>3. ASSUME NEW k \in Offered PROVE boot[k] \in Ids \ (used \cup orphans)
    <3>1. boot[k] \in Ids /\ boot[k] \notin used
      BY <1>5, <1>11, <1>13, <1>14
    <3>2. k \in todo + 1 .. Size
      BY <1>0, <1>4, <1>11, <1>13 DEF Ids
    <3>3. boot[k] \notin orphans
      BY <1>1, <3>2 DEF Lost
    <3> QED BY <3>1, <3>3
  <2> QED BY <1>5, <1>11, <1>13, <2>2, <2>3 DEF OfferedFree
<1>17. OneLost
  BY <1>11 DEF OneLost
<1> QED BY <1>10, <1>12, <1>15, <1>16, <1>17 DEF BlockListInv

\* A pop of the fresh list, to discard a block or to hand one out.
LEMMA BlockPop ==
  ASSUME BlockListInv, fresh, list' = PopFromBuffer(list), got' = Front(list), boot' = boot
  PROVE  /\ RingInv(list)' /\ fresh' /\ got' \in 0 .. Size /\ got' = boot[list.out + 1]
         /\ ~list'.full /\ \A k \in Ids : list'.b[k - 1] = boot[k]
         /\ list'.out = 0 \/ list'.out = list.out + 1
         /\ list.out \in Nat /\ list'.out \in 0 .. Size - 1 /\ list.out + 1 \in Ids
<1>0. /\ RingInv(list) /\ list.in = Size /\ list.size = Size
      /\ \A k \in Ids : list.b[k - 1] = boot[k]
      /\ list.out \in 0 .. Size - 1 /\ Size \in Nat
      /\ boot \in [1 .. Size -> 0 .. Size]
  BY RingFields DEF BlockListInv, BlockTypes, BootArray, fresh, RingInv
<1>1. /\ RingInv(list') /\ list'.in = Size /\ list'.b = list.b /\ ~list'.full
      /\ list'.out = (IF list.out + 1 = Size THEN 0 ELSE list.out + 1)
      /\ got' = list.b[list.out]
  BY <1>0, FreshPop
<1>2. list'.size = Size /\ list'.out \in 0 .. Size - 1
  BY <1>1, RingFields DEF RingInv
<1>3. list.out + 1 \in Ids /\ (list.out + 1) - 1 = list.out /\ list.out + 1 \in 1 .. Size
  BY <1>0 DEF Ids
<1>4. got' = boot[list.out + 1]
  BY <1>0, <1>1, <1>3
<1>5. got' \in 0 .. Size
  BY <1>0, <1>3, <1>4
<1> QED BY <1>0, <1>1, <1>2, <1>3, <1>4, <1>5 DEF fresh

LEMMA DiscardKeeps == BlockListInv /\ DiscardBusy => BlockListInv'
<1> SUFFICES ASSUME BlockListInv, DiscardBusy PROVE BlockListInv'
  OBVIOUS
<1>0. /\ fresh /\ todo # 0 /\ list' = PopFromBuffer(list) /\ got' = Front(list)
      /\ wrapped' = (wrapped \/ list'.out = 0) /\ todo' = todo - 1
      /\ boot' = boot /\ used' = used /\ orphans' = orphans /\ missed' = missed
  BY DEF DiscardBusy, Booted
<1>1. /\ RingInv(list)' /\ fresh' /\ got' \in 0 .. Size
      /\ ~list'.full /\ \A k \in Ids : list'.b[k - 1] = boot[k]
      /\ list'.out = 0 \/ list'.out = list.out + 1
      /\ list.out \in Nat /\ list'.out \in 0 .. Size - 1
  BY <1>0, BlockPop
<1>2. Size \in Nat /\ todo \in 1 .. MaxPointers /\ todo' \in 0 .. MaxPointers
  BY <1>0, SizeAssumption, MaxPointersAssumption DEF BlockListInv, BlockTypes
<1>3. BlockTypes'
  BY <1>0, <1>1, <1>2 DEF BlockListInv, BlockTypes, Whole
<1>4. BootArray'
  BY <1>0, <1>1, <1>2 DEF BootArray
<1>5. list'.out # 0 => Offered' = Offered
  <2> SUFFICES ASSUME list'.out # 0 PROVE Offered' = Offered
    OBVIOUS
  <2>1. list'.out + todo' = list.out + todo
    BY <1>0, <1>1, <1>2
  <2> QED BY <2>1 DEF Offered
<1>6. ~wrapped' => ~wrapped /\ list'.out # 0
  BY <1>0
<1>7. BusyBehind' /\ OfferedFree'
  BY <1>0, <1>5, <1>6 DEF BlockListInv, BusyBehind, OfferedFree, Whole
<1>8. OneLost'
  BY <1>1 DEF OneLost
<1> QED BY <1>3, <1>4, <1>7, <1>8 DEF BlockListInv

LEMMA BlockAllocKeeps == BlockListInv /\ Alloc => BlockListInv'
<1> SUFFICES ASSUME BlockListInv, Alloc PROVE BlockListInv'
  OBVIOUS
<1>0. /\ Booted /\ ~list.empty /\ list' = PopFromBuffer(list) /\ got' = Front(list)
      /\ wrapped' = (wrapped \/ (fresh /\ list'.out = 0)) /\ todo' = todo
      /\ boot' = boot /\ used' = used \cup ({got'} \ {0}) /\ orphans' = orphans
      /\ missed' = missed
  BY DEF Alloc
<1>1. /\ Size \in Nat /\ todo = 0 /\ Booted'
      /\ RingInv(list) /\ list.size = Size /\ list.in \in 0 .. Size
  BY <1>0, SizeAssumption, RingFields DEF BlockListInv, BlockTypes, Booted, RingInv
<1>2. ASSUME got' \in 0 .. Size, Whole' => got' \notin orphans, RingInv(list')
      PROVE  BlockTypes'
  <2>1. used' \in SUBSET Ids /\ wrapped' \in BOOLEAN /\ (Whole' => Whole)
    <3>1. {got'} \ {0} \subseteq Ids
      BY <1>1, <1>2 DEF Ids
    <3> QED BY <1>0, <3>1 DEF BlockListInv, BlockTypes, Whole
  <2>2. Whole' => used' \cap orphans' = {}
    BY <1>0, <1>2, <2>1 DEF BlockListInv, BlockTypes
  <2> QED BY <1>0, <1>2, <2>1, <2>2 DEF BlockListInv, BlockTypes
<1>4. CASE fresh
  <2>1. /\ RingInv(list)' /\ fresh' /\ got' \in 0 .. Size /\ got' = boot[list.out + 1]
        /\ ~list'.full /\ \A k \in Ids : list'.b[k - 1] = boot[k]
        /\ list'.out = 0 \/ list'.out = list.out + 1
        /\ list.out \in Nat /\ list'.out \in 0 .. Size - 1 /\ list.out + 1 \in Ids
    BY <1>0, <1>4, BlockPop
  <2>2. BootArray'
    BY <1>0, <1>1, <2>1 DEF BootArray
  <2>3. OneLost'
    BY <2>1 DEF OneLost
  <2> DEFINE next == list.out + 1
  <2>4. next \in Offered /\ next \in Nat /\ got' = boot[next]
    BY <1>1, <2>1 DEF Offered
  <2>5. ASSUME ~wrapped'
        PROVE  ~wrapped /\ \A k : k \in Offered' <=> k \in Offered /\ k # next
    <3>1. ~wrapped /\ list'.out = list.out + 1
      BY <1>0, <1>4, <2>1, <2>5
    <3> SUFFICES ASSUME NEW k \in Ids PROVE k \in Offered' <=> k \in Offered /\ k # next
      BY <3>1 DEF Offered
    <3>2. k \in Nat
      BY <1>1 DEF Ids
    <3> QED BY <1>0, <1>1, <2>1, <3>1, <3>2 DEF Offered
  <2> HIDE DEF next
  <2>6. BusyBehind'
    <3> SUFFICES ASSUME ~wrapped' PROVE BusyBehind'
      BY DEF BusyBehind
    <3>1. \A k \in Offered : /\ boot[k] \in Ids /\ (boot[k] \in used => boot[k] \in missed)
                             /\ \A j \in Offered : boot[j] = boot[k] => j = k
      BY <1>4, <2>5 DEF BlockListInv, BusyBehind
    <3>2. \A k \in Offered' : boot[k] # got'
      BY <2>4, <2>5, <3>1
    <3> QED BY <1>0, <2>5, <3>1, <3>2 DEF BusyBehind
  <2>7. ASSUME Whole'
        PROVE  got' \notin orphans /\ OfferedFree'
    <3>1. ~wrapped' /\ Whole
      BY <1>0, <2>7 DEF Whole
    <3>2. next \in Offered /\ \A k : k \in Offered' <=> k \in Offered /\ k # next
      BY <2>4, <2>5, <3>1
    <3>4. /\ \A k \in Offered : /\ boot[k] \in Ids \ (used \cup orphans)
                                /\ \A j \in Offered : boot[j] = boot[k] => j = k
          /\ \A i \in Ids \ (used \cup orphans) : \E k \in Offered : boot[k] = i
      BY <1>4, <3>1 DEF BlockListInv, OfferedFree
    <3>5. got' = boot[next] /\ got' \in Ids \ (used \cup orphans)
      BY <2>4, <3>2, <3>4
    <3>6. used' = used \cup {got'}
      BY <1>0, <1>1, <3>5 DEF Ids
    <3>7. ASSUME NEW k \in Offered' PROVE boot[k] \in Ids \ (used' \cup orphans)
      BY <3>2, <3>4, <3>5, <3>6
    <3>8. ASSUME NEW i \in Ids \ (used' \cup orphans) PROVE \E k \in Offered' : boot[k] = i
      BY <3>2, <3>4, <3>5, <3>6
    <3>9. OfferedFree'
      BY <1>0, <3>2, <3>4, <3>7, <3>8 DEF OfferedFree
    <3> QED BY <3>5, <3>9
  <2>8. OfferedFree'
    BY <2>7 DEF OfferedFree
  <2> QED BY <1>2, <2>1, <2>2, <2>3, <2>6, <2>7, <2>8 DEF BlockListInv
<1>5. CASE ~fresh
  <2>1. /\ RingInv(list') /\ list'.in = list.in
        /\ got' = Head(Contents(list)) /\ Contents(list') = Tail(Contents(list))
        /\ Contents(list) # <<>>
    BY <1>0, <1>1, <1>5, PopContents DEF fresh
  <2>2. ~fresh' /\ list.in # Size
    BY <1>1, <1>5, <2>1, RingFields DEF fresh, RingInv
  <2>3. got' \in 0 .. Size
    BY <1>0, <1>1, PopType DEF RingInv
  <2>4. ASSUME Whole'
        PROVE  got' \notin orphans /\ OneLost'
    <3>1. Whole
      BY <1>0, <2>4 DEF Whole
    <3>2. PICK x \in Ids \ (used \cup orphans) :
            /\ Contents(list) \in Seq(Ids) /\ Distinct(Contents(list))
            /\ \A i \in Ids : Occurs(Contents(list), i) <=> i \notin used \cup orphans \cup {x}
      BY <1>5, <3>1 DEF BlockListInv, OneLost
    <3>3. /\ got' \in Ids /\ Occurs(Contents(list), got')
          /\ Contents(list') \in Seq(Ids) /\ Distinct(Contents(list'))
          /\ \A j \in Ids : Occurs(Contents(list'), j) <=> Occurs(Contents(list), j) /\ j # got'
      BY <2>1, <3>2, TailDistinct
    <3>4. used' = used \cup {got'} /\ got' \notin orphans /\ got' # x
      BY <1>0, <1>1, <3>2, <3>3 DEF Ids
    <3>5. x \in Ids \ (used' \cup orphans')
      BY <1>0, <3>2, <3>4
    <3>6. \A i \in Ids : Occurs(Contents(list'), i) <=> i \notin used' \cup orphans' \cup {x}
      BY <1>0, <3>2, <3>3, <3>4
    <3> QED BY <3>3, <3>4, <3>5, <3>6 DEF OneLost
  <2>5. OneLost'
    BY <2>4 DEF OneLost
  <2>6. BootArray' /\ BusyBehind' /\ OfferedFree'
    BY <1>1, <2>2 DEF BootArray, BusyBehind, OfferedFree
  <2> QED BY <1>2, <2>1, <2>3, <2>4, <2>5, <2>6 DEF BlockListInv
<1> QED BY <1>4, <1>5

\* Once boot is done, the fresh list holds each free block once.
LEMMA FreshOffers ==
  ASSUME BlockListInv, fresh, Booted, Whole
  PROVE  /\ Contents(list) \in Seq(Ids) /\ Distinct(Contents(list))
         /\ \A j \in Ids : Occurs(Contents(list), j) <=> j \notin used \cup orphans
<1>0. /\ RingInv(list) /\ list.in = Size /\ todo = 0 /\ list.out \in 0 .. Size - 1 /\ Size \in Nat
      /\ \A k \in Ids : list.b[k - 1] = boot[k]
  BY RingFields DEF BlockListInv, BlockTypes, BootArray, RingInv, fresh, Booted
<1>1. /\ \A k \in Offered : boot[k] \in Ids \ (used \cup orphans)
      /\ \A j, k \in Offered : boot[j] = boot[k] => j = k
      /\ \A j \in Ids \ (used \cup orphans) : \E k \in Offered : boot[k] = j
  BY DEF BlockListInv, OfferedFree
<1>2. /\ Contents(list) \in Seq(0 .. Size) /\ Len(Contents(list)) = Size - list.out
      /\ \A k \in 1 .. Size - list.out : Contents(list)[k] = list.b[list.out + k - 1]
  BY <1>0, CountSlot, FreshFields
<1>3. ASSUME NEW k \in 1 .. Size - list.out
      PROVE  list.out + k \in Offered /\ Contents(list)[k] = boot[list.out + k]
  <2>1. PICK m \in Ids : m = list.out + k /\ m - 1 = list.out + k - 1 /\ m > list.out + todo
    BY <1>0 DEF Ids
  <2>2. Contents(list)[k] = boot[m]
    BY <1>0, <1>2, <2>1
  <2>3. m \in Offered
    BY <2>1 DEF Offered
  <2> QED BY <2>1, <2>2, <2>3
<1>4. ASSUME NEW m \in Offered
      PROVE  \E k \in 1 .. Size - list.out : m = list.out + k
  <2>1. m - list.out \in 1 .. Size - list.out /\ m = list.out + (m - list.out)
    BY <1>0 DEF Offered, Ids
  <2> QED BY <2>1
<1>5. Contents(list) \in Seq(Ids)
  <2>1. \A k \in 1 .. Len(Contents(list)) : Contents(list)[k] \in Ids
    BY <1>1, <1>2, <1>3
  <2>2. Contents(list) \in [1 .. Len(Contents(list)) -> Ids] /\ Len(Contents(list)) \in Nat
    BY <1>2, <2>1, LenProperties, Zenon
  <2> QED BY <2>2, SeqDef, Zenon
<1>6. Distinct(Contents(list))
  <2> SUFFICES ASSUME NEW j \in 1 .. Size - list.out, NEW k \in 1 .. Size - list.out,
                      Contents(list)[j] = Contents(list)[k]
               PROVE  j = k
    BY <1>2 DEF Distinct
  <2>1. list.out + j = list.out + k
    BY <1>1, <1>3
  <2> QED BY <1>0, <2>1
<1>7. ASSUME NEW j \in Ids PROVE Occurs(Contents(list), j) <=> j \notin used \cup orphans
  <2>1. ASSUME Occurs(Contents(list), j) PROVE j \notin used \cup orphans
    <3>1. PICK k \in 1 .. Size - list.out : Contents(list)[k] = j
      BY <1>2, <2>1 DEF Occurs
    <3> QED BY <1>1, <1>3, <3>1
  <2>2. ASSUME j \notin used \cup orphans PROVE Occurs(Contents(list), j)
    <3>1. PICK k \in Offered : boot[k] = j
      BY <1>1, <2>2
    <3>2. PICK l \in 1 .. Size - list.out : list.out + l = k
      BY <1>4
    <3>3. Contents(list)[l] = j /\ l \in 1 .. Len(Contents(list))
      BY <1>2, <1>3, <3>1, <3>2
    <3> QED BY <3>3 DEF Occurs
  <2> QED BY <2>1, <2>2
<1> QED BY <1>5, <1>6, <1>7

LEMMA BlockReleaseKeeps == \A i \in Ids : BlockListInv /\ Release(i) => BlockListInv'
<1> SUFFICES ASSUME NEW i \in Ids, BlockListInv, Release(i) PROVE BlockListInv'
  OBVIOUS
<1>0. /\ Booted /\ i \in used /\ list' = PushToBuffer(list, i) /\ used' = used \ {i}
      /\ UNCHANGED <<boot, todo, orphans, missed, wrapped, got>>
  BY DEF Release
<1>1. /\ Size \in Nat /\ todo = 0 /\ Booted' /\ i \in 0 .. Size /\ (Whole => i \notin orphans)
      /\ RingInv(list) /\ list.size = Size /\ list.in \in 0 .. Size
  BY <1>0, SizeAssumption, RingFields DEF BlockListInv, BlockTypes, Booted, RingInv, Ids
<1>2. ASSUME RingInv(list') PROVE BlockTypes'
  BY <1>0, <1>2 DEF BlockListInv, BlockTypes, Whole
<1>3. ASSUME Whole' PROVE Whole
  BY <1>0, <1>3 DEF Whole
<1>4. ASSUME list'.in # Size, RingInv(list')
      PROVE  ~fresh' /\ BootArray' /\ BusyBehind' /\ OfferedFree'
  <2>1. ~fresh'
    BY <1>4, RingFields DEF fresh, RingInv
  <2> QED BY <1>1, <2>1 DEF BootArray, BusyBehind, OfferedFree
<1>5. CASE fresh
  <2>1. list.in = Size /\ ~list.full
    BY <1>0, <1>1, <1>5 DEF fresh, BlockListInv, BootArray
  <2>2. RingInv(list') /\ list'.in = 0 /\ Contents(list') = Contents(list)
    BY <1>0, <1>1, <2>1, FreshPush
  <2>3. list'.in # Size
    BY SizeAssumption, <2>2
  <2>4. OneLost'
    <3> SUFFICES ASSUME Whole PROVE OneLost'
      BY <1>3 DEF OneLost
    <3>1. /\ Contents(list) \in Seq(Ids) /\ Distinct(Contents(list))
          /\ \A j \in Ids : Occurs(Contents(list), j) <=> j \notin used \cup orphans
      BY <1>0, <1>5, FreshOffers
    <3>2. i \in Ids \ (used' \cup orphans') /\ used' \cup orphans' \cup {i} = used \cup orphans
      BY <1>0, <1>1
    <3> QED BY <2>2, <3>1, <3>2 DEF OneLost
  <2> QED BY <1>2, <1>4, <2>2, <2>3, <2>4 DEF BlockListInv
<1>6. CASE ~fresh
  <2>1. list.in # Size
    BY <1>1, <1>6 DEF fresh
  <2>2. RingInv(list') /\ list'.in # Size
    <3>1. CASE list.full
      BY <1>0, <1>1, <2>1, <3>1 DEF PushToBuffer
    <3>2. CASE ~list.full
      BY <1>0, <1>1, <2>1, <3>2, PushContents
    <3> QED BY <3>1, <3>2
  <2>3. OneLost'
    <3> SUFFICES ASSUME Whole PROVE OneLost'
      BY <1>3 DEF OneLost
    <3>1. PICK x \in Ids \ (used \cup orphans) :
            /\ Contents(list) \in Seq(Ids) /\ Distinct(Contents(list))
            /\ \A j \in Ids : Occurs(Contents(list), j) <=> j \notin used \cup orphans \cup {x}
      BY <1>6 DEF BlockListInv, OneLost
    <3>2. ~Occurs(Contents(list), i)
      BY <1>0, <3>1
    <3>3. /\ Contents(list') \in Seq(Ids) /\ Distinct(Contents(list'))
          /\ \A j \in Ids : Occurs(Contents(list'), j) <=> Occurs(Contents(list), j) \/ j = i
      BY <1>0, <1>1, <2>1, <3>1, <3>2, NewPush
    <3>4. x \in Ids \ (used' \cup orphans') /\ i # x
      BY <1>0, <3>1
    <3>5. \A j \in Ids : Occurs(Contents(list'), j) <=> j \notin used' \cup orphans' \cup {x}
      BY <1>0, <1>1, <3>1, <3>3, <3>4
    <3> QED BY <3>3, <3>4, <3>5 DEF OneLost
  <2> QED BY <1>2, <1>4, <2>2, <2>3 DEF BlockListInv
<1> QED BY <1>5, <1>6

LEMMA BlockRetireKeeps == \A i \in Ids : BlockListInv /\ Retire(i) => BlockListInv'
<1> SUFFICES ASSUME NEW i \in Ids, BlockListInv, Retire(i) PROVE BlockListInv'
  OBVIOUS
<1>1. /\ Booted /\ i \in used /\ used' = used \ {i} /\ orphans' = orphans \cup {i}
      /\ UNCHANGED <<list, boot, todo, missed, wrapped, got>>
  BY DEF Retire
<1>2. used' \cup orphans' = used \cup orphans
  BY <1>1
<1>3. Booted' /\ fresh' = fresh /\ Offered' = Offered /\ Whole' = Whole
  BY <1>1 DEF Booted, fresh, Offered, Whole
<1>4. BlockTypes'
  BY <1>1, <1>3 DEF BlockListInv, BlockTypes
<1>5. BootArray' /\ BusyBehind'
  BY <1>1, <1>3 DEF BlockListInv, BootArray, BusyBehind
<1>6. OfferedFree'
  BY <1>1, <1>2, <1>3 DEF BlockListInv, OfferedFree
<1>7. OneLost'
  BY <1>1, <1>2, <1>3 DEF BlockListInv, OneLost
<1> QED BY <1>4, <1>5, <1>6, <1>7 DEF BlockListInv

LEMMA BlockListStep == BlockListInv /\ [NextInodes \/ NextBlocks]_vars => BlockListInv'
<1> SUFFICES ASSUME BlockListInv, [NextInodes \/ NextBlocks]_vars PROVE BlockListInv'
  OBVIOUS
<1>1. ~ScanInode
  BY DEF ScanInode, BlockListInv, BootArray
<1>2. CASE AllocEmpty
  <2>1. list' = list /\ got' = 0
    BY <1>2 DEF AllocEmpty, PopFromBuffer, Front
  <2>2. UNCHANGED <<boot, todo, used, orphans, missed, wrapped>> /\ Size \in Nat
    BY <1>2, SizeAssumption DEF AllocEmpty
  <2> QED BY <2>1, <2>2 DEF BlockListInv, BlockTypes, BootArray, BusyBehind, OfferedFree, OneLost,
                            Booted, fresh, Offered, Whole
<1>3. CASE UNCHANGED vars
  BY <1>3 DEF vars, BlockListInv, BlockTypes, BootArray, BusyBehind, OfferedFree, OneLost,
              Booted, fresh, Offered, Whole
<1> QED BY <1>1, <1>2, <1>3, DiscardKeeps, BlockAllocKeeps, BlockReleaseKeeps, BlockRetireKeeps
        DEF NextInodes, NextBlocks, Handlers

-----------------------------------------------------------------------------
(* Both lists.                                                             *)

ListInv == InodeInv \/ BlockListInv

\* Whichever list it is, with whatever in use at boot, one of the invariants
\* above holds of it for ever (yfs.c:142-220, buffer.c:19-52).
THEOREM ListInvariant == SpecLists => []ListInv
<1>1. InitInodes \/ InitBlocks => ListInv
  BY InodeInit, BlockListInit DEF ListInv
<1>2. ListInv /\ [NextInodes \/ NextBlocks]_vars => ListInv'
  <2> SUFFICES ASSUME InodeInv, [NextInodes \/ NextBlocks]_vars PROVE InodeInv'
    BY BlockListStep DEF ListInv
  <2>1. ~fresh
    BY RingFields DEF fresh, InodeInv, RingInv
  <2>2. [NextInodes]_vars
    BY <2>1 DEF NextInodes, NextBlocks, DiscardBusy
  <2> QED BY <2>2, InodeStep
<1> QED BY <1>1, <1>2, PTL DEF SpecLists

\* The variables of both lists keep their types; in never leaves the slot
\* behind the array but to come back into it (buffer.c:31-38, yfs.c:207-214).
THEOREM ListsTypeOK == SpecLists => []TypeOK
<1>1. InodeInv => TypeOK
  BY EmptySeq DEF InodeInv, TypeOK, RingInv, Ring
<1>2. BlockListInv => TypeOK
  <2> SUFFICES ASSUME BlockListInv PROVE TypeOK
    OBVIOUS
  <2>1. boot \in Seq(0 .. Size)
    BY SizeAssumption, SeqDef DEF BlockListInv, BlockTypes
  <2>2. boot # <<>>
    <3>1. DOMAIN boot = 1 .. Size /\ 1 \in 1 .. Size
      BY SizeAssumption DEF BlockListInv, BlockTypes
    <3>2. DOMAIN <<>> = {}
      BY EmptySeq
    <3> QED BY <3>1, <3>2
  <2> QED BY <2>1, <2>2 DEF BlockListInv, BlockTypes, TypeOK, RingInv, Ring
<1> QED BY <1>1, <1>2, ListInvariant, PTL DEF ListInv

\* The flags of both rings agree with their indices (buffer.c:19-52).
THEOREM ListsFlagsAgree == SpecLists => []FlagsAgree
<1>1. ListInv => FlagsAgree
  BY DEF ListInv, InodeInv, BlockListInv, BlockTypes, FlagsAgree, RingInv
<1> QED BY <1>1, ListInvariant, PTL

\* However many pointers the boot scan meets, holes among them, and in whatever
\* order, what is still to be offered until the first push is free, each block
\* once, but for those the scan passed over, until the boot-time array is used
\* up (yfs.c:126-219).  Boot itself does that with as many pointers as blocks.
THEOREM BusyStaysInFront == SpecLists => []BusyInFront
<1>1. InodeInv => BusyInFront
  BY DEF InodeInv, BusyInFront
<1>2. BlockListInv => BusyInFront
  <2> SUFFICES ASSUME BlockListInv, fresh, ~wrapped
               PROVE  LET kept == list.out + todo + 1 .. Size
                      IN /\ \A k \in kept : boot[k] \in used => boot[k] \in missed
                         /\ \A j, k \in kept : boot[k] # 0 /\ (boot[j] = boot[k] => j = k)
    BY DEF BusyInFront
  <2>1. /\ list.out \in 0 .. Size - 1 /\ todo \in Nat /\ Size \in Nat
        /\ \A k \in Offered : /\ boot[k] \in Ids /\ (boot[k] \in used => boot[k] \in missed)
                              /\ \A j \in Offered : boot[j] = boot[k] => j = k
    BY RingFields, MaxPointersAssumption DEF BlockListInv, BlockTypes, BusyBehind, RingInv
  <2>2. \A k \in list.out + todo + 1 .. Size : k \in Offered
    BY <2>1 DEF Offered, Ids
  <2>3. \A k \in Offered : boot[k] # 0
    BY <2>1 DEF Ids
  <2> QED BY <2>1, <2>2, <2>3
<1> QED BY <1>1, <1>2, ListInvariant, PTL DEF ListInv

\* The list of free blocks loses one block, with its first push, and hands out
\* none that is in use, as long as the scan missed none and the boot-time
\* array was not used up (yfs.c:29, 207-214).
THEOREM OneBlockIsLost == SpecLists => []OneBlockLost
<1>1. InodeInv => OneBlockLost
  BY DEF InodeInv, OneBlockLost
<1>2. BlockListInv => OneBlockLost
  <2> SUFFICES ASSUME BlockListInv, Booted, Whole
               PROVE  /\ Held \cap (used \cup orphans) = {} /\ NoDuplicates
                      /\ Cardinality(Ids \ (Held \cup used \cup orphans)) = IF fresh THEN 0 ELSE 1
    BY DEF OneBlockLost, Whole
  <2>0. /\ DOMAIN Contents(list) = 1 .. Len(Contents(list))
        /\ Held = { Contents(list)[k] : k \in 1 .. Len(Contents(list)) }
    BY CountSlot, LenProperties DEF BlockListInv, BlockTypes, Held
  <2>1. ASSUME NEW lost \in SUBSET (Ids \ (used \cup orphans)),
               Contents(list) \in Seq(Ids), Distinct(Contents(list)),
               \A j \in Ids : Occurs(Contents(list), j) <=> j \notin used \cup orphans \cup lost
        PROVE  /\ Held \cap (used \cup orphans) = {} /\ NoDuplicates
               /\ Ids \ (Held \cup used \cup orphans) = lost
    <3>1. \A k \in 1 .. Len(Contents(list)) : Contents(list)[k] \in Ids
      BY <2>1, ElementOfSeq
    <3> HIDE DEF Ids
    <3>2. Held = { i \in Ids : Occurs(Contents(list), i) }
      BY <2>0, <3>1 DEF Occurs
    <3> QED BY <2>0, <2>1, <3>2 DEF NoDuplicates, Distinct
  <2>2. CASE fresh
    <3>1. /\ Contents(list) \in Seq(Ids) /\ Distinct(Contents(list))
          /\ \A j \in Ids : Occurs(Contents(list), j) <=> j \notin used \cup orphans \cup {}
      BY <2>2, FreshOffers
    <3>2. /\ Held \cap (used \cup orphans) = {} /\ NoDuplicates
          /\ Ids \ (Held \cup used \cup orphans) = {}
      BY <2>1, <3>1
    <3> QED BY <2>2, <3>2, FS_EmptySet
  <2>3. CASE ~fresh
    <3>1. PICK x \in Ids \ (used \cup orphans) :
            /\ Contents(list) \in Seq(Ids) /\ Distinct(Contents(list))
            /\ \A j \in Ids : Occurs(Contents(list), j) <=> j \notin used \cup orphans \cup {x}
      BY <2>3 DEF BlockListInv, OneLost
    <3>2. /\ Held \cap (used \cup orphans) = {} /\ NoDuplicates
          /\ Ids \ (Held \cup used \cup orphans) = {x}
      BY <2>1, <3>1
    <3>3. Cardinality({x}) = 1
      BY FS_Singleton
    <3> QED BY <2>3, <3>2, <3>3
  <2> QED BY <2>2, <2>3
<1> QED BY <1>1, <1>2, ListInvariant, PTL DEF ListInv

\* A pop of the fresh list is a pop of the queue, which starts over with the
\* whole array after the last number.
LEMMA FreshPopIsPop ==
  ASSUME BlockListInv, fresh, list' = PopFromBuffer(list), got' = Front(list), boot' = boot
  PROVE  Queue!Pop
<1>0. /\ RingInv(list) /\ list.in = Size /\ list.out \in 0 .. Size - 1 /\ Size \in Nat
      /\ boot \in [1 .. Size -> 0 .. Size] /\ \A k \in Ids : list.b[k - 1] = boot[k]
  BY RingFields DEF BlockListInv, BlockTypes, BootArray, fresh, RingInv
<1>1. /\ Contents(list) \in Seq(0 .. Size) /\ Len(Contents(list)) = Size - list.out /\ ~list.empty
  BY <1>0, CountSlot, FreshFields
<1>2. Contents(list) # <<>> /\ Len(Tail(Contents(list))) = Size - list.out - 1
      /\ Tail(Contents(list)) \in Seq(0 .. Size)
  BY <1>0, <1>1
<1>3. fresh'
  BY BlockPop
<1>4. CASE list.out + 1 = Size
  <2>1. Tail(Contents(list)) = <<>>
    BY <1>0, <1>2, <1>4
  <2>2. RingInv(list') /\ list'.in = Size /\ list'.out = 0 /\ list'.b = list.b
    BY <1>0, <1>4, FreshPop
  <2>3. \A k \in Ids : list'.b[k - 1] = boot[k]
    BY <1>0, <2>2
  <2>4. Contents(list') = boot
    BY <1>0, <2>2, <2>3, FreshArray
  <2>5. got' = Head(Contents(list))
    <3>1. got' = list.b[list.out]
      BY <1>0, FreshPop
    <3>2. Contents(list)[1] = list.b[list.out + 1 - 1] /\ list.out + 1 - 1 = list.out
      BY <1>0, <1>4, FreshFields
    <3> QED BY <1>1, <1>2, <3>1, <3>2
  <2> QED BY <1>2, <1>3, <2>1, <2>4, <2>5 DEF Queue!Pop
<1>5. CASE list.out + 1 # Size
  <2>1. /\ got' = Head(Contents(list)) /\ Contents(list') = Tail(Contents(list))
    BY <1>0, <1>1, <1>5, PopContents
  <2>2. Tail(Contents(list)) # <<>>
    <3>0. Size - list.out - 1 # 0
      BY <1>0, <1>5
    <3>1. Len(Tail(Contents(list))) # 0
      BY <1>2, <3>0
    <3> QED BY <3>1, EmptySeq
  <2> QED BY <1>2, <1>3, <2>1, <2>2 DEF Queue!Pop
<1> QED BY <1>4, <1>5

LEMMA BlockQueueInit == InitBlocks => Queue!Init
<1> SUFFICES ASSUME InitBlocks PROVE Queue!Init
  OBVIOUS
<1>1. BlockListInv /\ Size \in Nat
  BY BlockListInit, SizeAssumption
<1>2. list.in = Size /\ list.out = 0 /\ list.size = Size /\ got = 0
  BY DEF InitBlocks, GetFreeBlockList
<1>3. fresh = TRUE
  BY <1>2 DEF fresh
<1>4. Contents(list) = boot
  BY <1>1, <1>2, <1>3, FreshArray DEF BlockListInv, BlockTypes, BootArray
<1>5. boot \in [1 .. Size -> Ids \cup {0}]
  <2>1. 0 .. Size = Ids \cup {0}
    BY <1>1 DEF Ids
  <2> QED BY <1>1, <2>1 DEF BlockListInv, BlockTypes
<1> QED BY <1>2, <1>3, <1>4, <1>5 DEF Queue!Init

LEMMA BlockQueueStep ==
  BlockListInv /\ BlockListInv' /\ [NextInodes \/ NextBlocks]_vars => [Queue!Next]_(Queue!qvars)
<1> SUFFICES ASSUME BlockListInv, BlockListInv', [NextInodes \/ NextBlocks]_vars
             PROVE  Queue!Next \/ UNCHANGED Queue!qvars
  OBVIOUS
<1>0. Size \in Nat /\ Size > 0 /\ RingInv(list) /\ list.size = Size /\ RingInv(list') /\ list'.size = Size
  BY SizeAssumption, RingFields DEF BlockListInv, BlockTypes, RingInv
<1>1. CASE DiscardBusy
  <2>1. Queue!Pop
    BY <1>1, FreshPopIsPop DEF DiscardBusy
  <2> QED BY <2>1 DEF Queue!Next
<1>2. CASE ScanInode
  BY <1>2 DEF ScanInode, BlockListInv, BootArray
<1>3. CASE Alloc
  <2>1. CASE fresh
    <3>1. Queue!Pop
      BY <1>3, <2>1, FreshPopIsPop DEF Alloc
    <3> QED BY <3>1 DEF Queue!Next
  <2>2. CASE ~fresh
    <3>1. ~list.empty /\ list.in # Size
      BY <1>0, <1>3, <2>2 DEF Alloc, fresh
    <3>2. /\ got' = Head(Contents(list)) /\ Contents(list)' = Tail(Contents(list))
          /\ Contents(list) # <<>> /\ list'.in = list.in
      BY <1>0, <1>3, <3>1, PopContents DEF Alloc
    <3>3. fresh = FALSE /\ fresh' = FALSE
      BY <1>0, <3>1, <3>2 DEF fresh
    <3>4. Queue!Pop
      BY <1>3, <3>2, <3>3 DEF Alloc, Queue!Pop
    <3> QED BY <3>4 DEF Queue!Next
  <2> QED BY <2>1, <2>2
<1>4. CASE AllocEmpty
  <2>1. list' = list /\ got' = 0 /\ UNCHANGED boot
    BY <1>4 DEF AllocEmpty, PopFromBuffer, Front
  <2>2. Contents(list) = <<>>
    <3>1. Len(Contents(list)) = 0 /\ Contents(list) \in Seq(0 .. Size)
      BY <1>0, <1>4, CountSlot DEF AllocEmpty
    <3> QED BY <3>1, EmptySeq
  <2>3. Queue!PopEmpty
    BY <2>1, <2>2 DEF Queue!PopEmpty, fresh
  <2> QED BY <2>3 DEF Queue!Next
<1>5. ASSUME NEW i \in Ids, Release(i) PROVE Queue!Next \/ UNCHANGED Queue!qvars
  <2>0. Booted /\ list' = PushToBuffer(list, i) /\ UNCHANGED <<boot, got>> /\ i \in 0 .. Size
    BY <1>0, <1>5 DEF Release, Ids
  <2>1. CASE fresh
    <3>1. list.in = Size /\ ~list.full
      BY <1>0, <2>0, <2>1 DEF fresh, BlockListInv, BootArray
    <3>2. list'.in = 0 /\ Contents(list)' = Contents(list)
      BY <1>0, <2>0, <3>1, FreshPush
    <3>3. fresh' = FALSE
      BY <1>0, <3>2 DEF fresh
    <3>4. Queue!PushLost(i)
      BY <2>0, <2>1, <3>2, <3>3 DEF Queue!PushLost
    <3> QED BY <3>4 DEF Queue!Next
  <2>2. CASE ~fresh /\ list.full
    <3>1. list' = list
      BY <2>0, <2>2 DEF PushToBuffer
    <3> QED BY <2>0, <3>1 DEF Queue!qvars, fresh
  <2>3. CASE ~fresh /\ ~list.full
    <3>1. list.in # Size
      BY <1>0, <2>3 DEF fresh
    <3>2. list'.in # Size /\ Contents(list)' = Append(Contents(list), i)
      BY <1>0, <2>0, <2>3, <3>1, PushContents
    <3>3. Len(Contents(list)) < Size
      <4>1. Len(Contents(list)) # Size /\ Len(Contents(list)) \in 0 .. Size
        BY <1>0, <2>3, <3>1, FullIsSize, CountSlot
      <4> QED BY <1>0, <4>1
    <3>4. fresh = FALSE /\ fresh' = FALSE
      BY <1>0, <3>1, <3>2 DEF fresh
    <3>5. Queue!Push(i)
      BY <2>0, <3>2, <3>3, <3>4 DEF Queue!Push
    <3> QED BY <3>5 DEF Queue!Next
  <2> QED BY <2>1, <2>2, <2>3
<1>6. ASSUME NEW i \in Ids, Retire(i) PROVE UNCHANGED Queue!qvars
  BY <1>6 DEF Retire, Queue!qvars, fresh
<1>7. CASE UNCHANGED vars
  BY <1>7 DEF vars, Queue!qvars, fresh
<1> QED BY <1>1, <1>2, <1>3, <1>4, <1>5, <1>6, <1>7 DEF NextInodes, NextBlocks, Handlers

\* Both lists behave as the queue, which says of the list of free blocks that
\* it never runs dry until the first push and that it loses that one
\* (yfs.c:142-220).
THEOREM ListsRefineQueue == SpecLists => Refines
<1>1. InitInodes \/ InitBlocks => Queue!Init
  BY InodeQueueInit, BlockQueueInit
<1>2. ListInv /\ ListInv' /\ [NextInodes \/ NextBlocks]_vars => [Queue!Next]_(Queue!qvars)
  <2> SUFFICES ASSUME ListInv, [NextInodes \/ NextBlocks]_vars PROVE [Queue!Next]_(Queue!qvars)
    OBVIOUS
  <2>1. CASE InodeInv
    <3>1. ~fresh
      BY <2>1, RingFields DEF fresh, InodeInv, RingInv
    <3>2. [NextInodes]_vars
      BY <3>1 DEF NextInodes, NextBlocks, DiscardBusy
    <3>3. InodeInv'
      BY <2>1, <3>2, InodeStep
    <3> QED BY <2>1, <3>2, <3>3, InodeQueueStep
  <2>2. CASE BlockListInv
    <3>1. BlockListInv'
      BY <2>2, BlockListStep
    <3> QED BY <2>2, <3>1, BlockQueueStep
  <2> QED BY <2>1, <2>2 DEF ListInv
<1> QED BY <1>1, <1>2, ListInvariant, PTL DEF SpecLists, Refines, Queue!Spec
=============================================================================
