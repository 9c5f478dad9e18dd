------------------------------ MODULE LruStack ------------------------------
(***************************************************************************)
(* The list that both caches of cache.c keep in order of use: a doubly     *)
(* linked list with pointers to its top, the entry used last, and its      *)
(* base, the one to evict.  An entry is identified by the number it        *)
(* caches; DOMAIN s.next is the set of entries.  Raising an entry leaves   *)
(* its prev_lru as it was, so that of the top may point anywhere.          *)
(*                                                                         *)
(* The hash chains, which find the entry of a number, are left out.        *)
(***************************************************************************)
EXTENDS Integers, Sequences, FiniteSets, Functions

CONSTANT Null  \* NULL

\* It is not the number of anything.
ASSUME NullAssumption == Null \notin Int

Members(s) == DOMAIN s.next

EmptyStack == [top |-> Null, base |-> Null, prev |-> <<>>, next |-> <<>>]

With(f, k, v) == [x \in DOMAIN f \cup {k} |-> IF x = k THEN v ELSE f[x]]

\* A new entry goes on top.
Push(s, k) ==
  LET up == IF s.top = Null THEN s.prev ELSE [s.prev EXCEPT ![s.top] = k]
  IN [top  |-> k,
      base |-> IF s.top = Null THEN k ELSE s.base,
      prev |-> With(up, k, Null),
      next |-> With(s.next, k, s.top)]

\* The base leaves a full list; its entry is used again for what comes on top.
Drop(s) ==
  LET base == s.prev[s.base]
      rest == Members(s) \ {s.base}
  IN [s EXCEPT !.base = base,
               !.prev = Restrict(@, rest),
               !.next = Restrict([@ EXCEPT ![base] = Null], rest)]

\* Mutant of Raise: taking the base out of the list does not move the base.
Raise_KeepsBase(s, k) ==
  IF k = s.top THEN s
  ELSE LET p == s.prev[k]
           n == s.next[k]
       IN [s EXCEPT !.top  = k,
                    !.next = [@ EXCEPT ![p] = n, ![k] = s.top],
                    !.prev = IF k = s.base THEN [@ EXCEPT ![s.top] = k]
                             ELSE [@ EXCEPT ![n] = p, ![s.top] = k]]

\* Mutant of Raise: a hit does not count as use.
Raise_Never(s, k) == s

\* An entry that was used goes on top.
Raise(s, k) ==
  IF k = s.top \/ (s.prev[k] = Null /\ s.next[k] = Null) THEN s
  ELSE LET p == s.prev[k]
           n == s.next[k]
       IN IF k = s.base
          THEN [s EXCEPT !.base = p, !.top = k,
                         !.next = [@ EXCEPT ![p] = Null, ![k] = s.top],
                         !.prev = [@ EXCEPT ![s.top] = k]]
          ELSE [s EXCEPT !.top  = k,
                         !.next = [@ EXCEPT ![p] = n, ![k] = s.top],
                         !.prev = [@ EXCEPT ![n] = p, ![s.top] = k]]

(***************************************************************************)
(* Views of the list, not code: its entries from the top down, and whether *)
(* it is a list at all.  A list that is cut off ends in Null.              *)
(***************************************************************************)
Order(s) ==
  LET size == Cardinality(Members(s))
      entry[n \in 1 .. size] ==
        IF n = 1 THEN s.top
        ELSE IF entry[n - 1] = Null THEN Null ELSE s.next[entry[n - 1]]
  IN entry

WellLinked(s) ==
  LET order == Order(s)
      size  == Len(order)
  IN IF Members(s) = {} THEN s = EmptyStack
     ELSE /\ Range(order) = Members(s)
          /\ order[size] = s.base /\ s.next[s.base] = Null
          /\ \A n \in 2 .. size : s.prev[order[n]] = order[n - 1]

\* The order of a full list after k was used: on top, and if it is new the last
\* one has left.
UsedLast(order, k) ==
  LET last == CHOOSE n \in DOMAIN order : order[n] = k \/ (k \notin Range(order) /\ n = Len(order))
  IN [n \in DOMAIN order |->
        IF n = 1 THEN k ELSE IF n <= last THEN order[n - 1] ELSE order[n]]
=============================================================================
