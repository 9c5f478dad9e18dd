--------------------------- MODULE YfsCacheProofs ---------------------------
(***************************************************************************)
(* Theorems about the caches of YfsCache, for all sizes of them and any    *)
(* inodes and blocks: both are proper lists whatever is raised, dropped    *)
(* and pushed, no flagged change is lost, and Sync writes them all.        *)
(***************************************************************************)
EXTENDS YfsCache, FiniteSetTheorems, SequenceTheorems, WellFoundedInduction, TLAPS

-----------------------------------------------------------------------------
(* The doubly linked list.                                                 *)

IsStack(s) ==
  /\ s = [top |-> s.top, base |-> s.base, prev |-> s.prev, next |-> s.next]
  /\ s.next = [x \in DOMAIN s.next |-> s.next[x]]
  /\ s.prev = [x \in DOMAIN s.next |-> s.prev[x]]
  /\ Null \notin DOMAIN s.next

\* The list s has the n entries of o, the top first.
Chain(s, n, o) ==
  /\ IsStack(s)
  /\ n \in Nat /\ o \in [1 .. n -> DOMAIN s.next]
  /\ \A j, k \in 1 .. n : o[j] = o[k] => j = k
  /\ \A x \in DOMAIN s.next : \E k \in 1 .. n : o[k] = x
  /\ n = 0 => s = EmptyStack
  /\ n > 0 => s.top = o[1] /\ s.base = o[n] /\ s.next[o[n]] = Null
  /\ \A k \in 1 .. n : k > 1 => s.prev[o[k]] = o[k - 1] /\ s.next[o[k - 1]] = o[k]

Pushed(o, n, k) == [j \in 1 .. n + 1 |-> IF j = 1 THEN k ELSE o[j - 1]]

Dropped(o, n) == [j \in 1 .. n - 1 |-> o[j]]

Raised(o, n, p) == [j \in 1 .. n |-> IF j = 1 THEN o[p] ELSE IF j <= p THEN o[j - 1] ELSE o[j]]

LEMMA PushChain ==
  ASSUME NEW s, NEW n, NEW o, Chain(s, n, o), NEW k, k \notin DOMAIN s.next, k # Null
  PROVE  /\ Chain(Push(s, k), n + 1, Pushed(o, n, k))
         /\ Members(Push(s, k)) = Members(s) \cup {k} /\ Push(s, k).top = k
<1> DEFINE M == DOMAIN s.next
           t == Push(s, k)
           u == Pushed(o, n, k)
           up == IF s.top = Null THEN s.prev ELSE [s.prev EXCEPT ![s.top] = k]
<1>0. /\ n \in Nat /\ o \in [1 .. n -> M] /\ IsStack(s)
      /\ \A j, l \in 1 .. n : o[j] = o[l] => j = l
      /\ \A x \in M : \E l \in 1 .. n : o[l] = x
      /\ n = 0 => s = EmptyStack
      /\ n > 0 => s.top = o[1] /\ s.base = o[n] /\ s.next[o[n]] = Null
      /\ \A l \in 1 .. n : l > 1 => s.prev[o[l]] = o[l - 1] /\ s.next[o[l - 1]] = o[l]
  BY DEF Chain
<1>1. Null \notin M /\ DOMAIN s.prev = M /\ s.next = [x \in M |-> s.next[x]] /\ s.prev = [x \in M |-> s.prev[x]]
  BY <1>0 DEF IsStack
<1>2. s.top = Null <=> n = 0
  <2>1. CASE n = 0
    BY <1>0, <2>1 DEF EmptyStack
  <2>2. CASE n > 0
    <3>1. 1 \in 1 .. n
      BY <1>0, <2>2
    <3> QED BY <1>0, <1>1, <2>2, <3>1
  <2> QED BY <1>0, <2>1, <2>2
<1>3. up = [x \in M |-> IF n > 0 /\ x = s.top THEN k ELSE s.prev[x]]
  <2>1. CASE n = 0
    BY <1>1, <1>2, <2>1
  <2>2. CASE n # 0
    <3>1. n > 0 /\ up = [s.prev EXCEPT ![s.top] = k]
      BY <1>0, <1>2, <2>2
    <3> HIDE DEF up
    <3>2. up = [x \in M |-> IF x = s.top THEN k ELSE s.prev[x]]
      BY <1>1, <3>1
    <3> QED BY <3>1, <3>2
  <2> QED BY <2>1, <2>2
<1> HIDE DEF up
<1>4. t = [top |-> k, base |-> IF n = 0 THEN k ELSE s.base,
           prev |-> [x \in M \cup {k} |-> IF x = k THEN Null ELSE up[x]],
           next |-> [x \in M \cup {k} |-> IF x = k THEN s.top ELSE s.next[x]]]
  BY <1>1, <1>2, <1>3 DEF Push, With, up
<1>5. /\ t.top = k /\ t.base = (IF n = 0 THEN k ELSE s.base)
      /\ t.prev = [x \in M \cup {k} |-> IF x = k THEN Null ELSE up[x]]
      /\ t.next = [x \in M \cup {k} |-> IF x = k THEN s.top ELSE s.next[x]]
      /\ DOMAIN t.next = M \cup {k}
  BY <1>4
<1>6. t = [top |-> t.top, base |-> t.base, prev |-> t.prev, next |-> t.next]
  BY <1>4
<1> HIDE DEF t
<1>7. IsStack(t)
  BY <1>1, <1>5, <1>6 DEF IsStack
<1>8. /\ \A j \in 1 .. n + 1 : j = 1 \/ (j > 1 /\ j - 1 \in 1 .. n)
      /\ u = [j \in 1 .. n + 1 |-> IF j = 1 THEN k ELSE o[j - 1]]
      /\ n + 1 \in Nat /\ n + 1 > 0 /\ 1 \in 1 .. n + 1 /\ n + 1 \in 1 .. n + 1
  BY <1>0 DEF Pushed
<1> HIDE DEF u
<1>9. u \in [1 .. n + 1 -> M \cup {k}]
  BY <1>0, <1>8
<1>10. \A j, l \in 1 .. n + 1 : u[j] = u[l] => j = l
  <2> SUFFICES ASSUME NEW j \in 1 .. n + 1, NEW l \in 1 .. n + 1, u[j] = u[l] PROVE j = l
    OBVIOUS
  <2>1. CASE j = 1 /\ l = 1
    BY <2>1
  <2>2. CASE j > 1 /\ l > 1
    <3>1. j - 1 = l - 1
      BY <1>0, <1>8, <2>2
    <3> QED BY <3>1
  <2>3. CASE ~(j = 1 <=> l = 1)
    BY <1>0, <1>8, <2>3
  <2> QED BY <1>8, <2>1, <2>2, <2>3
<1>11. ASSUME NEW x \in M \cup {k} PROVE \E l \in 1 .. n + 1 : u[l] = x
  <2>1. CASE x = k
    BY <1>8, <2>1
  <2>2. CASE x \in M
    <3>1. PICK l \in 1 .. n : o[l] = x
      BY <1>0, <2>2
    <3>2. l + 1 \in 1 .. n + 1 /\ l + 1 # 1 /\ (l + 1) - 1 = l
      BY <1>0
    <3>3. u[l + 1] = x
      BY <1>8, <3>1, <3>2
    <3> QED BY <3>2, <3>3
  <2> QED BY <2>1, <2>2
<1>12. t.top = u[1] /\ t.base = u[n + 1] /\ t.next[u[n + 1]] = Null
  <2>1. CASE n = 0
    BY <1>2, <1>5, <1>8, <2>1
  <2>2. CASE n > 0
    <3>1. u[n + 1] = o[n] /\ o[n] \in M /\ o[n] # k
      BY <1>0, <1>8, <2>2
    <3> QED BY <1>0, <1>5, <1>8, <2>2, <3>1
  <2> QED BY <1>0, <2>1, <2>2
<1>13. ASSUME NEW l \in 1 .. n + 1, l > 1
       PROVE  t.prev[u[l]] = u[l - 1] /\ t.next[u[l - 1]] = u[l]
  <2>1. l - 1 \in 1 .. n /\ u[l] = o[l - 1] /\ o[l - 1] \in M /\ o[l - 1] # k /\ n > 0 /\ 1 \in 1 .. n
    BY <1>0, <1>8, <1>13
  <2>2. t.prev[u[l]] = up[o[l - 1]]
    BY <1>5, <2>1
  <2>3. CASE l = 2
    <3>1. l - 1 = 1 /\ u[1] = k
      BY <1>8, <2>3
    <3>2. t.prev[u[l]] = k
      BY <1>0, <1>3, <2>1, <2>2, <3>1
    <3>3. t.next[k] = o[1]
      BY <1>0, <1>5, <2>1
    <3> QED BY <2>1, <3>1, <3>2, <3>3
  <2>4. CASE l > 2
    <3>1. l - 2 \in 1 .. n /\ (l - 1) - 1 = l - 2 /\ l - 1 > 1 /\ l - 1 \in 1 .. n + 1
      BY <1>0, <2>1, <2>4
    <3>2. u[l - 1] = o[l - 2] /\ o[l - 2] \in M /\ o[l - 2] # k
      BY <1>0, <1>8, <3>1
    <3>3. s.prev[o[l - 1]] = o[l - 2] /\ s.next[o[l - 2]] = o[l - 1]
      BY <1>0, <2>1, <3>1
    <3>4. o[l - 1] # s.top
      BY <1>0, <2>1, <3>1
    <3>5. t.prev[u[l]] = o[l - 2]
      BY <1>3, <2>1, <2>2, <3>3, <3>4
    <3>6. t.next[o[l - 2]] = o[l - 1]
      BY <1>5, <3>2, <3>3
    <3> QED BY <2>1, <3>2, <3>5, <3>6
  <2> QED BY <1>0, <1>13, <2>3, <2>4
<1>14. Chain(t, n + 1, u)
  <2>1. n + 1 # 0 /\ u \in [1 .. n + 1 -> DOMAIN t.next]
    BY <1>5, <1>8, <1>9
  <2>2. \A x \in DOMAIN t.next : \E l \in 1 .. n + 1 : u[l] = x
    BY <1>5, <1>11
  <2> HIDE DEF M
  <2> QED BY <1>7, <1>8, <1>10, <1>12, <1>13, <2>1, <2>2 DEF Chain
<1> QED BY <1>5, <1>14 DEF t, u, Members

LEMMA DropChain ==
  ASSUME NEW s, NEW n, NEW o, Chain(s, n, o), n > 1
  PROVE  /\ Chain(Drop(s), n - 1, Dropped(o, n))
         /\ Members(Drop(s)) = Members(s) \ {s.base} /\ Drop(s).top = s.top
<1> DEFINE M == DOMAIN s.next
           t == Drop(s)
           u == Dropped(o, n)
           m == n - 1
           next == [s.next EXCEPT ![s.prev[s.base]] = Null]
<1>0. /\ n \in Nat /\ o \in [1 .. n -> M] /\ IsStack(s)
      /\ \A j, l \in 1 .. n : o[j] = o[l] => j = l
      /\ \A x \in M : \E l \in 1 .. n : o[l] = x
      /\ s.top = o[1] /\ s.base = o[n]
      /\ \A l \in 1 .. n : l > 1 => s.prev[o[l]] = o[l - 1] /\ s.next[o[l - 1]] = o[l]
  BY DEF Chain
<1>1. Null \notin M /\ DOMAIN s.prev = M /\ s.next = [x \in M |-> s.next[x]] /\ s.prev = [x \in M |-> s.prev[x]]
  BY <1>0 DEF IsStack
<1>2. /\ m \in Nat /\ m > 0 /\ n \in 1 .. n /\ m \in 1 .. n /\ m \in 1 .. m /\ m # n /\ 1 \in 1 .. m
      /\ \A l \in 1 .. m : l \in 1 .. n /\ l # n
      /\ \A l \in 1 .. n : l # n => l \in 1 .. m
  BY <1>0
<1>3. s.prev[s.base] = o[m] /\ o[m] \in M /\ o[n] \in M /\ o[m] # o[n]
  BY <1>0, <1>2
<1>4. next = [x \in M |-> IF x = o[m] THEN Null ELSE s.next[x]]
  BY <1>1, <1>3
<1> HIDE DEF next
<1>5. t = [top |-> s.top, base |-> o[m], prev |-> Restrict(s.prev, M \ {o[n]}), next |-> Restrict(next, M \ {o[n]})]
  <2>1. s = [top |-> s.top, base |-> s.base, prev |-> s.prev, next |-> s.next]
    BY <1>0 DEF IsStack
  <2>2. Drop(s) = [s EXCEPT !.base = o[m], !.prev = Restrict(s.prev, M \ {o[n]}),
                            !.next = Restrict(next, M \ {o[n]})]
    BY <1>0, <1>3 DEF Drop, Members, next
  <2> HIDE DEF M, m
  <2> QED BY <2>1, <2>2
<1>6. /\ t.top = s.top /\ t.base = o[m]
      /\ t.prev = [x \in M \ {o[n]} |-> s.prev[x]]
      /\ t.next = [x \in M \ {o[n]} |-> next[x]]
      /\ DOMAIN t.next = M \ {o[n]}
      /\ t = [top |-> t.top, base |-> t.base, prev |-> t.prev, next |-> t.next]
  BY <1>5 DEF Restrict
<1> HIDE DEF t
<1>7. IsStack(t)
  BY <1>1, <1>6 DEF IsStack
<1>8. u = [j \in 1 .. m |-> o[j]]
  BY DEF Dropped
<1> HIDE DEF u, m
<1>9. u \in [1 .. m -> DOMAIN t.next]
  <2>1. \A j \in 1 .. m : o[j] \in M \ {o[n]}
    BY <1>0, <1>2
  <2> QED BY <1>6, <1>8, <2>1
<1>10. \A j, l \in 1 .. m : u[j] = u[l] => j = l
  BY <1>0, <1>2, <1>8
<1>11. \A x \in DOMAIN t.next : \E l \in 1 .. m : u[l] = x
  <2> SUFFICES ASSUME NEW x \in M \ {o[n]} PROVE \E l \in 1 .. m : u[l] = x
    BY <1>6
  <2>1. PICK l \in 1 .. n : o[l] = x
    BY <1>0
  <2>2. l \in 1 .. m
    BY <1>2, <2>1
  <2> QED BY <1>8, <2>1, <2>2
<1>12. t.top = u[1] /\ t.base = u[m] /\ t.next[u[m]] = Null
  BY <1>0, <1>2, <1>3, <1>4, <1>6, <1>8
<1>13. ASSUME NEW l \in 1 .. m, l > 1
       PROVE  t.prev[u[l]] = u[l - 1] /\ t.next[u[l - 1]] = u[l]
  <2>1. l \in 1 .. n /\ l # n /\ l - 1 \in 1 .. m /\ l - 1 \in 1 .. n /\ l - 1 # m /\ l - 1 # n
    BY <1>0, <1>2, <1>13
  <2>2. u[l] = o[l] /\ u[l - 1] = o[l - 1]
    BY <1>8, <2>1
  <2>3. o[l] \in M \ {o[n]} /\ o[l - 1] \in M \ {o[n]} /\ o[l - 1] # o[m]
    BY <1>0, <1>2, <2>1
  <2>4. s.prev[o[l]] = o[l - 1] /\ s.next[o[l - 1]] = o[l]
    BY <1>0, <1>13, <2>1
  <2> QED BY <1>4, <1>6, <2>2, <2>3, <2>4
<1>14. Chain(t, m, u)
  <2> HIDE DEF M
  <2> QED BY <1>2, <1>7, <1>9, <1>10, <1>11, <1>12, <1>13 DEF Chain
<1> QED BY <1>0, <1>6, <1>14 DEF t, u, m, Members

LEMMA RaiseChain ==
  ASSUME NEW s, NEW n, NEW o, Chain(s, n, o), NEW p \in 1 .. n
  PROVE  /\ Chain(Raise(s, o[p]), n, Raised(o, n, p))
         /\ Members(Raise(s, o[p])) = Members(s) /\ Raise(s, o[p]).top = o[p]
<1> DEFINE M == DOMAIN s.next
           t == Raise(s, o[p])
           u == Raised(o, n, p)
<1>0. /\ n \in Nat /\ o \in [1 .. n -> M] /\ IsStack(s)
      /\ \A j, l \in 1 .. n : o[j] = o[l] => j = l
      /\ \A x \in M : \E l \in 1 .. n : o[l] = x
      /\ s.top = o[1] /\ s.base = o[n] /\ s.next[o[n]] = Null
      /\ \A l \in 1 .. n : l > 1 => s.prev[o[l]] = o[l - 1] /\ s.next[o[l - 1]] = o[l]
      /\ n > 0
  BY DEF Chain
<1>1. Null \notin M /\ DOMAIN s.prev = M /\ s.next = [x \in M |-> s.next[x]] /\ s.prev = [x \in M |-> s.prev[x]]
      /\ s = [top |-> s.top, base |-> s.base, prev |-> s.prev, next |-> s.next]
  BY <1>0 DEF IsStack
<1>2. 1 \in 1 .. n /\ n \in 1 .. n
  BY <1>0
<1>3. CASE p = 1
  <2>1. t = s
    BY <1>0, <1>3 DEF Raise
  <2>2. u = o
    <3>1. \A j \in 1 .. n : u[j] = o[j]
      BY <1>0, <1>3 DEF Raised
    <3> QED BY <1>0, <3>1 DEF Raised
  <2> QED BY <1>0, <1>3, <2>1, <2>2
<1>4. CASE p > 1
  <2>1. /\ p - 1 \in 1 .. n /\ s.prev[o[p]] = o[p - 1] /\ o[p - 1] \in M /\ o[p] \in M
        /\ o[p] # o[1] /\ o[p - 1] # Null /\ p - 1 # p /\ o[p - 1] # o[p] /\ p # 1 /\ o[1] \in M
        /\ s.next[o[p - 1]] = o[p]
    <3>1. /\ p - 1 \in 1 .. n /\ p - 1 # p /\ p # 1 /\ p \in 1 .. n /\ p > 1
      BY <1>0, <1>4
    <3>2. s.prev[o[p]] = o[p - 1] /\ s.next[o[p - 1]] = o[p]
      BY <1>0, <3>1
    <3>3. o[p] \in M /\ o[p - 1] \in M /\ o[1] \in M
      BY <1>0, <1>2, <3>1
    <3>4. o[p - 1] # Null /\ o[p] # o[1] /\ o[p - 1] # o[p]
      BY <1>0, <1>1, <1>2, <3>1, <3>3
    <3> QED BY <3>1, <3>2, <3>3, <3>4
  <2>2. /\ t.top = o[p]
        /\ t.base = (IF p = n THEN o[n - 1] ELSE o[n])
        /\ t.next = [x \in M |-> IF x = o[p] THEN o[1]
                                 ELSE IF x = o[p - 1] THEN IF p = n THEN Null ELSE o[p + 1] ELSE s.next[x]]
        /\ t.prev = [x \in M |-> IF x = o[1] THEN o[p]
                                 ELSE IF p < n /\ x = o[p + 1] THEN o[p - 1] ELSE s.prev[x]]
        /\ t = [top |-> t.top, base |-> t.base, prev |-> t.prev, next |-> t.next]
    <3>1. CASE p = n
      <4> DEFINE next == [s.next EXCEPT ![o[p - 1]] = Null, ![o[p]] = o[1]]
                 prev == [s.prev EXCEPT ![o[1]] = o[p]]
      <4>1. t = [s EXCEPT !.base = o[p - 1], !.top = o[p], !.next = next, !.prev = prev]
        BY <1>0, <2>1, <3>1 DEF Raise
      <4>2. next = [x \in M |-> IF x = o[p] THEN o[1] ELSE IF x = o[p - 1] THEN Null ELSE s.next[x]]
        BY <1>1, <2>1
      <4>3. prev = [x \in M |-> IF x = o[1] THEN o[p] ELSE s.prev[x]]
        BY <1>1, <2>1
      <4> HIDE DEF next, prev, t
      <4>4. t = [top |-> o[p], base |-> o[p - 1], prev |-> prev, next |-> next]
        BY <1>1, <4>1
      <4> HIDE DEF M
      <4> QED BY <3>1, <4>2, <4>3, <4>4
    <3>2. CASE p < n
      <4> DEFINE next == [s.next EXCEPT ![o[p - 1]] = o[p + 1], ![o[p]] = o[1]]
                 prev == [s.prev EXCEPT ![o[p + 1]] = o[p - 1], ![o[1]] = o[p]]
      <4>0. PICK q : q = p + 1
        OBVIOUS
      <4>00. q \in 1 .. n /\ q > 1 /\ q - 1 = p /\ q # 1
        BY <1>0, <3>2, <4>0
      <4>01. s.next[o[p]] = o[q] /\ o[q] \in M /\ o[q] # o[1]
        BY <1>0, <1>2, <4>00
      <4>02. o[p] # s.base /\ o[p] # s.top
        BY <1>0, <1>2, <2>1, <3>2
      <4>1. t = [s EXCEPT !.top = o[p], !.next = next, !.prev = prev]
        BY <1>0, <2>1, <4>0, <4>01, <4>02 DEF Raise
      <4>2. next = [x \in M |-> IF x = o[p] THEN o[1] ELSE IF x = o[p - 1] THEN o[p + 1] ELSE s.next[x]]
        BY <1>1, <2>1
      <4>3. prev = [x \in M |-> IF x = o[1] THEN o[p] ELSE IF x = o[p + 1] THEN o[p - 1] ELSE s.prev[x]]
        BY <1>1, <2>1, <4>0, <4>01
      <4> HIDE DEF next, prev, t
      <4>4. t = [top |-> o[p], base |-> s.base, prev |-> prev, next |-> next]
        BY <1>1, <4>1
      <4>5. p # n
        BY <1>0, <3>2
      <4> HIDE DEF M
      <4> QED BY <1>0, <3>2, <4>2, <4>3, <4>4, <4>5
    <3> QED BY <1>0, <3>1, <3>2
  <2> HIDE DEF t
  <2>3. IsStack(t) /\ DOMAIN t.next = M
    BY <1>1, <2>2 DEF IsStack
  <2>4. u = [j \in 1 .. n |-> IF j = 1 THEN o[p] ELSE IF j <= p THEN o[j - 1] ELSE o[j]]
        /\ \A j \in 1 .. n : j > 1 => j - 1 \in 1 .. n
    BY <1>0 DEF Raised
  <2> HIDE DEF u
  <2>5. \A j \in 1 .. n : /\ j = 1 => u[j] = o[p]
                          /\ j > 1 /\ j <= p => u[j] = o[j - 1] /\ j - 1 < p /\ j - 1 \in 1 .. n
                          /\ j > p => u[j] = o[j]
    BY <1>0, <1>4, <2>4
  <2>6. u \in [1 .. n -> M]
    BY <1>0, <2>4
  <2>7. ASSUME NEW j \in 1 .. n, NEW l \in 1 .. n, u[j] = u[l] PROVE j = l
    <3> DEFINE pos(k) == IF k = 1 THEN p ELSE IF k <= p THEN k - 1 ELSE k
    <3>1. u[j] = o[pos(j)] /\ u[l] = o[pos(l)] /\ pos(j) \in 1 .. n /\ pos(l) \in 1 .. n
      BY <1>0, <2>4
    <3>2. pos(j) = pos(l)
      <4> HIDE DEF pos
      <4>1. PICK a, c \in 1 .. n : a = pos(j) /\ c = pos(l)
        BY <3>1
      <4>2. o[a] = o[c]
        BY <2>7, <3>1, <4>1
      <4> QED BY <1>0, <4>1, <4>2
    <3> QED BY <1>0, <3>2
  <2>8. ASSUME NEW x \in M PROVE \E l \in 1 .. n : u[l] = x
    <3>1. PICK l \in 1 .. n : o[l] = x
      BY <1>0
    <3>2. CASE l = p
      BY <1>2, <2>5, <3>1, <3>2
    <3>3. CASE l < p
      <4>1. PICK j : j = l + 1
        OBVIOUS
      <4>2. j \in 1 .. n /\ j > 1 /\ j <= p /\ j - 1 = l
        BY <1>0, <3>3, <4>1
      <4>3. u[j] = o[l]
        BY <2>5, <4>2
      <4> QED BY <3>1, <4>2, <4>3
    <3>4. CASE l > p
      BY <2>5, <3>1, <3>4
    <3> QED BY <1>0, <3>2, <3>3, <3>4
  <2>9. t.top = u[1] /\ t.base = u[n] /\ t.next[u[n]] = Null
    <3>1. t.top = u[1]
      BY <1>2, <2>2, <2>5
    <3>2. CASE p = n
      <4>1. u[n] = o[n - 1]
        BY <1>2, <1>4, <2>5, <3>2
      <4> QED BY <2>1, <2>2, <3>1, <3>2, <4>1
    <3>3. CASE p < n
      <4>1. u[n] = o[n] /\ o[n] # o[p] /\ p - 1 # n /\ o[n] # o[p - 1] /\ o[n] \in M /\ p # n
        BY <1>0, <1>2, <2>1, <2>5, <3>3
      <4> QED BY <1>0, <2>2, <3>1, <4>1
    <3> QED BY <1>0, <3>2, <3>3
  <2>10. ASSUME NEW l \in 1 .. n, l > 1
         PROVE  t.prev[u[l]] = u[l - 1] /\ t.next[u[l - 1]] = u[l]
    <3>0. PICK i : i = l - 1
      OBVIOUS
    <3>1. i \in 1 .. n /\ i < l /\ i # l
      BY <1>0, <2>10, <3>0
    <3>2. CASE l = 2
      <4>1. u[l] = o[1] /\ u[i] = o[p]
        BY <1>4, <2>5, <3>0, <3>1, <3>2
      <4> QED BY <2>1, <2>2, <3>0, <4>1
    <3>3. CASE l > 2 /\ l <= p
      <4>0. PICK h : h = l - 2
        OBVIOUS
      <4>1. h \in 1 .. n /\ i > 1 /\ i <= p /\ i - 1 = h /\ i # p /\ h # p /\ i # 1 /\ h # p - 1
            /\ (p < n => p + 1 \in 1 .. n /\ i # p + 1)
        BY <1>0, <3>0, <3>1, <3>3, <4>0
      <4>2. u[l] = o[i] /\ u[i] = o[h]
        BY <2>5, <2>10, <3>0, <3>1, <3>3, <4>1
      <4>3. o[i] # o[1] /\ (p < n => o[i] # o[p + 1]) /\ o[h] # o[p] /\ o[h] # o[p - 1] /\ o[i] \in M /\ o[h] \in M
        BY <1>0, <1>2, <2>1, <3>1, <4>1
      <4>4. s.prev[o[i]] = o[h] /\ s.next[o[h]] = o[i]
        BY <1>0, <3>1, <4>1
      <4>5. t.prev[o[i]] = s.prev[o[i]] /\ t.next[o[h]] = s.next[o[h]]
        BY <2>2, <4>3
      <4> QED BY <3>0, <4>2, <4>4, <4>5
    <3>4. CASE l > 2 /\ l = p + 1
      <4>1. u[l] = o[p + 1] /\ u[i] = o[p - 1] /\ i = p
        <5>1. i = p /\ l > p /\ i > 1 /\ i <= p /\ p + 1 = l
          BY <1>0, <3>0, <3>1, <3>4
        <5>2. u[l] = o[l] /\ u[i] = o[i - 1]
          BY <2>5, <3>1, <5>1
        <5> QED BY <5>1, <5>2
      <4>2. p < n /\ p # n /\ o[p + 1] # o[1] /\ o[p + 1] \in M
        BY <1>0, <1>2, <3>4
      <4> QED BY <2>1, <2>2, <3>0, <4>1, <4>2
    <3>5. CASE l > p + 1
      <4>1. /\ i > p /\ l > p /\ l # p + 1 /\ i # p - 1 /\ i # p /\ l # 1
            /\ (p < n => p + 1 \in 1 .. n)
        BY <1>0, <3>0, <3>1, <3>5
      <4>2. u[l] = o[l] /\ u[i] = o[i]
        BY <2>5, <3>1, <4>1
      <4>3. o[l] # o[1] /\ (p < n => o[l] # o[p + 1]) /\ o[i] # o[p] /\ o[i] # o[p - 1] /\ o[i] \in M /\ o[l] \in M
        BY <1>0, <1>2, <2>1, <3>1, <4>1
      <4>4. s.prev[o[l]] = o[i] /\ s.next[o[i]] = o[l]
        BY <1>0, <2>10, <3>0
      <4>5. t.prev[o[l]] = s.prev[o[l]] /\ t.next[o[i]] = s.next[o[i]]
        BY <2>2, <4>3
      <4> QED BY <3>0, <4>2, <4>4, <4>5
    <3> QED BY <1>0, <2>10, <3>2, <3>3, <3>4, <3>5
  <2>11. Chain(t, n, u)
    <3>1. \A j, l \in 1 .. n : u[j] = u[l] => j = l
      BY <2>7
    <3>2. u \in [1 .. n -> DOMAIN t.next] /\ (\A x \in DOMAIN t.next : \E l \in 1 .. n : u[l] = x)
      BY <2>3, <2>6, <2>8
    <3>3. n \in Nat /\ n > 0 /\ n # 0 /\ IsStack(t)
      BY <1>0, <2>3
    <3>4. t.top = u[1] /\ t.base = u[n] /\ t.next[u[n]] = Null
      BY <2>9
    <3>5. \A l \in 1 .. n : l > 1 => t.prev[u[l]] = u[l - 1] /\ t.next[u[l - 1]] = u[l]
      BY <2>10
    <3> HIDE DEF M
    <3> QED BY <3>1, <3>2, <3>3, <3>4, <3>5 DEF Chain
  <2> QED BY <2>2, <2>3, <2>11 DEF t, u, Members
<1> QED BY <1>0, <1>3, <1>4

LEMMA LeastOf ==
  ASSUME NEW S \in SUBSET Nat, S # {}
  PROVE  \E n \in S : \A m \in Nat : m < n => m \notin S
<1> DEFINE Before == OpToRel(<, Nat)
<1>1. IsWellFoundedOn(Before, Nat)
  BY NatLessThanWellFounded
<1>2. \A j, k \in Nat : j < k => <<j, k>> \in Before
  BY DEF OpToRel
<1> HIDE DEF Before
<1>3. PICK k \in S : \A j \in S : <<j, k>> \notin Before
  BY <1>1, WFMin
<1> QED BY <1>2, <1>3

LEMMA ChainCardinality ==
  ASSUME NEW s, NEW n, NEW o, Chain(s, n, o)
  PROVE  IsFiniteSet(Members(s)) /\ Cardinality(Members(s)) = n
<1>1. n \in Nat /\ o \in Surjection(1 .. n, Members(s)) /\ o \in Injection(1 .. n, Members(s))
  <2>1. /\ n \in Nat /\ o \in [1 .. n -> Members(s)]
        /\ \A j, k \in 1 .. n : o[j] = o[k] => j = k
        /\ \A x \in Members(s) : \E k \in 1 .. n : o[k] = x
    BY DEF Chain, Members
  <2> HIDE DEF Members
  <2> QED BY <2>1 DEF Surjection, Injection, IsInjective
<1>2. IsFiniteSet(1 .. n) /\ Cardinality(1 .. n) = n
  <2>1. IsFiniteSet(1 .. n) /\ Cardinality(1 .. n) = IF 1 > n THEN 0 ELSE n - 1 + 1
    BY <1>1, FS_Interval
  <2> QED BY <1>1, <2>1
<1> HIDE DEF Members
<1> QED BY <1>1, <1>2, FS_Surjection

\* The order that is read off the pointers is that of the entries.
LEMMA ChainOrder ==
  ASSUME NEW s, NEW n, NEW o, Chain(s, n, o)
  PROVE  Order(s) = o
<1> DEFINE IsOrder(f) == f = [m \in 1 .. n |-> IF m = 1 THEN s.top
                                              ELSE IF f[m - 1] = Null THEN Null ELSE s.next[f[m - 1]]]
<1>0. /\ n \in Nat /\ o \in [1 .. n -> DOMAIN s.next] /\ Null \notin DOMAIN s.next
      /\ n > 0 => s.top = o[1]
      /\ \A l \in 1 .. n : l > 1 => s.next[o[l - 1]] = o[l]
      /\ \A l \in 1 .. n : l > 1 => l - 1 \in 1 .. n
  <2>1. /\ n \in Nat /\ o \in [1 .. n -> DOMAIN s.next] /\ Null \notin DOMAIN s.next
        /\ n > 0 => s.top = o[1]
        /\ \A l \in 1 .. n : l > 1 => s.prev[o[l]] = o[l - 1] /\ s.next[o[l - 1]] = o[l]
    BY DEF Chain, IsStack
  <2>2. \A l \in 1 .. n : l > 1 => l - 1 \in 1 .. n
    BY <2>1
  <2> QED BY <2>1, <2>2
<1>1. IsOrder(o)
  <2>1. \A l \in 1 .. n : o[l] = IF l = 1 THEN s.top ELSE IF o[l - 1] = Null THEN Null ELSE s.next[o[l - 1]]
    <3> SUFFICES ASSUME NEW l \in 1 .. n
                 PROVE  o[l] = IF l = 1 THEN s.top ELSE IF o[l - 1] = Null THEN Null ELSE s.next[o[l - 1]]
      OBVIOUS
    <3>1. CASE l = 1
      BY <1>0, <3>1
    <3>2. CASE l > 1
      BY <1>0, <3>2
    <3> QED BY <1>0, <3>1, <3>2
  <2> QED BY <1>0, <2>1
<1>2. ASSUME NEW f, IsOrder(f) PROVE f = o
  <2>0. DOMAIN f = 1 .. n
        /\ \A l \in 1 .. n : f[l] = IF l = 1 THEN s.top ELSE IF f[l - 1] = Null THEN Null ELSE s.next[f[l - 1]]
    BY <1>2
  <2>1. f = [l \in 1 .. n |-> f[l]]
    BY <1>2
  <2> HIDE DEF IsOrder
  <2> DEFINE Bad == { l \in 1 .. n : f[l] # o[l] }
  <2>2. Bad = {}
    <3> SUFFICES ASSUME Bad # {} PROVE FALSE
      OBVIOUS
    <3>1. Bad \in SUBSET Nat
      BY <1>0
    <3>2. PICK l \in Bad : \A j \in Nat : j < l => j \notin Bad
      <4> HIDE DEF Bad
      <4> QED BY <3>1, LeastOf
    <3>3. l \in 1 .. n /\ f[l] # o[l]
      BY <3>2
    <3>4. CASE l = 1
      BY <1>0, <2>0, <3>3, <3>4
    <3>5. CASE l > 1
      <4>1. l - 1 \in 1 .. n /\ l - 1 < l /\ l - 1 \in Nat
        BY <1>0, <3>3, <3>5
      <4>2. f[l - 1] = o[l - 1]
        BY <3>2, <4>1
      <4> QED BY <1>0, <2>0, <3>3, <3>5, <4>1, <4>2
    <3> QED BY <1>0, <3>3, <3>4, <3>5
  <2> QED BY <1>0, <2>1, <2>2
<1>3. Order(s) = CHOOSE f : IsOrder(f)
  <2>1. Cardinality(Members(s)) = n
    BY ChainCardinality
  <2> QED BY <2>1 DEF Order
<1> HIDE DEF IsOrder
<1> QED BY <1>1, <1>2, <1>3

LEMMA ChainWellLinked ==
  ASSUME NEW s, NEW n, NEW o, Chain(s, n, o)
  PROVE  WellLinked(s)
<1>1. Order(s) = o
  BY ChainOrder
<1>2. /\ n \in Nat /\ o \in [1 .. n -> Members(s)]
      /\ \A x \in Members(s) : \E l \in 1 .. n : o[l] = x
      /\ n = 0 => s = EmptyStack
      /\ n > 0 => s.base = o[n] /\ s.next[o[n]] = Null
      /\ \A l \in 1 .. n : l > 1 => s.prev[o[l]] = o[l - 1]
  BY DEF Chain, Members
<1>3. Len(o) = n
  <2> HIDE DEF Members
  <2> QED BY <1>2, SeqDef, LenProperties
<1>4. Range(o) = Members(s)
  <2> HIDE DEF Members
  <2> QED BY <1>2 DEF Range
<1>5. Members(s) = {} <=> n = 0
  <2>1. CASE n = 0
    BY <1>2, <2>1
  <2>2. CASE n > 0
    <3>1. 1 \in 1 .. n
      BY <1>2, <2>2
    <3> QED BY <1>2, <2>2, <3>1
  <2> QED BY <1>2, <2>1, <2>2
<1>6. CASE n = 0
  BY <1>2, <1>5, <1>6 DEF WellLinked
<1>7. CASE n > 0
  <2>0. \A l \in 2 .. n : l \in 1 .. n /\ l > 1
    BY <1>2
  <2>1. \A l \in 2 .. n : s.prev[o[l]] = o[l - 1]
    BY <1>2, <2>0
  <2>2. s.base = o[n] /\ s.next[s.base] = Null
    BY <1>2, <1>7
  <2> QED BY <1>1, <1>3, <1>4, <1>5, <1>7, <2>1, <2>2 DEF WellLinked
<1> QED BY <1>2, <1>6, <1>7

-----------------------------------------------------------------------------
(* What the caches need to know of their lists.                            *)

Stack(s, n) == \E o : Chain(s, n, o)

LEMMA StackFacts ==
  ASSUME NEW s, NEW n, Stack(s, n)
  PROVE  /\ n \in Nat /\ IsFiniteSet(Members(s)) /\ Cardinality(Members(s)) = n
         /\ WellLinked(s) /\ Null \notin Members(s)
         /\ n > 0 => s.base \in Members(s) /\ s.top \in Members(s)
         /\ n > 1 => s.base # s.top
<1>1. PICK o : Chain(s, n, o)
  BY DEF Stack
<1>2. IsFiniteSet(Members(s)) /\ Cardinality(Members(s)) = n /\ WellLinked(s)
  BY <1>1, ChainCardinality, ChainWellLinked
<1>3. /\ n \in Nat /\ o \in [1 .. n -> Members(s)] /\ Null \notin Members(s)
      /\ \A j, k \in 1 .. n : o[j] = o[k] => j = k
      /\ n > 0 => s.top = o[1] /\ s.base = o[n]
  BY <1>1 DEF Chain, IsStack, Members
<1>4. n > 0 => 1 \in 1 .. n /\ n \in 1 .. n
  BY <1>3
<1>5. n > 1 => 1 # n
  BY <1>3
<1>6. n > 1 => n > 0
  BY <1>3
<1> QED BY <1>2, <1>3, <1>4, <1>5, <1>6

LEMMA StackPush ==
  ASSUME NEW s, NEW n, Stack(s, n), NEW k, k \notin Members(s), k # Null
  PROVE  /\ Stack(Push(s, k), n + 1)
         /\ Members(Push(s, k)) = Members(s) \cup {k} /\ Push(s, k).top = k
<1>1. PICK o : Chain(s, n, o)
  BY DEF Stack
<1>2. k \notin DOMAIN s.next
  BY DEF Members
<1> QED BY <1>1, <1>2, PushChain DEF Stack

LEMMA StackDrop ==
  ASSUME NEW s, NEW n, Stack(s, n), n > 1
  PROVE  /\ Stack(Drop(s), n - 1)
         /\ Members(Drop(s)) = Members(s) \ {s.base} /\ Drop(s).top = s.top
BY DropChain DEF Stack

LEMMA StackRaise ==
  ASSUME NEW s, NEW n, Stack(s, n), NEW k \in Members(s)
  PROVE  /\ Stack(Raise(s, k), n)
         /\ Members(Raise(s, k)) = Members(s) /\ Raise(s, k).top = k
<1>1. PICK o : Chain(s, n, o)
  BY DEF Stack
<1>2. PICK p \in 1 .. n : o[p] = k
  BY <1>1 DEF Chain, Members
<1> QED BY <1>1, <1>2, RaiseChain DEF Stack

\* A hit leaves the entries in order of use.
LEMMA HitOrder ==
  ASSUME NEW s, NEW n, Stack(s, n), NEW k \in Members(s)
  PROVE  Order(Raise(s, k)) = UsedLast(Order(s), k)
<1>1. PICK o : Chain(s, n, o)
  BY DEF Stack
<1>2. PICK p \in 1 .. n : o[p] = k
  BY <1>1 DEF Chain, Members
<1>3. Order(s) = o /\ Order(Raise(s, k)) = Raised(o, n, p)
  BY <1>1, <1>2, ChainOrder, RaiseChain
<1>4. DOMAIN o = 1 .. n /\ \A j \in 1 .. n : o[j] = k => j = p
  BY <1>1, <1>2 DEF Chain
<1>5. k \in Range(o)
  BY <1>2, <1>4 DEF Range
<1>6. (CHOOSE j \in DOMAIN o : o[j] = k \/ (k \notin Range(o) /\ j = Len(o))) = p
  BY <1>2, <1>4, <1>5
<1>7. UsedLast(o, k) = [j \in 1 .. n |-> IF j = 1 THEN k ELSE IF j <= p THEN o[j - 1] ELSE o[j]]
  BY <1>4, <1>6 DEF UsedLast
<1>8. Raised(o, n, p) = [j \in 1 .. n |-> IF j = 1 THEN k ELSE IF j <= p THEN o[j - 1] ELSE o[j]]
  BY <1>2 DEF Raised
<1> QED BY <1>3, <1>7, <1>8

\* So does a miss in a full list.
LEMMA MissOrder ==
  ASSUME NEW s, NEW n, Stack(s, n), n > 1, NEW k, k \notin Members(s), k # Null
  PROVE  Order(Push(Drop(s), k)) = UsedLast(Order(s), k)
<1>1. PICK o : Chain(s, n, o)
  BY DEF Stack
<1>2. Chain(Drop(s), n - 1, Dropped(o, n)) /\ k \notin DOMAIN Drop(s).next
  BY <1>1, DropChain DEF Members
<1>3. n - 1 + 1 = n /\ n \in Nat
  BY <1>1 DEF Chain
<1>4. Chain(Push(Drop(s), k), n, Pushed(Dropped(o, n), n - 1, k))
  BY <1>2, <1>3, PushChain
<1>5. Order(s) = o /\ Order(Push(Drop(s), k)) = Pushed(Dropped(o, n), n - 1, k)
  BY <1>1, <1>4, ChainOrder
<1>6. o \in [1 .. n -> Members(s)]
  BY <1>1 DEF Chain, Members
<1>7. Len(o) = n /\ DOMAIN o = 1 .. n /\ n \in 1 .. n
  <2>1. o \in Seq(Members(s))
    BY <1>3, <1>6, SeqDef
  <2> HIDE DEF Members
  <2> QED BY <1>3, <1>6, <2>1, LenProperties
<1>8. k \notin Range(o)
  BY <1>6 DEF Range
<1>9. (CHOOSE j \in DOMAIN o : o[j] = k \/ (k \notin Range(o) /\ j = Len(o))) = n
  BY <1>6, <1>7, <1>8
<1>10. UsedLast(o, k) = [j \in 1 .. n |-> IF j = 1 THEN k ELSE IF j <= n THEN o[j - 1] ELSE o[j]]
  BY <1>7, <1>9 DEF UsedLast
<1>11. Pushed(Dropped(o, n), n - 1, k) = [j \in 1 .. n |-> IF j = 1 THEN k ELSE Dropped(o, n)[j - 1]]
  BY <1>3 DEF Pushed
<1>12. ASSUME NEW j \in 1 .. n, j # 1 PROVE Dropped(o, n)[j - 1] = o[j - 1] /\ j <= n
  <2>1. j - 1 \in 1 .. n - 1
    BY <1>3, <1>12
  <2> QED BY <1>3, <2>1 DEF Dropped
<1> HIDE DEF Members
<1> QED BY <1>5, <1>10, <1>11, <1>12

-----------------------------------------------------------------------------
(* The inode cache is created full.                                        *)

IsFilled(n, f) == f = [m \in 0 .. n |-> IF m = 0 THEN EmptyStack ELSE Push(f[m - 1], -m)]

LEMMA FilledExists ==
  ASSUME NEW n \in Nat
  PROVE  \E f : IsFilled(n, f)
<1> DEFINE Bad == { m \in Nat : ~ \E f : IsFilled(m, f) }
<1> SUFFICES ASSUME Bad # {} PROVE FALSE
  OBVIOUS
<1>1. PICK m \in Bad : \A j \in Nat : j < m => j \notin Bad
  BY LeastOf
<1>2. m \in Nat
  OBVIOUS
<1>3. m # 0
  <2> DEFINE f == [j \in 0 .. 0 |-> EmptyStack]
  <2>1. IsFilled(0, f)
    BY DEF IsFilled
  <2> QED BY <2>1
<1>4. m - 1 \in Nat /\ m - 1 \notin Bad
  BY <1>1, <1>2, <1>3
<1>5. PICK f : IsFilled(m - 1, f)
  BY <1>4
<1> DEFINE g == [j \in 0 .. m |-> IF j < m THEN f[j] ELSE Push(f[m - 1], -m)]
<1>6. ASSUME NEW j \in 0 .. m
      PROVE  g[j] = IF j = 0 THEN EmptyStack ELSE Push(g[j - 1], -j)
  <2>1. CASE j = m
    <3>1. m - 1 \in 0 .. m /\ m - 1 < m /\ m \in 0 .. m /\ ~(m < m)
      BY <1>2, <1>3
    <3>2. g[m] = Push(f[m - 1], -m) /\ g[m - 1] = f[m - 1]
      BY <3>1
    <3> HIDE DEF g
    <3> QED BY <1>3, <2>1, <3>2
  <2>2. CASE j # m
    <3>1. j < m /\ j \in 0 .. m - 1
      BY <1>2, <2>2
    <3>2. f[j] = IF j = 0 THEN EmptyStack ELSE Push(f[j - 1], -j)
      BY <1>5, <3>1 DEF IsFilled
    <3>3. g[j] = f[j]
      BY <3>1
    <3>4. j # 0 => g[j - 1] = f[j - 1]
      <4> SUFFICES ASSUME j # 0 PROVE g[j - 1] = f[j - 1]
        OBVIOUS
      <4>1. j - 1 \in 0 .. m /\ j - 1 < m
        BY <1>2, <3>1
      <4> QED BY <4>1
    <3> HIDE DEF g
    <3> QED BY <3>2, <3>3, <3>4
  <2> QED BY <2>1, <2>2
<1>7. IsFilled(m, g)
  <2>1. g = [j \in 0 .. m |-> g[j]]
    OBVIOUS
  <2> HIDE DEF g
  <2> QED BY <1>6, <2>1 DEF IsFilled
<1> QED BY <1>2, <1>7

LEMMA EmptyChain == Stack(EmptyStack, 0) /\ Members(EmptyStack) = {}
<1> DEFINE o == [j \in 1 .. 0 |-> 0]
<1>1. 1 .. 0 = {}
  OBVIOUS
<1>2. DOMAIN EmptyStack.next = {} /\ DOMAIN EmptyStack.prev = {}
  BY DEF EmptyStack
<1>3. EmptyStack.next = [x \in {} |-> EmptyStack.next[x]] /\ EmptyStack.prev = [x \in {} |-> EmptyStack.prev[x]]
  BY DEF EmptyStack
<1>4. IsStack(EmptyStack)
  <2>1. EmptyStack = [top |-> EmptyStack.top, base |-> EmptyStack.base,
                      prev |-> EmptyStack.prev, next |-> EmptyStack.next]
    BY DEF EmptyStack
  <2> QED BY <1>2, <1>3, <2>1 DEF IsStack
<1>5. o \in [1 .. 0 -> DOMAIN EmptyStack.next]
  BY <1>1
<1>6. Chain(EmptyStack, 0, o)
  <2> HIDE DEF o
  <2> QED BY <1>1, <1>2, <1>4, <1>5 DEF Chain
<1> QED BY <1>2, <1>6 DEF Stack, Members

\* The new inode cache is a full list of entries for no inode.
LEMMA DummiesStack == Stack(Dummies, InodeCap) /\ Members(Dummies) \cap Nat = {}
<1>1. InodeCap \in Nat
  BY CacheAssumption
<1> DEFINE f == CHOOSE g : IsFilled(InodeCap, g)
<1>2. IsFilled(InodeCap, f)
  BY <1>1, FilledExists
<1>3. Dummies = f[InodeCap]
  BY DEF Dummies, IsFilled
<1> HIDE DEF f
<1> DEFINE Good(m) == Stack(f[m], m) /\ \A x \in Members(f[m]) : x \in Int /\ x < 0 /\ x >= -m
           Bad == { m \in Nat : m <= InodeCap /\ ~Good(m) }
<1>4. Bad = {}
  <2> SUFFICES ASSUME Bad # {} PROVE FALSE
    OBVIOUS
  <2>1. PICK m \in Bad : \A j \in Nat : j < m => j \notin Bad
    <3>1. Bad \in SUBSET Nat
      OBVIOUS
    <3> HIDE DEF Bad
    <3> QED BY <3>1, LeastOf
  <2>2. m \in Nat /\ m <= InodeCap /\ m \in 0 .. InodeCap /\ ~Good(m)
    BY <1>1, <2>1
  <2>3. m # 0
    <3>1. 0 \in 0 .. InodeCap
      BY <1>1
    <3>2. f[0] = EmptyStack
      BY <1>2, <3>1 DEF IsFilled
    <3>3. Good(0)
      BY <3>2, EmptyChain
    <3> HIDE DEF Good
    <3> QED BY <2>2, <3>3
  <2>4. m - 1 \in Nat /\ m - 1 < m /\ m - 1 <= InodeCap
    BY <1>1, <2>2, <2>3
  <2>5. Good(m - 1)
    BY <2>1, <2>4
  <2>6. f[m] = Push(f[m - 1], -m)
    BY <1>2, <2>2, <2>3 DEF IsFilled
  <2>7. -m \in Int /\ -m # Null /\ -m \notin Members(f[m - 1]) /\ -m < 0 /\ m - 1 + 1 = m
    BY <2>2, <2>3, <2>4, <2>5, NullAssumption
  <2>8. Stack(f[m], m) /\ Members(f[m]) = Members(f[m - 1]) \cup {-m}
    BY <2>5, <2>6, <2>7, StackPush
  <2>9. Good(m)
    BY <2>2, <2>4, <2>5, <2>7, <2>8
  <2> QED BY <2>2, <2>9
<1>5. Good(InodeCap)
  BY <1>1, <1>4
<1> QED BY <1>1, <1>3, <1>5

-----------------------------------------------------------------------------
(* The state of the caches, with m inodes and n blocks.                    *)

IsCache(c) ==
  c = [inodes |-> c.inodes, idirty |-> c.idirty, blocks |-> c.blocks, bdirty |-> c.bdirty,
       buf |-> c.buf, loose |-> c.loose, disk |-> c.disk]

Copy(b) == [Slots(b) -> SUBSET Parts]

Contents(c) ==
  /\ c.disk = [b \in Blocks |-> c.disk[b]]
  /\ \A b \in Blocks : c.disk[b] \in Copy(b)
  /\ c.buf = [b \in Members(c.blocks) |-> c.buf[b]]
  /\ \A b \in Members(c.blocks) : c.buf[b] \in Copy(b)
  /\ c.loose = [i \in DOMAIN c.loose |-> c.loose[i]]
  /\ \A i \in DOMAIN c.loose : c.loose[i] \in SUBSET Parts

Shape(c, m, n) ==
  /\ IsCache(c) /\ Contents(c)
  /\ Stack(c.inodes, m) /\ 0 \notin Members(c.inodes)
  /\ Stack(c.blocks, n) /\ n <= BlockCap /\ Members(c.blocks) \subseteq Blocks
  /\ c.bdirty \subseteq Members(c.blocks)
  /\ c.idirty \subseteq Members(c.inodes) \cap Inodes
  /\ DOMAIN c.loose \subseteq Members(c.inodes) \cap Inodes
  /\ \A i \in Members(c.inodes) \cap Inodes : i \in DOMAIN c.loose \/ Home(i) \in Members(c.blocks)

Shaped(c, m) == \E n : Shape(c, m, n)

\* What can be watched, and its copies.
IsPlace(b, s) == (s \in Inodes /\ b = Home(s)) \/ (b \in DataBlocks /\ s = 0)

Held(c, b, s) == IF b \in Members(c.blocks) THEN c.buf[b][s] ELSE c.disk[b][s]

Seen(c, b, s) == IF s \in Members(c.inodes) THEN View(c, s) ELSE Held(c, b, s)

\* The copy on disk has no change that the one in the buffer lacks, and that
\* none that a handler does not see; the parts F are seen, and where they are
\* not on the disk they are on their way.
Safe(c, b, s, F) ==
  /\ c.disk[b][s] \subseteq Held(c, b, s) /\ Held(c, b, s) \subseteq Seen(c, b, s)
  /\ F \subseteq Seen(c, b, s)
  /\ \A part \in F \ c.disk[b][s] : s \in c.idirty \/ (b \in c.bdirty /\ part \in Held(c, b, s))

LEMMA PlaceFacts ==
  /\ \A i \in Inodes : i # 0 /\ i \in Int /\ Home(i) \in Blocks /\ i \in Slots(Home(i))
                       /\ Home(i) \notin DataBlocks /\ Home(i) # Null
  /\ \A b \in DataBlocks : 0 \in Slots(b) /\ b \in Blocks
  /\ \A b \in Blocks : b \in Int /\ b # Null
<1>1. \A i \in Inodes : i \in Nat /\ i # 0 /\ Home(i) \notin DataBlocks
  BY CacheAssumption
<1>2. \A i \in Inodes : Home(i) \in Blocks /\ i \in Slots(Home(i))
  BY <1>1 DEF Blocks, Slots
<1>3. \A b \in DataBlocks : 0 \in Slots(b) /\ b \in Blocks
  BY DEF Slots, Blocks
<1>4. ASSUME NEW i \in Inodes PROVE Home(i) \in Int
  <2>1. PerBlock \in Nat \ {0} /\ i \in Nat
    BY <1>1, CacheAssumption
  <2>2. i \div PerBlock \in Int
    BY <2>1
  <2> QED BY <2>2 DEF Home
<1>5. \A b \in Blocks : b \in Int
  <2>1. DataBlocks \subseteq Nat
    BY CacheAssumption
  <2> SUFFICES ASSUME NEW b \in Blocks PROVE b \in Int
    OBVIOUS
  <2>2. b \in DataBlocks \/ \E i \in Inodes : b = Home(i)
    BY DEF Blocks
  <2>3. b \in DataBlocks => b \in Int
    BY <2>1
  <2> HIDE DEF Blocks
  <2> QED BY <1>4, <2>2, <2>3
<1> QED BY <1>1, <1>2, <1>3, <1>5, NullAssumption

\* An inode has a slot in one block only.
LEMMA SlotOf ==
  ASSUME NEW i \in Inodes, NEW b \in Blocks, i \in Slots(b)
  PROVE  b = Home(i)
<1>1. i # 0
  BY PlaceFacts
<1> QED BY <1>1 DEF Slots

LEMMA EvictFields ==
  ASSUME NEW c, NEW m, NEW n, Shape(c, m, n), n > 0
  PROVE  /\ IsCache(EvictBlock(c))
         /\ EvictBlock(c).inodes = c.inodes /\ EvictBlock(c).idirty = c.idirty
         /\ EvictBlock(c).blocks = Drop(c.blocks)
         /\ EvictBlock(c).bdirty = c.bdirty \ {c.blocks.base}
         /\ EvictBlock(c).buf = [b \in Members(c.blocks) \ {c.blocks.base} |-> c.buf[b]]
         /\ EvictBlock(c).disk = [b \in Blocks |-> IF b = c.blocks.base /\ b \in c.bdirty
                                                   THEN c.buf[b] ELSE c.disk[b]]
         /\ \A i : i \in DOMAIN EvictBlock(c).loose
                   <=> \/ i \in DOMAIN c.loose
                       \/ i \in Members(c.inodes) \cap Inodes /\ Home(i) = c.blocks.base
         /\ EvictBlock(c).loose = [i \in DOMAIN EvictBlock(c).loose |-> View(c, i)]
<1> DEFINE e == EvictBlock(c)
           base == c.blocks.base
           held == { i \in Members(c.inodes) \cap Inodes : Home(i) = base } \ DOMAIN c.loose
           disk == IF base \in c.bdirty THEN [c.disk EXCEPT ![base] = c.buf[base]] ELSE c.disk
           buf == Restrict(c.buf, DOMAIN c.buf \ {base})
           loose == [i \in DOMAIN c.loose \cup held |-> View(c, i)]
<1>1. e = [c EXCEPT !.blocks = Drop(c.blocks), !.disk = disk, !.bdirty = c.bdirty \ {base},
                    !.buf = buf, !.loose = loose]
  BY DEF EvictBlock
<1>2. IsCache(c) /\ c.disk = [b \in Blocks |-> c.disk[b]] /\ base \in Blocks
      /\ DOMAIN c.buf = Members(c.blocks)
  BY StackFacts DEF Shape, Contents
<1>3. disk = [b \in Blocks |-> IF b = base /\ b \in c.bdirty THEN c.buf[b] ELSE c.disk[b]]
  <2>1. CASE base \in c.bdirty
    BY <1>2, <2>1
  <2>2. CASE base \notin c.bdirty
    BY <1>2, <2>2
  <2> QED BY <2>1, <2>2
<1>4. buf = [b \in Members(c.blocks) \ {base} |-> c.buf[b]]
  BY <1>2 DEF Restrict
<1>5. DOMAIN loose = DOMAIN c.loose \cup held /\ loose = [i \in DOMAIN loose |-> View(c, i)]
  OBVIOUS
<1>6. \A i : i \in DOMAIN c.loose \cup held
             <=> i \in DOMAIN c.loose \/ (i \in Members(c.inodes) \cap Inodes /\ Home(i) = base)
  OBVIOUS
<1> HIDE DEF loose, buf, disk, held, e
<1>7. e = [inodes |-> c.inodes, idirty |-> c.idirty, blocks |-> Drop(c.blocks),
           bdirty |-> c.bdirty \ {base}, buf |-> buf, loose |-> loose, disk |-> disk]
  <2> HIDE DEF base
  <2> QED BY <1>1, <1>2 DEF IsCache
<1>8. /\ e.inodes = c.inodes /\ e.idirty = c.idirty /\ e.blocks = Drop(c.blocks)
      /\ e.bdirty = c.bdirty \ {base} /\ e.buf = buf /\ e.loose = loose /\ e.disk = disk
  BY <1>7
<1>9. IsCache(e)
  BY <1>7, <1>8 DEF IsCache
<1> QED BY <1>3, <1>4, <1>5, <1>6, <1>8, <1>9 DEF e

\* The block cache makes room for another block.
LEMMA EvictShape ==
  ASSUME NEW c, NEW m, NEW n, Shape(c, m, n), n > 1
  PROVE  /\ Shape(EvictBlock(c), m, n - 1)
         /\ EvictBlock(c).inodes = c.inodes /\ EvictBlock(c).idirty = c.idirty
         /\ DOMAIN c.loose \subseteq DOMAIN EvictBlock(c).loose
         /\ Members(EvictBlock(c).blocks) = Members(c.blocks) \ {c.blocks.base}
         /\ c.blocks.top \in Members(EvictBlock(c).blocks)
<1> DEFINE e == EvictBlock(c)
           base == c.blocks.base
<1>0. n \in Nat /\ n > 0
  BY StackFacts DEF Shape
<1>1. /\ IsCache(e) /\ e.inodes = c.inodes /\ e.idirty = c.idirty
      /\ e.blocks = Drop(c.blocks) /\ e.bdirty = c.bdirty \ {base}
      /\ e.buf = [b \in Members(c.blocks) \ {base} |-> c.buf[b]]
      /\ e.disk = [b \in Blocks |-> IF b = base /\ b \in c.bdirty THEN c.buf[b] ELSE c.disk[b]]
      /\ \A i : i \in DOMAIN e.loose
                <=> i \in DOMAIN c.loose \/ (i \in Members(c.inodes) \cap Inodes /\ Home(i) = base)
      /\ e.loose = [i \in DOMAIN e.loose |-> View(c, i)]
  BY <1>0, EvictFields
<1> HIDE DEF e
<1>2. Stack(e.blocks, n - 1) /\ Members(e.blocks) = Members(c.blocks) \ {base}
  BY <1>1, StackDrop DEF Shape
<1>3. base \in Members(c.blocks) /\ c.blocks.top \in Members(c.blocks) /\ c.blocks.top # base
  BY <1>0, StackFacts DEF Shape
<1>4. ASSUME NEW i \in DOMAIN e.loose PROVE e.loose[i] \in SUBSET Parts
  <2>1. e.loose[i] = View(c, i)
    BY <1>1
  <2>2. CASE i \in DOMAIN c.loose
    BY <2>1, <2>2 DEF View, Shape, Contents
  <2>3. CASE i \notin DOMAIN c.loose
    <3>1. i \in Inodes /\ Home(i) = base /\ c.buf[base] \in Copy(base)
      BY <1>1, <1>3, <2>3 DEF Shape, Contents
    <3>2. i \in Slots(base)
      BY <3>1, PlaceFacts
    <3> QED BY <2>1, <2>3, <3>1, <3>2 DEF View, Copy
  <2> QED BY <2>2, <2>3
<1>5. Contents(e)
  <2>1. \A b \in Blocks : e.disk[b] \in Copy(b)
    BY <1>1, <1>3 DEF Shape, Contents
  <2>2. \A b \in Members(e.blocks) : e.buf[b] \in Copy(b)
    BY <1>1, <1>2 DEF Shape, Contents
  <2>3. /\ e.disk = [b \in Blocks |-> e.disk[b]]
        /\ e.buf = [b \in Members(e.blocks) |-> e.buf[b]]
        /\ e.loose = [i \in DOMAIN e.loose |-> e.loose[i]]
    BY <1>1, <1>2
  <2> QED BY <1>4, <2>1, <2>2, <2>3 DEF Contents
<1>6. \A i \in Members(e.inodes) \cap Inodes : i \in DOMAIN e.loose \/ Home(i) \in Members(e.blocks)
  BY <1>1, <1>2 DEF Shape
<1>7. DOMAIN e.loose \subseteq Members(e.inodes) \cap Inodes /\ e.idirty \subseteq Members(e.inodes) \cap Inodes
  BY <1>1 DEF Shape
<1>8. Stack(e.inodes, m) /\ 0 \notin Members(e.inodes) /\ n - 1 <= BlockCap
  <2>1. BlockCap \in Nat /\ n <= BlockCap
    BY CacheAssumption DEF Shape
  <2> QED BY <1>0, <1>1, <2>1 DEF Shape
<1>9. Members(e.blocks) \subseteq Blocks /\ e.bdirty \subseteq Members(e.blocks)
  BY <1>1, <1>2 DEF Shape
<1>10. Shape(e, m, n - 1)
  BY <1>1, <1>2, <1>5, <1>6, <1>7, <1>8, <1>9 DEF Shape
<1> QED BY <1>1, <1>2, <1>3, <1>10 DEF e

LEMMA EvictSafe ==
  ASSUME NEW c, NEW m, NEW n, Shape(c, m, n), n > 1,
         NEW b, NEW s, IsPlace(b, s), NEW F, Safe(c, b, s, F)
  PROVE  Safe(EvictBlock(c), b, s, F)
<1> DEFINE e == EvictBlock(c)
           base == c.blocks.base
<1>0. n \in Nat /\ n > 0
  BY StackFacts DEF Shape
<1>1. /\ e.inodes = c.inodes /\ e.idirty = c.idirty
      /\ e.bdirty = c.bdirty \ {base}
      /\ e.buf = [x \in Members(c.blocks) \ {base} |-> c.buf[x]]
      /\ e.disk = [x \in Blocks |-> IF x = base /\ x \in c.bdirty THEN c.buf[x] ELSE c.disk[x]]
      /\ \A i : i \in DOMAIN e.loose
                <=> i \in DOMAIN c.loose \/ (i \in Members(c.inodes) \cap Inodes /\ Home(i) = base)
      /\ e.loose = [i \in DOMAIN e.loose |-> View(c, i)]
      /\ Members(e.blocks) = Members(c.blocks) \ {base}
  BY <1>0, EvictFields, EvictShape
<1> HIDE DEF e
<1> SUFFICES Safe(e, b, s, F)
  BY DEF e
<1>2. b \in Blocks /\ (s \in Inodes => b = Home(s)) /\ (s \notin Inodes => s = 0)
  BY PlaceFacts DEF IsPlace
<1>3. base \in Members(c.blocks)
  BY <1>0, StackFacts DEF Shape
<1>4. /\ c.disk[b][s] \subseteq Held(c, b, s) /\ Held(c, b, s) \subseteq Seen(c, b, s)
      /\ F \subseteq Seen(c, b, s)
      /\ \A part \in F \ c.disk[b][s] : s \in c.idirty \/ (b \in c.bdirty /\ part \in Held(c, b, s))
  BY DEF Safe
<1>5. s \in Members(c.inodes) => s \in Inodes /\ Seen(e, b, s) = Seen(c, b, s)
  <2> SUFFICES ASSUME s \in Members(c.inodes) PROVE s \in Inodes /\ Seen(e, b, s) = Seen(c, b, s)
    OBVIOUS
  <2>1. s \in Inodes /\ b = Home(s)
    BY <1>2 DEF Shape
  <2>2. Seen(e, b, s) = View(e, s) /\ Seen(c, b, s) = View(c, s)
    BY <1>1 DEF Seen
  <2>3. CASE s \in DOMAIN e.loose
    <3>1. View(e, s) = e.loose[s]
      BY <2>3 DEF View
    <3> QED BY <1>1, <2>1, <2>2, <2>3, <3>1
  <2>4. CASE s \notin DOMAIN e.loose
    <3>1. s \notin DOMAIN c.loose /\ b # base /\ b \in Members(c.blocks)
      BY <1>1, <2>1, <2>4 DEF Shape
    <3>2. View(e, s) = e.buf[b][s] /\ View(c, s) = c.buf[b][s]
      BY <2>1, <2>4, <3>1 DEF View
    <3> QED BY <1>1, <2>1, <2>2, <3>1, <3>2
  <2> QED BY <2>3, <2>4
<1>6. s \notin Members(c.inodes) => /\ Seen(e, b, s) = Held(e, b, s) /\ Seen(c, b, s) = Held(c, b, s)
                                    /\ s \notin c.idirty
  BY <1>1 DEF Seen, Shape
<1>7. CASE b # base
  <2>1. e.disk[b] = c.disk[b] /\ (b \in c.bdirty <=> b \in e.bdirty)
    BY <1>1, <1>2, <1>7
  <2>2. Held(e, b, s) = Held(c, b, s)
    BY <1>1, <1>7, <2>1 DEF Held
  <2> QED BY <1>1, <1>4, <1>5, <1>6, <2>1, <2>2 DEF Safe
<1>8. CASE b = base
  <2>1. b \notin Members(e.blocks) /\ b \notin e.bdirty /\ Held(c, b, s) = c.buf[b][s] /\ Held(e, b, s) = e.disk[b][s]
    BY <1>1, <1>3, <1>8 DEF Held
  <2>2. e.disk[b] = IF b \in c.bdirty THEN c.buf[b] ELSE c.disk[b]
    BY <1>1, <1>2, <1>8
  <2>3. CASE b \in c.bdirty
    BY <1>1, <1>4, <1>5, <1>6, <2>1, <2>2, <2>3 DEF Safe
  <2>4. CASE b \notin c.bdirty
    BY <1>1, <1>4, <1>5, <1>6, <2>1, <2>2, <2>4 DEF Safe
  <2> QED BY <2>3, <2>4
<1> QED BY <1>7, <1>8

\* A hit in the block cache.
LEMMA HitShape ==
  ASSUME NEW c, NEW m, NEW n, Shape(c, m, n), NEW b \in Members(c.blocks)
  PROVE  LET h == [c EXCEPT !.blocks = Raise(@, b)]
         IN /\ Shape(h, m, n) /\ h.inodes = c.inodes /\ h.idirty = c.idirty /\ h.bdirty = c.bdirty
            /\ h.buf = c.buf /\ h.loose = c.loose /\ h.disk = c.disk
            /\ Members(h.blocks) = Members(c.blocks) /\ h.blocks.top = b
<1> DEFINE up == Raise(c.blocks, b)
           h == [c EXCEPT !.blocks = up]
<1>1. Stack(up, n) /\ Members(up) = Members(c.blocks) /\ up.top = b
  BY StackRaise DEF Shape
<1> HIDE DEF up
<1>2. h = [inodes |-> c.inodes, idirty |-> c.idirty, blocks |-> up, bdirty |-> c.bdirty,
           buf |-> c.buf, loose |-> c.loose, disk |-> c.disk]
  BY DEF Shape, IsCache
<1> HIDE DEF h
<1>3. /\ h.inodes = c.inodes /\ h.idirty = c.idirty /\ h.bdirty = c.bdirty /\ h.blocks = up
      /\ h.buf = c.buf /\ h.loose = c.loose /\ h.disk = c.disk
  BY <1>2
<1>4. IsCache(h)
  BY <1>2, <1>3 DEF IsCache
<1>5. Contents(h)
  BY <1>1, <1>3 DEF Shape, Contents
<1>6. Shape(h, m, n)
  BY <1>1, <1>3, <1>4, <1>5 DEF Shape
<1> QED BY <1>1, <1>3, <1>6 DEF h, up

\* A miss, when there is room.
Fetched(r, b) == [r EXCEPT !.blocks = Push(@, b), !.buf = With(@, b, r.disk[b])]

\* What is in h when b was fetched into c.
BlockFetched(h, c, b) ==
  /\ h.inodes = c.inodes /\ h.idirty = c.idirty /\ h.bdirty = c.bdirty
  /\ h.buf = [x \in Members(c.blocks) \cup {b} |-> IF x = b THEN c.disk[b] ELSE c.buf[x]]
  /\ h.loose = c.loose /\ h.disk = c.disk
  /\ Members(h.blocks) = Members(c.blocks) \cup {b} /\ h.blocks.top = b

LEMMA FetchShape ==
  ASSUME NEW c, NEW m, NEW n, Shape(c, m, n), n < BlockCap, NEW b \in Blocks, b \notin Members(c.blocks)
  PROVE  Shape(Fetched(c, b), m, n + 1) /\ BlockFetched(Fetched(c, b), c, b)
<1> DEFINE up == Push(c.blocks, b)
           buf == With(c.buf, b, c.disk[b])
           h == Fetched(c, b)
<1>1. Stack(up, n + 1) /\ Members(up) = Members(c.blocks) \cup {b} /\ up.top = b
  BY PlaceFacts, StackPush DEF Shape
<1>2. buf = [x \in Members(c.blocks) \cup {b} |-> IF x = b THEN c.disk[b] ELSE c.buf[x]]
  <2>1. DOMAIN c.buf = Members(c.blocks)
    BY DEF Shape, Contents
  <2> QED BY <2>1 DEF With
<1>3. h = [c EXCEPT !.blocks = up, !.buf = buf]
  BY DEF Fetched
<1> HIDE DEF up, buf, h
<1>4. h = [inodes |-> c.inodes, idirty |-> c.idirty, blocks |-> up, bdirty |-> c.bdirty,
           buf |-> buf, loose |-> c.loose, disk |-> c.disk]
  BY <1>3 DEF Shape, IsCache
<1>5. /\ h.inodes = c.inodes /\ h.idirty = c.idirty /\ h.bdirty = c.bdirty /\ h.blocks = up
      /\ h.buf = buf /\ h.loose = c.loose /\ h.disk = c.disk
  BY <1>4
<1>6. IsCache(h)
  BY <1>4, <1>5 DEF IsCache
<1>7. Contents(h)
  <2>1. \A x \in Members(h.blocks) : h.buf[x] \in Copy(x)
    BY <1>1, <1>2, <1>5 DEF Shape, Contents
  <2>2. h.buf = [x \in Members(h.blocks) |-> h.buf[x]]
    BY <1>1, <1>2, <1>5
  <2> QED BY <1>5, <2>1, <2>2 DEF Shape, Contents
<1>8. n + 1 <= BlockCap
  BY StackFacts, CacheAssumption DEF Shape
<1>9. \A i \in Members(h.inodes) \cap Inodes : i \in DOMAIN h.loose \/ Home(i) \in Members(h.blocks)
  BY <1>1, <1>5 DEF Shape
<1>10. Shape(h, m, n + 1)
  BY <1>1, <1>5, <1>6, <1>7, <1>8, <1>9 DEF Shape
<1> QED BY <1>1, <1>2, <1>5, <1>10 DEF h, BlockFetched

LEMMA FetchSafe ==
  ASSUME NEW c, NEW m, NEW n, Shape(c, m, n), n < BlockCap, NEW x \in Blocks, x \notin Members(c.blocks),
         NEW b, NEW s, IsPlace(b, s), NEW F, Safe(c, b, s, F)
  PROVE  Safe(Fetched(c, x), b, s, F)
<1> DEFINE h == Fetched(c, x)
<1>1. /\ h.inodes = c.inodes /\ h.idirty = c.idirty /\ h.bdirty = c.bdirty
      /\ h.buf = [y \in Members(c.blocks) \cup {x} |-> IF y = x THEN c.disk[x] ELSE c.buf[y]]
      /\ h.loose = c.loose /\ h.disk = c.disk
      /\ Members(h.blocks) = Members(c.blocks) \cup {x}
  BY FetchShape DEF BlockFetched
<1> HIDE DEF h
<1> SUFFICES Safe(h, b, s, F)
  BY DEF h
<1>2. Held(h, b, s) = Held(c, b, s)
  BY <1>1 DEF Held
<1>3. Seen(h, b, s) = Seen(c, b, s)
  <2>1. CASE s \in Members(c.inodes) /\ s \notin DOMAIN c.loose
    <3>1. s \in Inodes /\ Home(s) \in Members(c.blocks)
      BY <2>1 DEF Shape, IsPlace
    <3> QED BY <1>1, <2>1, <3>1 DEF Seen, View
  <2>2. CASE s \in Members(c.inodes) /\ s \in DOMAIN c.loose
    BY <1>1, <2>2 DEF Seen, View
  <2>3. CASE s \notin Members(c.inodes)
    BY <1>1, <1>2, <2>3 DEF Seen
  <2> QED BY <2>1, <2>2, <2>3
<1> QED BY <1>1, <1>2, <1>3 DEF Safe

\* GetBlock leaves the caches in shape, with the block on top, and the block
\* that was on top before still cached; no inode is touched, and nothing lost.
LEMMA GetBlockShape ==
  ASSUME NEW c, NEW m, Shaped(c, m), NEW b \in Blocks
  PROVE  LET g == GetBlock(c, b)
         IN /\ Shaped(g, m) /\ g.inodes = c.inodes /\ g.idirty = c.idirty
            /\ DOMAIN c.loose \subseteq DOMAIN g.loose
            /\ b \in Members(g.blocks) /\ g.blocks.top = b
            /\ c.blocks.top \in Members(c.blocks) => c.blocks.top \in Members(g.blocks)
            /\ \A p, s, F : IsPlace(p, s) /\ Safe(c, p, s, F) => Safe(g, p, s, F)
<1> DEFINE g == GetBlock(c, b)
<1>1. PICK n : Shape(c, m, n)
  BY DEF Shaped
<1>2. BlockCap \in Nat /\ BlockCap > 1 /\ n \in Nat /\ n <= BlockCap /\ Cardinality(Members(c.blocks)) = n
  BY <1>1, CacheAssumption, StackFacts DEF Shape
<1>3. CASE b \in Members(c.blocks)
  <2> DEFINE h == [c EXCEPT !.blocks = Raise(@, b)]
  <2>1. g = h
    BY <1>3 DEF GetBlock
  <2>2. /\ Shape(h, m, n) /\ h.inodes = c.inodes /\ h.idirty = c.idirty /\ h.bdirty = c.bdirty
        /\ h.buf = c.buf /\ h.loose = c.loose /\ h.disk = c.disk
        /\ Members(h.blocks) = Members(c.blocks) /\ h.blocks.top = b
    BY <1>1, <1>3, HitShape
  <2> HIDE DEF h, g
  <2>3. ASSUME NEW p, NEW s, NEW F, Safe(c, p, s, F) PROVE Safe(h, p, s, F)
    <3>1. Held(h, p, s) = Held(c, p, s) /\ View(h, s) = View(c, s)
      BY <2>2 DEF Held, View
    <3>2. Seen(h, p, s) = Seen(c, p, s)
      BY <2>2, <3>1 DEF Seen
    <3> QED BY <2>2, <2>3, <3>1, <3>2 DEF Safe
  <2>4. Shaped(h, m)
    BY <2>2 DEF Shaped
  <2>5. /\ Shaped(g, m) /\ g.inodes = c.inodes /\ g.idirty = c.idirty
        /\ DOMAIN c.loose \subseteq DOMAIN g.loose
        /\ b \in Members(g.blocks) /\ g.blocks.top = b
        /\ c.blocks.top \in Members(c.blocks) => c.blocks.top \in Members(g.blocks)
        /\ \A p, s, F : IsPlace(p, s) /\ Safe(c, p, s, F) => Safe(g, p, s, F)
    BY <1>3, <2>1, <2>2, <2>3, <2>4
  <2> QED BY <2>5 DEF g
<1>4. CASE b \notin Members(c.blocks)
  <2> DEFINE room == IF n = BlockCap THEN EvictBlock(c) ELSE c
             k == IF n = BlockCap THEN n - 1 ELSE n
  <2>1. g = Fetched(room, b)
    BY <1>2, <1>4 DEF GetBlock, Fetched
  <2>2. /\ Shape(room, m, k) /\ room.inodes = c.inodes /\ room.idirty = c.idirty
        /\ DOMAIN c.loose \subseteq DOMAIN room.loose /\ b \notin Members(room.blocks)
        /\ c.blocks.top \in Members(c.blocks) => c.blocks.top \in Members(room.blocks)
    <3>1. CASE n = BlockCap
      BY <1>1, <1>2, <1>4, <3>1, EvictShape
    <3>2. CASE n # BlockCap
      BY <1>1, <1>4, <3>2
    <3> QED BY <3>1, <3>2
  <2>3. \A p, s, F : IsPlace(p, s) /\ Safe(c, p, s, F) => Safe(room, p, s, F)
    <3>1. CASE n = BlockCap
      BY <1>1, <1>2, <3>1, EvictSafe
    <3>2. CASE n # BlockCap
      BY <3>2
    <3> QED BY <3>1, <3>2
  <2>4. k < BlockCap
    BY <1>2
  <2> HIDE DEF room, k, g
  <2> DEFINE h == Fetched(room, b)
  <2>50. Shape(h, m, k + 1) /\ BlockFetched(h, room, b)
    BY <2>2, <2>4, FetchShape
  <2>6. \A p, s, F : IsPlace(p, s) /\ Safe(room, p, s, F) => Safe(h, p, s, F)
    BY <2>2, <2>4, FetchSafe
  <2> HIDE DEF h
  <2>5. /\ h.inodes = room.inodes /\ h.idirty = room.idirty
        /\ h.loose = room.loose
        /\ Members(h.blocks) = Members(room.blocks) \cup {b} /\ h.blocks.top = b
    BY <2>50 DEF BlockFetched
  <2>7. Shaped(h, m)
    BY <2>50 DEF Shaped
  <2>8. g = h
    BY <2>1 DEF h
  <2>9. /\ Shaped(g, m) /\ g.inodes = c.inodes /\ g.idirty = c.idirty
        /\ DOMAIN c.loose \subseteq DOMAIN g.loose
        /\ b \in Members(g.blocks) /\ g.blocks.top = b
        /\ c.blocks.top \in Members(c.blocks) => c.blocks.top \in Members(g.blocks)
        /\ \A p, s, F : IsPlace(p, s) /\ Safe(c, p, s, F) => Safe(g, p, s, F)
    BY <2>2, <2>3, <2>5, <2>6, <2>7, <2>8
  <2> QED BY <2>9 DEF g
<1> QED BY <1>3, <1>4

-----------------------------------------------------------------------------
(* Inodes are copied into their blocks.                                    *)

\* The place of inode i in the buffer of its block gets the contents v.
Written(c, i, v) ==
  [c EXCEPT !.buf[Home(i)][i] = v, !.bdirty = @ \cup {Home(i)}, !.idirty = @ \ {i}]

LEMMA WrittenShape ==
  ASSUME NEW c, NEW m, NEW n, Shape(c, m, n), NEW i \in Inodes, Home(i) \in Members(c.blocks),
         NEW v \in SUBSET Parts
  PROVE  LET h == Written(c, i, v)
         IN /\ Shape(h, m, n) /\ h.inodes = c.inodes /\ h.idirty = c.idirty \ {i}
            /\ h.blocks = c.blocks /\ h.bdirty = c.bdirty \cup {Home(i)}
            /\ h.loose = c.loose /\ h.disk = c.disk
            /\ \A x \in Members(c.blocks) : \A y \in Slots(x) :
                 h.buf[x][y] = IF x = Home(i) /\ y = i THEN v ELSE c.buf[x][y]
<1> DEFINE b == Home(i)
           copy == [c.buf[b] EXCEPT ![i] = v]
           buf == [c.buf EXCEPT ![b] = copy]
           h == Written(c, i, v)
<1>1. /\ c.buf = [x \in Members(c.blocks) |-> c.buf[x]]
      /\ \A x \in Members(c.blocks) : c.buf[x] \in Copy(x)
  BY DEF Shape, Contents
<1>2. c.buf[b] \in [Slots(b) -> SUBSET Parts] /\ i \in Slots(b)
  BY <1>1, PlaceFacts DEF Copy
<1>3. copy = [y \in Slots(b) |-> IF y = i THEN v ELSE c.buf[b][y]]
  BY <1>2
<1>4. copy \in Copy(b)
  <2> HIDE DEF copy
  <2> QED BY <1>2, <1>3 DEF Copy
<1>5. h = [c EXCEPT !.buf = buf, !.bdirty = c.bdirty \cup {b}, !.idirty = c.idirty \ {i}]
  BY DEF Written
<1> HIDE DEF copy
<1>6. buf = [x \in Members(c.blocks) |-> IF x = b THEN copy ELSE c.buf[x]]
  BY <1>1
<1> HIDE DEF buf, h
<1>7. h = [inodes |-> c.inodes, idirty |-> c.idirty \ {i}, blocks |-> c.blocks,
           bdirty |-> c.bdirty \cup {b}, buf |-> buf, loose |-> c.loose, disk |-> c.disk]
  <2> HIDE DEF b
  <2> QED BY <1>5 DEF Shape, IsCache
<1>8. /\ h.inodes = c.inodes /\ h.idirty = c.idirty \ {i} /\ h.bdirty = c.bdirty \cup {b}
      /\ h.blocks = c.blocks /\ h.buf = buf /\ h.loose = c.loose /\ h.disk = c.disk
  BY <1>7
<1>9. IsCache(h)
  BY <1>7, <1>8 DEF IsCache
<1>10. Contents(h)
  <2>1. \A x \in Members(h.blocks) : h.buf[x] \in Copy(x)
    BY <1>1, <1>4, <1>6, <1>8
  <2>2. h.buf = [x \in Members(h.blocks) |-> h.buf[x]]
    BY <1>6, <1>8
  <2> QED BY <1>8, <2>1, <2>2 DEF Shape, Contents
<1>11. Shape(h, m, n)
  BY <1>8, <1>9, <1>10 DEF Shape
<1>12. \A x \in Members(c.blocks) : \A y \in Slots(x) :
         buf[x][y] = IF x = b /\ y = i THEN v ELSE c.buf[x][y]
  BY <1>3, <1>6
<1> QED BY <1>8, <1>11, <1>12 DEF h

LEMMA WrittenCopies ==
  ASSUME NEW c, NEW m, NEW n, Shape(c, m, n), NEW i \in Inodes, Home(i) \in Members(c.blocks),
         NEW v \in SUBSET Parts, NEW b, NEW s, IsPlace(b, s)
  PROVE  LET h == Written(c, i, v)
         IN /\ Held(h, b, s) = IF s = i THEN v ELSE Held(c, b, s)
            /\ Seen(h, b, s) = IF s = i /\ i \notin DOMAIN c.loose THEN v ELSE Seen(c, b, s)
<1> DEFINE h == Written(c, i, v)
<1>1. /\ h.inodes = c.inodes /\ h.blocks = c.blocks /\ h.loose = c.loose /\ h.disk = c.disk
      /\ \A x \in Members(c.blocks) : \A y \in Slots(x) :
           h.buf[x][y] = IF x = Home(i) /\ y = i THEN v ELSE c.buf[x][y]
  BY WrittenShape
<1> HIDE DEF h
<1> SUFFICES /\ Held(h, b, s) = IF s = i THEN v ELSE Held(c, b, s)
             /\ Seen(h, b, s) = IF s = i /\ i \notin DOMAIN c.loose THEN v ELSE Seen(c, b, s)
  BY DEF h
<1>2. b \in Blocks /\ s \in Slots(b) /\ (s = i => b = Home(i)) /\ (s \in Inodes => b = Home(s))
      /\ DOMAIN c.loose \subseteq Inodes /\ DOMAIN c.loose \subseteq Members(c.inodes)
  BY PlaceFacts DEF IsPlace, Shape
<1>3. Held(h, b, s) = IF s = i THEN v ELSE Held(c, b, s)
  <2>1. CASE s = i
    BY <1>1, <1>2, <2>1 DEF Held
  <2>2. CASE s # i /\ b \in Members(c.blocks)
    <3>1. h.buf[b][s] = c.buf[b][s]
      BY <1>1, <1>2, <2>2
    <3> QED BY <1>1, <2>2, <3>1 DEF Held
  <2>3. CASE s # i /\ b \notin Members(c.blocks)
    BY <1>1, <2>3 DEF Held
  <2> QED BY <2>1, <2>2, <2>3
<1>4. CASE s \notin Members(c.inodes)
  BY <1>1, <1>2, <1>3, <1>4 DEF Seen
<1>5. CASE s \in DOMAIN c.loose
  BY <1>1, <1>2, <1>3, <1>5 DEF Seen, View
<1>6. CASE s \in Members(c.inodes) /\ s \notin DOMAIN c.loose
  <2>1. s \in Inodes /\ Home(s) = b /\ b \in Members(c.blocks)
    BY <1>2, <1>6 DEF IsPlace, Shape
  <2>2. Seen(h, b, s) = h.buf[b][s] /\ Seen(c, b, s) = c.buf[b][s]
    BY <1>1, <1>6, <2>1 DEF Seen, View
  <2>3. Held(h, b, s) = h.buf[b][s] /\ Held(c, b, s) = c.buf[b][s]
    BY <1>1, <2>1 DEF Held
  <2> QED BY <1>3, <1>6, <2>2, <2>3
<1> QED BY <1>3, <1>4, <1>5, <1>6

LEMMA ViewType ==
  ASSUME NEW c, NEW m, NEW n, Shape(c, m, n), NEW i \in Inodes, i \in Members(c.inodes)
  PROVE  View(c, i) \in SUBSET Parts
<1>1. CASE i \in DOMAIN c.loose
  BY <1>1 DEF View, Shape, Contents
<1>2. CASE i \notin DOMAIN c.loose
  <2>1. Home(i) \in Members(c.blocks) /\ c.buf[Home(i)] \in Copy(Home(i)) /\ i \in Slots(Home(i))
    BY <1>2, PlaceFacts DEF Shape, Contents
  <2> QED BY <1>2, <2>1 DEF View, Copy
<1> QED BY <1>1, <1>2

\* An inode that is written back is clean and in its block.
LEMMA WriteBackShape ==
  ASSUME NEW c, NEW m, Shaped(c, m), NEW i \in c.idirty
  PROVE  LET w == WriteBackInode(c, i)
         IN /\ Shaped(w, m) /\ w.inodes = c.inodes /\ w.idirty = c.idirty \ {i}
            /\ c.blocks.top \in Members(c.blocks) => c.blocks.top \in Members(w.blocks)
            /\ \A b, s, F : IsPlace(b, s) /\ Safe(c, b, s, F) => Safe(w, b, s, F)
<1> DEFINE g == GetBlock(c, Home(i))
           w == WriteBackInode(c, i)
<1>1. i \in Inodes /\ i \in Members(c.inodes) /\ Home(i) \in Blocks
  BY PlaceFacts DEF Shaped, Shape
<1>2. /\ Shaped(g, m) /\ g.inodes = c.inodes /\ g.idirty = c.idirty
      /\ Home(i) \in Members(g.blocks)
      /\ c.blocks.top \in Members(c.blocks) => c.blocks.top \in Members(g.blocks)
      /\ \A b, s, F : IsPlace(b, s) /\ Safe(c, b, s, F) => Safe(g, b, s, F)
  BY <1>1, GetBlockShape
<1>3. w = Written(g, i, View(g, i))
  BY DEF WriteBackInode, Written
<1> HIDE DEF g, w
<1>4. PICK n : Shape(g, m, n)
  BY <1>2 DEF Shaped
<1> DEFINE v == View(g, i)
<1>5. v \in SUBSET Parts
  BY <1>1, <1>2, <1>4, ViewType
<1>6. /\ Shape(w, m, n) /\ w.inodes = g.inodes /\ w.idirty = g.idirty \ {i}
      /\ w.blocks = g.blocks /\ w.bdirty = g.bdirty \cup {Home(i)}
      /\ w.loose = g.loose /\ w.disk = g.disk
  <2>1. w = Written(g, i, v)
    BY <1>3
  <2>2. Home(i) \in Members(g.blocks) /\ i \in Inodes
    BY <1>1, <1>2
  <2> HIDE DEF v
  <2> DEFINE h == Written(g, i, v)
  <2>3. /\ Shape(h, m, n) /\ h.inodes = g.inodes /\ h.idirty = g.idirty \ {i}
        /\ h.blocks = g.blocks /\ h.bdirty = g.bdirty \cup {Home(i)}
        /\ h.loose = g.loose /\ h.disk = g.disk
    BY <1>4, <1>5, <2>2, WrittenShape
  <2> QED BY <2>1, <2>3
<1>7. ASSUME NEW b, NEW s, NEW F, IsPlace(b, s), Safe(c, b, s, F) PROVE Safe(w, b, s, F)
  <2>1. Safe(g, b, s, F)
    BY <1>2, <1>7
  <2>2. /\ Held(w, b, s) = IF s = i THEN v ELSE Held(g, b, s)
        /\ Seen(w, b, s) = IF s = i /\ i \notin DOMAIN g.loose THEN v ELSE Seen(g, b, s)
    BY <1>1, <1>2, <1>3, <1>4, <1>5, <1>7, WrittenCopies
  <2>3. s = i => b = Home(i) /\ Seen(g, b, s) = v
    <3> SUFFICES ASSUME s = i PROVE b = Home(i) /\ Seen(g, b, s) = v
      OBVIOUS
    <3>1. b = Home(i)
      BY <1>1, <1>7, PlaceFacts DEF IsPlace
    <3> QED BY <1>1, <1>2, <3>1 DEF Seen
  <2> HIDE DEF v
  <2>4. CASE s = i
    BY <1>6, <2>1, <2>2, <2>3, <2>4 DEF Safe
  <2>5. CASE s # i
    BY <1>6, <2>1, <2>2, <2>5 DEF Safe
  <2> QED BY <2>4, <2>5
<1>8. Shaped(w, m)
  BY <1>6 DEF Shaped
<1>9. /\ Shaped(w, m) /\ w.inodes = c.inodes /\ w.idirty = c.idirty \ {i}
      /\ c.blocks.top \in Members(c.blocks) => c.blocks.top \in Members(w.blocks)
      /\ \A b, s, F : IsPlace(b, s) /\ Safe(c, b, s, F) => Safe(w, b, s, F)
  BY <1>2, <1>6, <1>7, <1>8
<1> QED BY <1>9 DEF w

\* A clean inode leaves: its copy, if loose, is gone.
LEMMA DropInode ==
  ASSUME NEW c, NEW m, Shaped(c, m), m > 1, c.inodes.base \notin c.idirty
  PROVE  LET h == [c EXCEPT !.inodes = Drop(@), !.loose = Restrict(@, DOMAIN @ \ {c.inodes.base})]
         IN /\ Shaped(h, m - 1) /\ h.inodes = Drop(c.inodes) /\ h.idirty = c.idirty
            /\ h.blocks = c.blocks
            /\ \A b, s, F : IsPlace(b, s) /\ Safe(c, b, s, F) => Safe(h, b, s, F)
<1> DEFINE base == c.inodes.base
           loose == Restrict(c.loose, DOMAIN c.loose \ {base})
           less == Drop(c.inodes)
           h == [c EXCEPT !.inodes = Drop(@), !.loose = Restrict(@, DOMAIN @ \ {c.inodes.base})]
<1>1. PICK n : Shape(c, m, n)
  BY DEF Shaped
<1>2. Stack(less, m - 1) /\ Members(less) = Members(c.inodes) \ {base}
  BY <1>1, StackDrop DEF Shape
<1>3. loose = [x \in DOMAIN c.loose \ {base} |-> c.loose[x]]
  BY DEF Restrict
<1>4. h = [c EXCEPT !.inodes = less, !.loose = loose]
  OBVIOUS
<1> HIDE DEF less, loose, h
<1>5. h = [inodes |-> less, idirty |-> c.idirty, blocks |-> c.blocks, bdirty |-> c.bdirty,
           buf |-> c.buf, loose |-> loose, disk |-> c.disk]
  BY <1>1, <1>4 DEF Shape, IsCache
<1>6. /\ h.inodes = less /\ h.idirty = c.idirty /\ h.bdirty = c.bdirty /\ h.blocks = c.blocks
      /\ h.buf = c.buf /\ h.loose = loose /\ h.disk = c.disk
  BY <1>5
<1>7. IsCache(h)
  BY <1>5, <1>6 DEF IsCache
<1>8. Contents(h)
  <2>1. h.loose = [x \in DOMAIN h.loose |-> h.loose[x]] /\ \A x \in DOMAIN h.loose : h.loose[x] \in SUBSET Parts
    BY <1>1, <1>3, <1>6 DEF Shape, Contents
  <2> QED BY <1>1, <1>6, <2>1 DEF Shape, Contents
<1>9. Shape(h, m - 1, n)
  <2>1. \A i \in Members(h.inodes) \cap Inodes : i \in DOMAIN h.loose \/ Home(i) \in Members(h.blocks)
    BY <1>1, <1>2, <1>3, <1>6 DEF Shape
  <2>2. /\ h.idirty \subseteq Members(h.inodes) \cap Inodes
        /\ DOMAIN h.loose \subseteq Members(h.inodes) \cap Inodes
    BY <1>1, <1>2, <1>3, <1>6 DEF Shape
  <2> QED BY <1>1, <1>2, <1>6, <1>7, <1>8, <2>1, <2>2 DEF Shape
<1>10. ASSUME NEW b, NEW s, NEW F, IsPlace(b, s), Safe(c, b, s, F) PROVE Safe(h, b, s, F)
  <2>1. Held(h, b, s) = Held(c, b, s)
    BY <1>6 DEF Held
  <2>2. CASE s = base
    <3>1. Seen(h, b, s) = Held(h, b, s) /\ s \notin c.idirty
      BY <1>2, <1>6, <2>2 DEF Seen
    <3> QED BY <1>6, <1>10, <2>1, <3>1 DEF Safe
  <2>3. CASE s # base
    <3>1. (s \in Members(h.inodes) <=> s \in Members(c.inodes)) /\ View(h, s) = View(c, s)
      BY <1>2, <1>3, <1>6, <2>3 DEF View
    <3>2. Seen(h, b, s) = Seen(c, b, s)
      BY <2>1, <3>1 DEF Seen
    <3> QED BY <1>6, <1>10, <2>1, <3>2 DEF Safe
  <2> QED BY <2>2, <2>3
<1>11. Shaped(h, m - 1)
  BY <1>9 DEF Shaped
<1>12. /\ Shaped(h, m - 1) /\ h.inodes = Drop(c.inodes) /\ h.idirty = c.idirty /\ h.blocks = c.blocks
       /\ \A b, s, F : IsPlace(b, s) /\ Safe(c, b, s, F) => Safe(h, b, s, F)
  BY <1>6, <1>10, <1>11 DEF less
<1> QED BY <1>12 DEF h

\* The inode cache makes room for another inode.
LEMMA EvictInodeShape ==
  ASSUME NEW c, NEW m, Shaped(c, m), m > 1
  PROVE  LET e == EvictInode(c)
         IN /\ Shaped(e, m - 1) /\ e.inodes = Drop(c.inodes) /\ e.idirty \subseteq c.idirty
            /\ c.blocks.top \in Members(c.blocks) => c.blocks.top \in Members(e.blocks)
            /\ \A b, s, F : IsPlace(b, s) /\ Safe(c, b, s, F) => Safe(e, b, s, F)
<1> DEFINE base == c.inodes.base
           w == IF base \in c.idirty THEN WriteBackInode(c, base) ELSE c
           e == EvictInode(c)
           h == [w EXCEPT !.inodes = Drop(@), !.loose = Restrict(@, DOMAIN @ \ {w.inodes.base})]
<1>1. /\ Shaped(w, m) /\ w.inodes = c.inodes /\ w.idirty = c.idirty \ {base}
      /\ c.blocks.top \in Members(c.blocks) => c.blocks.top \in Members(w.blocks)
      /\ \A b, s, F : IsPlace(b, s) /\ Safe(c, b, s, F) => Safe(w, b, s, F)
  <2>1. CASE base \in c.idirty
    BY <2>1, WriteBackShape
  <2>2. CASE base \notin c.idirty
    BY <2>2
  <2> QED BY <2>1, <2>2
<1>2. e = [w EXCEPT !.inodes = Drop(@), !.loose = Restrict(@, DOMAIN @ \ {base})]
  BY DEF EvictInode
<1> HIDE DEF w, e
<1>3. e = h
  BY <1>1, <1>2
<1>4. /\ Shaped(h, m - 1) /\ h.inodes = Drop(w.inodes) /\ h.idirty = w.idirty
      /\ h.blocks = w.blocks
      /\ \A b, s, F : IsPlace(b, s) /\ Safe(w, b, s, F) => Safe(h, b, s, F)
  BY <1>1, DropInode
<1> HIDE DEF h
<1>5. /\ Shaped(e, m - 1) /\ e.inodes = Drop(c.inodes) /\ e.idirty \subseteq c.idirty
      /\ c.blocks.top \in Members(c.blocks) => c.blocks.top \in Members(e.blocks)
      /\ \A b, s, F : IsPlace(b, s) /\ Safe(c, b, s, F) => Safe(e, b, s, F)
  BY <1>1, <1>3, <1>4
<1> QED BY <1>5 DEF e

\* The entry of an inode is put on the list.
LEMMA EnterInode ==
  ASSUME NEW c, NEW m, Shaped(c, m), NEW i \in Inodes, NEW list, NEW k, Stack(list, k),
         Members(list) = Members(c.inodes) \cup {i},
         i \in Members(c.inodes) \/ Home(i) \in Members(c.blocks)
  PROVE  LET h == [c EXCEPT !.inodes = list]
         IN /\ Shaped(h, k) /\ h.inodes = list /\ h.idirty = c.idirty
            /\ \A b, s, F : IsPlace(b, s) /\ Safe(c, b, s, F) => Safe(h, b, s, F)
<1> DEFINE h == [c EXCEPT !.inodes = list]
<1>1. PICK n : Shape(c, m, n)
  BY DEF Shaped
<1>2. h = [inodes |-> list, idirty |-> c.idirty, blocks |-> c.blocks, bdirty |-> c.bdirty,
           buf |-> c.buf, loose |-> c.loose, disk |-> c.disk]
  BY <1>1 DEF Shape, IsCache
<1> HIDE DEF h
<1>3. /\ h.inodes = list /\ h.idirty = c.idirty /\ h.bdirty = c.bdirty /\ h.blocks = c.blocks
      /\ h.buf = c.buf /\ h.loose = c.loose /\ h.disk = c.disk
  BY <1>2
<1>4. IsCache(h)
  BY <1>2, <1>3 DEF IsCache
<1>5. Contents(h)
  BY <1>1, <1>3 DEF Shape, Contents
<1>6. Shape(h, k, n)
  <2>1. \A j \in Members(h.inodes) \cap Inodes : j \in DOMAIN h.loose \/ Home(j) \in Members(h.blocks)
    BY <1>1, <1>3 DEF Shape
  <2>2. 0 \notin Members(h.inodes)
    BY <1>1, <1>3, PlaceFacts DEF Shape
  <2> QED BY <1>1, <1>3, <1>4, <1>5, <2>1, <2>2 DEF Shape
<1>7. ASSUME NEW b, NEW s, NEW F, IsPlace(b, s), Safe(c, b, s, F) PROVE Safe(h, b, s, F)
  <2>1. Held(h, b, s) = Held(c, b, s) /\ View(h, s) = View(c, s)
    BY <1>3 DEF Held, View
  <2>2. Seen(h, b, s) = Seen(c, b, s)
    <3>1. CASE s \in Members(c.inodes)
      BY <1>3, <2>1, <3>1 DEF Seen
    <3>2. CASE s \notin Members(c.inodes) /\ s # i
      BY <1>3, <2>1, <3>2 DEF Seen
    <3>3. CASE s \notin Members(c.inodes) /\ s = i
      <4>1. b = Home(i) /\ b \in Members(c.blocks) /\ s \notin DOMAIN c.loose
        BY <1>1, <1>7, <3>3, PlaceFacts DEF IsPlace, Shape
      <4>2. Seen(h, b, s) = c.buf[b][s] /\ Seen(c, b, s) = c.buf[b][s]
        BY <1>3, <3>3, <4>1 DEF Seen, View, Held
      <4> QED BY <4>2
    <3> QED BY <3>1, <3>2, <3>3
  <2> QED BY <1>3, <1>7, <2>1, <2>2 DEF Safe
<1>8. Shaped(h, k)
  BY <1>6 DEF Shaped
<1>9. /\ Shaped(h, k) /\ h.inodes = list /\ h.idirty = c.idirty
      /\ \A b, s, F : IsPlace(b, s) /\ Safe(c, b, s, F) => Safe(h, b, s, F)
  BY <1>3, <1>7, <1>8
<1> QED BY <1>9 DEF h

\* GetInode leaves the caches in shape, with the inode on top of its cache.
LEMMA GetInodeShape ==
  ASSUME NEW c, Shaped(c, InodeCap), NEW i \in Inodes
  PROVE  LET g == GetInode(c, i)
         IN /\ Shaped(g, InodeCap) /\ g.idirty \subseteq c.idirty /\ i \in Members(g.inodes)
            /\ Order(g.inodes) = UsedLast(Order(c.inodes), i)
            /\ \A b, s, F : IsPlace(b, s) /\ Safe(c, b, s, F) => Safe(g, b, s, F)
<1> DEFINE g == GetInode(c, i)
<1>1. InodeCap \in Nat /\ InodeCap > 1 /\ Stack(c.inodes, InodeCap)
  BY CacheAssumption DEF Shaped, Shape
<1>2. i # Null /\ Home(i) \in Blocks
  BY PlaceFacts, NullAssumption
<1>3. CASE i \in Members(c.inodes)
  <2> DEFINE list == Raise(c.inodes, i)
             h == [c EXCEPT !.inodes = list]
  <2>1. g = h
    BY <1>3 DEF GetInode
  <2>2. Stack(list, InodeCap) /\ Members(list) = Members(c.inodes) \cup {i}
    BY <1>1, <1>3, StackRaise
  <2>3. Order(list) = UsedLast(Order(c.inodes), i)
    BY <1>1, <1>3, HitOrder
  <2> HIDE DEF list
  <2>4. /\ Shaped(h, InodeCap) /\ h.inodes = list /\ h.idirty = c.idirty
        /\ \A b, s, F : IsPlace(b, s) /\ Safe(c, b, s, F) => Safe(h, b, s, F)
    BY <1>3, <2>2, EnterInode
  <2> HIDE DEF h, g
  <2>5. /\ Shaped(g, InodeCap) /\ g.idirty \subseteq c.idirty /\ i \in Members(g.inodes)
        /\ Order(g.inodes) = UsedLast(Order(c.inodes), i)
        /\ \A b, s, F : IsPlace(b, s) /\ Safe(c, b, s, F) => Safe(g, b, s, F)
    BY <1>3, <2>1, <2>2, <2>3, <2>4
  <2> QED BY <2>5 DEF g
<1>4. CASE i \notin Members(c.inodes)
  <2> DEFINE k == GetBlock(c, Home(i))
             e == EvictInode(k)
             list == Push(e.inodes, i)
             h == [e EXCEPT !.inodes = list]
  <2>1. g = h
    BY <1>4 DEF GetInode
  <2>2. /\ Shaped(k, InodeCap) /\ k.inodes = c.inodes /\ k.idirty = c.idirty
        /\ k.blocks.top = Home(i) /\ Home(i) \in Members(k.blocks)
        /\ \A b, s, F : IsPlace(b, s) /\ Safe(c, b, s, F) => Safe(k, b, s, F)
    BY <1>2, GetBlockShape
  <2> HIDE DEF k
  <2>3. /\ Shaped(e, InodeCap - 1) /\ e.inodes = Drop(c.inodes) /\ e.idirty \subseteq c.idirty
        /\ Home(i) \in Members(e.blocks)
        /\ \A b, s, F : IsPlace(b, s) /\ Safe(k, b, s, F) => Safe(e, b, s, F)
    BY <1>1, <2>2, EvictInodeShape
  <2> HIDE DEF e
  <2>4. Stack(e.inodes, InodeCap - 1) /\ i \notin Members(e.inodes)
    BY <1>1, <1>4, <2>3, StackDrop
  <2>5. Stack(list, InodeCap) /\ Members(list) = Members(e.inodes) \cup {i}
    <3>1. InodeCap - 1 + 1 = InodeCap
      BY <1>1
    <3> QED BY <1>2, <2>4, <3>1, StackPush
  <2>6. Order(list) = UsedLast(Order(c.inodes), i)
    BY <1>1, <1>2, <1>4, <2>3, MissOrder
  <2> HIDE DEF list
  <2>7. /\ Shaped(h, InodeCap) /\ h.inodes = list /\ h.idirty = e.idirty
        /\ \A b, s, F : IsPlace(b, s) /\ Safe(e, b, s, F) => Safe(h, b, s, F)
    BY <2>3, <2>5, EnterInode
  <2> HIDE DEF h, g
  <2>8. /\ Shaped(g, InodeCap) /\ g.idirty \subseteq c.idirty /\ i \in Members(g.inodes)
        /\ Order(g.inodes) = UsedLast(Order(c.inodes), i)
        /\ \A b, s, F : IsPlace(b, s) /\ Safe(c, b, s, F) => Safe(g, b, s, F)
    BY <2>1, <2>2, <2>3, <2>5, <2>6, <2>7
  <2> QED BY <2>8 DEF g
<1> QED BY <1>3, <1>4

-----------------------------------------------------------------------------
(* A handler changes an inode or a data block.                             *)

\* What a state with other contents and flags needs to be in shape.
LEMMA SameLists ==
  ASSUME NEW c, NEW m, NEW n, Shape(c, m, n), NEW h, IsCache(h), Contents(h),
         h.inodes = c.inodes, h.blocks = c.blocks, DOMAIN h.loose = DOMAIN c.loose,
         h.idirty \subseteq Members(c.inodes) \cap Inodes, h.bdirty \subseteq Members(c.blocks)
  PROVE  Shape(h, m, n)
BY DEF Shape

\* h is c with other flags.
Flags(h, c, I, B) ==
  h = [inodes |-> c.inodes, idirty |-> I, blocks |-> c.blocks, bdirty |-> B,
       buf |-> c.buf, loose |-> c.loose, disk |-> c.disk]

LEMMA FlagsShape ==
  ASSUME NEW c, NEW m, NEW n, Shape(c, m, n),
         NEW I, I \subseteq Members(c.inodes) \cap Inodes, NEW B, B \subseteq Members(c.blocks),
         NEW h, Flags(h, c, I, B)
  PROVE  /\ Shape(h, m, n) /\ h.idirty = I /\ h.bdirty = B /\ h.disk = c.disk
         /\ \A b, s : Held(h, b, s) = Held(c, b, s) /\ Seen(h, b, s) = Seen(c, b, s)
<1>1. h = [inodes |-> c.inodes, idirty |-> I, blocks |-> c.blocks, bdirty |-> B,
           buf |-> c.buf, loose |-> c.loose, disk |-> c.disk]
  BY DEF Flags
<1>2. /\ h.inodes = c.inodes /\ h.idirty = I /\ h.bdirty = B /\ h.blocks = c.blocks
      /\ h.buf = c.buf /\ h.loose = c.loose /\ h.disk = c.disk
  BY <1>1
<1>3. IsCache(h)
  BY <1>1, <1>2 DEF IsCache
<1>4. Contents(h)
  BY <1>2 DEF Shape, Contents
<1>5. Shape(h, m, n)
  BY <1>2, <1>3, <1>4 DEF Shape
<1>6. \A b, s : Held(h, b, s) = Held(c, b, s) /\ Seen(h, b, s) = Seen(c, b, s)
  BY <1>2 DEF Held, Seen, View
<1> QED BY <1>2, <1>5, <1>6

\* What h is when the parts P have been stored in inode i of c.
InodeStored(h, c, i, P) ==
  /\ h.inodes = c.inodes /\ h.idirty = c.idirty /\ h.blocks = c.blocks /\ h.bdirty = c.bdirty
  /\ DOMAIN h.loose = DOMAIN c.loose
  /\ \A x \in Blocks : \A y \in Slots(x) :
       h.disk[x][y] = IF x = Home(i) /\ y = i THEN c.disk[x][y] \ P ELSE c.disk[x][y]
  /\ \A x \in Members(c.blocks) : \A y \in Slots(x) :
       /\ y # i => h.buf[x][y] = c.buf[x][y]
       /\ y = i /\ i \in DOMAIN c.loose => h.buf[x][y] = c.buf[x][y] \ P
       /\ y = i /\ i \notin DOMAIN c.loose => h.buf[x][y] = c.buf[x][y] \cup P
  /\ \A x \in DOMAIN c.loose :
       h.loose[x] = IF x = i THEN c.loose[x] \cup P ELSE c.loose[x]

LEMMA StoreInodeFields ==
  ASSUME NEW c, NEW m, NEW n, Shape(c, m, n), NEW i \in Inodes, i \in Members(c.inodes),
         NEW P \in SUBSET Parts
  PROVE  Shape(StoreInode(c, i, P), m, n) /\ InodeStored(StoreInode(c, i, P), c, i, P)
<1> DEFINE b == Home(i)
           h == StoreInode(c, i, P)
           dcopy == [c.disk[b] EXCEPT ![i] = @ \ P]
           bcopy == [c.buf[b] EXCEPT ![i] = IF i \in DOMAIN c.loose THEN @ \ P ELSE @ \cup P]
           disk == [c.disk EXCEPT ![b][i] = @ \ P]
           buf == IF i \notin DOMAIN c.loose THEN [c.buf EXCEPT ![b][i] = @ \cup P]
                  ELSE IF b \in DOMAIN c.buf THEN [c.buf EXCEPT ![b][i] = @ \ P] ELSE c.buf
           loose == IF i \in DOMAIN c.loose THEN [c.loose EXCEPT ![i] = @ \cup P] ELSE c.loose
<1>1. /\ c.disk = [x \in Blocks |-> c.disk[x]]
      /\ \A x \in Blocks : c.disk[x] \in Copy(x)
      /\ c.buf = [x \in Members(c.blocks) |-> c.buf[x]]
      /\ \A x \in Members(c.blocks) : c.buf[x] \in Copy(x)
      /\ c.loose = [x \in DOMAIN c.loose |-> c.loose[x]]
      /\ \A x \in DOMAIN c.loose : c.loose[x] \in SUBSET Parts
  BY DEF Shape, Contents
<1>2. b \in Blocks /\ i \in Slots(b) /\ (i \in DOMAIN c.loose \/ b \in Members(c.blocks))
  BY PlaceFacts DEF Shape
<1>3. dcopy = [y \in Slots(b) |-> IF y = i THEN c.disk[b][y] \ P ELSE c.disk[b][y]] /\ dcopy \in Copy(b)
  <2>1. c.disk[b] \in [Slots(b) -> SUBSET Parts]
    BY <1>1, <1>2 DEF Copy
  <2>2. dcopy = [y \in Slots(b) |-> IF y = i THEN c.disk[b][y] \ P ELSE c.disk[b][y]]
    BY <1>2, <2>1
  <2> HIDE DEF dcopy
  <2>3. dcopy \in Copy(b)
    BY <2>1, <2>2 DEF Copy
  <2> QED BY <2>2, <2>3
<1>4. ASSUME b \in Members(c.blocks)
      PROVE  /\ bcopy = [y \in Slots(b) |-> IF y = i THEN IF i \in DOMAIN c.loose THEN c.buf[b][y] \ P
                                                          ELSE c.buf[b][y] \cup P
                                            ELSE c.buf[b][y]]
             /\ bcopy \in Copy(b)
  <2>1. c.buf[b] \in [Slots(b) -> SUBSET Parts]
    BY <1>1, <1>4 DEF Copy
  <2>2. bcopy = [y \in Slots(b) |-> IF y = i THEN IF i \in DOMAIN c.loose THEN c.buf[b][y] \ P
                                                  ELSE c.buf[b][y] \cup P
                                    ELSE c.buf[b][y]]
    BY <1>2, <2>1
  <2> HIDE DEF bcopy
  <2>3. bcopy \in Copy(b)
    BY <2>1, <2>2 DEF Copy
  <2> QED BY <2>2, <2>3
<1>8. h = [c EXCEPT !.disk = disk, !.buf = buf, !.loose = loose]
  BY DEF StoreInode
<1>81. disk = [c.disk EXCEPT ![b] = dcopy]
  OBVIOUS
<1> HIDE DEF dcopy, disk
<1>5. disk = [x \in Blocks |-> IF x = b THEN dcopy ELSE c.disk[x]]
  BY <1>1, <1>81
<1>6. buf = [x \in Members(c.blocks) |-> IF x = b THEN bcopy ELSE c.buf[x]]
  <2>0. DOMAIN c.buf = Members(c.blocks)
    BY <1>1
  <2>1. CASE i \notin DOMAIN c.loose
    <3>1. buf = [c.buf EXCEPT ![b] = bcopy]
      BY <2>1
    <3> HIDE DEF buf, bcopy
    <3> QED BY <1>1, <3>1
  <2>2. CASE i \in DOMAIN c.loose /\ b \in Members(c.blocks)
    <3>1. buf = [c.buf EXCEPT ![b] = bcopy]
      BY <2>0, <2>2
    <3> HIDE DEF buf, bcopy
    <3> QED BY <1>1, <3>1
  <2>3. CASE i \in DOMAIN c.loose /\ b \notin Members(c.blocks)
    <3>1. buf = c.buf
      BY <2>0, <2>3
    <3> HIDE DEF buf, bcopy
    <3> QED BY <1>1, <2>3, <3>1
  <2> QED BY <2>1, <2>2, <2>3
<1>7. loose = [x \in DOMAIN c.loose |-> IF x = i THEN c.loose[x] \cup P ELSE c.loose[x]]
  <2>1. CASE i \in DOMAIN c.loose
    BY <1>1, <2>1
  <2>2. CASE i \notin DOMAIN c.loose
    BY <1>1, <2>2
  <2> QED BY <2>1, <2>2
<1> HIDE DEF bcopy, disk, buf, loose, h
<1>9. h = [inodes |-> c.inodes, idirty |-> c.idirty, blocks |-> c.blocks, bdirty |-> c.bdirty,
           buf |-> buf, loose |-> loose, disk |-> disk]
  <2> HIDE DEF b
  <2> QED BY <1>8 DEF Shape, IsCache
<1>10. /\ h.inodes = c.inodes /\ h.idirty = c.idirty /\ h.bdirty = c.bdirty /\ h.blocks = c.blocks
       /\ h.buf = buf /\ h.loose = loose /\ h.disk = disk
  BY <1>9
<1>11. IsCache(h)
  BY <1>9, <1>10 DEF IsCache
<1>12. Contents(h) /\ DOMAIN h.loose = DOMAIN c.loose
  <2>1. h.disk = [x \in Blocks |-> h.disk[x]] /\ \A x \in Blocks : h.disk[x] \in Copy(x)
    <3>1. \A x \in Blocks : disk[x] \in Copy(x)
      BY <1>1, <1>3, <1>5
    <3> QED BY <1>5, <1>10, <3>1
  <2>2. /\ h.buf = [x \in Members(c.blocks) |-> h.buf[x]]
        /\ \A x \in Members(c.blocks) : h.buf[x] \in Copy(x)
    BY <1>1, <1>4, <1>6, <1>10
  <2>3. /\ h.loose = [x \in DOMAIN h.loose |-> h.loose[x]] /\ DOMAIN h.loose = DOMAIN c.loose
        /\ \A x \in DOMAIN h.loose : h.loose[x] \in SUBSET Parts
    BY <1>1, <1>7, <1>10
  <2> QED BY <1>10, <2>1, <2>2, <2>3 DEF Contents
<1>13. Shape(h, m, n)
  <2>1. h.idirty \subseteq Members(c.inodes) \cap Inodes /\ h.bdirty \subseteq Members(c.blocks)
    BY <1>10 DEF Shape
  <2> QED BY <1>10, <1>11, <1>12, <2>1, SameLists
<1>14. \A x \in Blocks : \A y \in Slots(x) :
         disk[x][y] = IF x = b /\ y = i THEN c.disk[x][y] \ P ELSE c.disk[x][y]
  BY <1>3, <1>5
<1>15. ASSUME NEW x \in Members(c.blocks), NEW y \in Slots(x)
       PROVE  /\ y # i => buf[x][y] = c.buf[x][y]
              /\ y = i /\ i \in DOMAIN c.loose => buf[x][y] = c.buf[x][y] \ P
              /\ y = i /\ i \notin DOMAIN c.loose => buf[x][y] = c.buf[x][y] \cup P
  <2>1. CASE x = b
    BY <1>4, <1>6, <2>1
  <2>2. CASE x # b
    <3>1. y # i
      BY <1>2, <2>2, SlotOf DEF Shape
    <3> QED BY <1>6, <2>2, <3>1
  <2> QED BY <2>1, <2>2
<1>16. \A x \in DOMAIN c.loose : loose[x] = IF x = i THEN c.loose[x] \cup P ELSE c.loose[x]
  BY <1>7
<1>17. InodeStored(h, c, i, P)
  BY <1>10, <1>12, <1>14, <1>15, <1>16 DEF InodeStored
<1> QED BY <1>13, <1>17 DEF h

\* What that does to the copies of what is watched.
InodeCopies(h, c, i, P) ==
  \A b, s : IsPlace(b, s) =>
    /\ h.disk[b][s] = IF s = i THEN c.disk[b][s] \ P ELSE c.disk[b][s]
    /\ s # i => Held(h, b, s) = Held(c, b, s)
    /\ s = i /\ i \in DOMAIN c.loose => Held(h, b, s) = Held(c, b, s) \ P
    /\ s = i /\ i \notin DOMAIN c.loose => Held(h, b, s) = Held(c, b, s) \cup P
    /\ Seen(h, b, s) = IF s = i THEN Seen(c, b, s) \cup P ELSE Seen(c, b, s)

\* Through the entry of an inode it is what handlers see that changes.
LEMMA StoreInodeShape ==
  ASSUME NEW c, NEW m, NEW n, Shape(c, m, n), NEW i \in Inodes, i \in Members(c.inodes),
         NEW P, P \subseteq Parts
  PROVE  LET h == StoreInode(c, i, P)
         IN /\ Shape(h, m, n)
            /\ h.inodes = c.inodes /\ h.idirty = c.idirty /\ h.blocks = c.blocks /\ h.bdirty = c.bdirty
            /\ InodeCopies(h, c, i, P)
<1> DEFINE h == StoreInode(c, i, P)
<1>0. Shape(h, m, n) /\ InodeStored(h, c, i, P)
  BY StoreInodeFields
<1> HIDE DEF h
<1>1. /\ Shape(h, m, n)
      /\ h.inodes = c.inodes /\ h.idirty = c.idirty /\ h.blocks = c.blocks /\ h.bdirty = c.bdirty
      /\ DOMAIN h.loose = DOMAIN c.loose
      /\ \A x \in Blocks : \A y \in Slots(x) :
           h.disk[x][y] = IF x = Home(i) /\ y = i THEN c.disk[x][y] \ P ELSE c.disk[x][y]
      /\ \A x \in Members(c.blocks) : \A y \in Slots(x) :
           /\ y # i => h.buf[x][y] = c.buf[x][y]
           /\ y = i /\ i \in DOMAIN c.loose => h.buf[x][y] = c.buf[x][y] \ P
           /\ y = i /\ i \notin DOMAIN c.loose => h.buf[x][y] = c.buf[x][y] \cup P
      /\ \A x \in DOMAIN c.loose :
           h.loose[x] = IF x = i THEN c.loose[x] \cup P ELSE c.loose[x]
  BY <1>0 DEF InodeStored
<1>2. ASSUME NEW b, NEW s, IsPlace(b, s)
      PROVE  /\ h.disk[b][s] = IF s = i THEN c.disk[b][s] \ P ELSE c.disk[b][s]
             /\ Held(h, b, s) = IF s # i THEN Held(c, b, s)
                                ELSE IF i \in DOMAIN c.loose THEN Held(c, b, s) \ P
                                ELSE Held(c, b, s) \cup P
             /\ Seen(h, b, s) = IF s = i THEN Seen(c, b, s) \cup P ELSE Seen(c, b, s)
  <2>1. b \in Blocks /\ s \in Slots(b) /\ (s = i => b = Home(i)) /\ (s \in Inodes => b = Home(s))
        /\ DOMAIN c.loose \subseteq Inodes /\ DOMAIN c.loose \subseteq Members(c.inodes)
    BY <1>2, PlaceFacts DEF IsPlace, Shape
  <2>2. h.disk[b][s] = IF s = i THEN c.disk[b][s] \ P ELSE c.disk[b][s]
    BY <1>1, <2>1
  <2>3. i \in DOMAIN c.loose \/ Home(i) \in Members(c.blocks)
    BY DEF Shape
  <2>4. Held(h, b, s) = IF s # i THEN Held(c, b, s)
                        ELSE IF i \in DOMAIN c.loose THEN Held(c, b, s) \ P
                        ELSE Held(c, b, s) \cup P
    <3>1. CASE b \in Members(c.blocks)
      <4>1. Held(h, b, s) = h.buf[b][s] /\ Held(c, b, s) = c.buf[b][s]
        BY <1>1, <3>1 DEF Held
      <4>2. /\ s # i => h.buf[b][s] = c.buf[b][s]
            /\ s = i /\ i \in DOMAIN c.loose => h.buf[b][s] = c.buf[b][s] \ P
            /\ s = i /\ i \notin DOMAIN c.loose => h.buf[b][s] = c.buf[b][s] \cup P
        BY <1>1, <2>1, <3>1
      <4> QED BY <4>1, <4>2
    <3>2. CASE b \notin Members(c.blocks)
      <4>1. Held(h, b, s) = h.disk[b][s] /\ Held(c, b, s) = c.disk[b][s]
        BY <1>1, <3>2 DEF Held
      <4> QED BY <2>1, <2>2, <2>3, <3>2, <4>1
    <3> QED BY <3>1, <3>2
  <2>5. Seen(h, b, s) = IF s = i THEN Seen(c, b, s) \cup P ELSE Seen(c, b, s)
    <3>1. CASE s \in DOMAIN c.loose
      <4>1. Seen(h, b, s) = h.loose[s] /\ Seen(c, b, s) = c.loose[s]
        BY <1>1, <2>1, <3>1 DEF Seen, View
      <4> QED BY <1>1, <3>1, <4>1
    <3>2. CASE s \in Members(c.inodes) /\ s \notin DOMAIN c.loose
      <4>1. s \in Inodes /\ b = Home(s) /\ b \in Members(c.blocks)
        BY <1>2, <2>1, <3>2 DEF IsPlace, Shape
      <4>2. Seen(h, b, s) = h.buf[b][s] /\ Seen(c, b, s) = c.buf[b][s]
        BY <1>1, <3>2, <4>1 DEF Seen, View
      <4>3. /\ s # i => h.buf[b][s] = c.buf[b][s]
            /\ s = i => h.buf[b][s] = c.buf[b][s] \cup P
        BY <1>1, <2>1, <3>2, <4>1
      <4> QED BY <4>2, <4>3
    <3>3. CASE s \notin Members(c.inodes)
      <4>1. s # i /\ Seen(h, b, s) = Held(h, b, s) /\ Seen(c, b, s) = Held(c, b, s)
        BY <1>1, <3>3 DEF Seen
      <4> QED BY <2>4, <4>1
    <3> QED BY <2>1, <3>1, <3>2, <3>3
  <2> QED BY <2>2, <2>4, <2>5
<1>3. InodeCopies(h, c, i, P)
  BY <1>2 DEF InodeCopies
<1> QED BY <1>1, <1>3 DEF h

BlockCopies(h, c, d, P) ==
  \A b, s : IsPlace(b, s) =>
    /\ h.disk[b][s] = IF b = d THEN c.disk[b][s] \ P ELSE c.disk[b][s]
    /\ Held(h, b, s) = IF b = d THEN Held(c, b, s) \cup P ELSE Held(c, b, s)
    /\ Seen(h, b, s) = IF b = d THEN Seen(c, b, s) \cup P ELSE Seen(c, b, s)

\* A data block changes in its buffer.
LEMMA StoreBlockShape ==
  ASSUME NEW c, NEW m, NEW n, Shape(c, m, n), NEW d \in DataBlocks, d \in Members(c.blocks),
         NEW P, P \subseteq Parts
  PROVE  LET h == StoreBlock(c, d, P)
         IN /\ Shape(h, m, n)
            /\ h.inodes = c.inodes /\ h.idirty = c.idirty /\ h.blocks = c.blocks /\ h.bdirty = c.bdirty
            /\ BlockCopies(h, c, d, P)
<1> DEFINE h == StoreBlock(c, d, P)
           dcopy == [c.disk[d] EXCEPT ![0] = @ \ P]
           bcopy == [c.buf[d] EXCEPT ![0] = @ \cup P]
           disk == [c.disk EXCEPT ![d] = dcopy]
           buf == [c.buf EXCEPT ![d] = bcopy]
<1>1. /\ c.disk = [x \in Blocks |-> c.disk[x]]
      /\ \A x \in Blocks : c.disk[x] \in Copy(x)
      /\ c.buf = [x \in Members(c.blocks) |-> c.buf[x]]
      /\ \A x \in Members(c.blocks) : c.buf[x] \in Copy(x)
  BY DEF Shape, Contents
<1>2. d \in Blocks /\ 0 \in Slots(d)
  BY PlaceFacts
<1>3. dcopy = [y \in Slots(d) |-> IF y = 0 THEN c.disk[d][y] \ P ELSE c.disk[d][y]] /\ dcopy \in Copy(d)
  <2>1. c.disk[d] \in [Slots(d) -> SUBSET Parts]
    BY <1>1, <1>2 DEF Copy
  <2>2. dcopy = [y \in Slots(d) |-> IF y = 0 THEN c.disk[d][y] \ P ELSE c.disk[d][y]]
    BY <1>2, <2>1
  <2> HIDE DEF dcopy
  <2>3. dcopy \in Copy(d)
    BY <2>1, <2>2 DEF Copy
  <2> QED BY <2>2, <2>3
<1>4. bcopy = [y \in Slots(d) |-> IF y = 0 THEN c.buf[d][y] \cup P ELSE c.buf[d][y]] /\ bcopy \in Copy(d)
  <2>1. c.buf[d] \in [Slots(d) -> SUBSET Parts]
    BY <1>1 DEF Copy
  <2>2. bcopy = [y \in Slots(d) |-> IF y = 0 THEN c.buf[d][y] \cup P ELSE c.buf[d][y]]
    BY <1>2, <2>1
  <2> HIDE DEF bcopy
  <2>3. bcopy \in Copy(d)
    BY <2>1, <2>2 DEF Copy
  <2> QED BY <2>2, <2>3
<1>5. h = [c EXCEPT !.disk = disk, !.buf = buf]
  BY DEF StoreBlock
<1> HIDE DEF dcopy, bcopy
<1>6. disk = [x \in Blocks |-> IF x = d THEN dcopy ELSE c.disk[x]]
  BY <1>1
<1>7. buf = [x \in Members(c.blocks) |-> IF x = d THEN bcopy ELSE c.buf[x]]
  BY <1>1
<1> HIDE DEF disk, buf, h
<1>8. h = [inodes |-> c.inodes, idirty |-> c.idirty, blocks |-> c.blocks, bdirty |-> c.bdirty,
           buf |-> buf, loose |-> c.loose, disk |-> disk]
  BY <1>5 DEF Shape, IsCache
<1>9. /\ h.inodes = c.inodes /\ h.idirty = c.idirty /\ h.bdirty = c.bdirty /\ h.blocks = c.blocks
      /\ h.buf = buf /\ h.loose = c.loose /\ h.disk = disk
  BY <1>8
<1>10. IsCache(h)
  BY <1>8, <1>9 DEF IsCache
<1>11. Contents(h)
  <2>1. \A x \in Blocks : disk[x] \in Copy(x)
    BY <1>1, <1>3, <1>6
  <2>2. h.disk = [x \in Blocks |-> h.disk[x]] /\ \A x \in Blocks : h.disk[x] \in Copy(x)
    BY <1>6, <1>9, <2>1
  <2>3. \A x \in Members(c.blocks) : buf[x] \in Copy(x)
    BY <1>1, <1>4, <1>7
  <2>4. /\ h.buf = [x \in Members(c.blocks) |-> h.buf[x]]
        /\ \A x \in Members(c.blocks) : h.buf[x] \in Copy(x)
    BY <1>7, <1>9, <2>3
  <2> QED BY <1>9, <2>2, <2>4 DEF Shape, Contents
<1>12. Shape(h, m, n)
  <2>1. h.idirty \subseteq Members(c.inodes) \cap Inodes /\ h.bdirty \subseteq Members(c.blocks)
    BY <1>9 DEF Shape
  <2> QED BY <1>9, <1>10, <1>11, <2>1, SameLists
<1>13. ASSUME NEW b, NEW s, IsPlace(b, s)
       PROVE  /\ h.disk[b][s] = IF b = d THEN c.disk[b][s] \ P ELSE c.disk[b][s]
              /\ Held(h, b, s) = IF b = d THEN Held(c, b, s) \cup P ELSE Held(c, b, s)
              /\ Seen(h, b, s) = IF b = d THEN Seen(c, b, s) \cup P ELSE Seen(c, b, s)
  <2>1. b \in Blocks /\ (b = d => s = 0) /\ (s \in Members(c.inodes) => s \in Inodes /\ b # d)
    BY <1>13, PlaceFacts DEF IsPlace, Shape
  <2>2. h.disk[b][s] = IF b = d THEN c.disk[b][s] \ P ELSE c.disk[b][s]
    BY <1>2, <1>3, <1>6, <1>9, <2>1
  <2>3. b \in Members(c.blocks) => h.buf[b][s] = IF b = d THEN c.buf[b][s] \cup P ELSE c.buf[b][s]
    BY <1>2, <1>4, <1>7, <1>9, <2>1
  <2>4. Held(h, b, s) = IF b = d THEN Held(c, b, s) \cup P ELSE Held(c, b, s)
    <3>1. CASE b \in Members(c.blocks)
      BY <1>9, <2>3, <3>1 DEF Held
    <3>2. CASE b \notin Members(c.blocks)
      BY <1>9, <2>2, <3>2 DEF Held
    <3> QED BY <3>1, <3>2
  <2>5. Seen(h, b, s) = IF b = d THEN Seen(c, b, s) \cup P ELSE Seen(c, b, s)
    <3>1. CASE s \notin Members(c.inodes)
      BY <1>9, <2>4, <3>1 DEF Seen
    <3>2. CASE s \in Members(c.inodes) /\ s \in DOMAIN c.loose
      BY <1>9, <2>1, <3>2 DEF Seen, View
    <3>3. CASE s \in Members(c.inodes) /\ s \notin DOMAIN c.loose
      <4>1. b = Home(s) /\ b \in Members(c.blocks) /\ b # d
        BY <1>13, <2>1, <3>3, PlaceFacts DEF IsPlace, Shape
      <4>2. Seen(h, b, s) = h.buf[b][s] /\ Seen(c, b, s) = c.buf[b][s]
        BY <1>9, <3>3, <4>1 DEF Seen, View
      <4> QED BY <2>3, <4>1, <4>2
    <3> QED BY <3>1, <3>2, <3>3
  <2> QED BY <2>2, <2>4, <2>5
<1>14. BlockCopies(h, c, d, P)
  BY <1>13 DEF BlockCopies
<1> QED BY <1>9, <1>12, <1>14 DEF h

-----------------------------------------------------------------------------
(* SyncCache.                                                              *)

LEMMA SafeLess ==
  ASSUME NEW c, NEW b, NEW s, NEW F, Safe(c, b, s, F), NEW G, G \subseteq F
  PROVE  Safe(c, b, s, G)
BY DEF Safe

\* The inode's head is in its block now; where it was cut loose, its tail may
\* not be.
LEMMA FlushShape ==
  ASSUME NEW c, NEW m, Shaped(c, m), NEW i \in c.idirty
  PROVE  LET w == FlushInode(c, i)
         IN /\ Shaped(w, m) /\ w.inodes = c.inodes /\ w.idirty = c.idirty \ {i}
            /\ DOMAIN c.loose \subseteq DOMAIN w.loose
            /\ \A b, s, F : IsPlace(b, s) /\ F \subseteq Parts /\ Safe(c, b, s, F)
                 => Safe(w, b, s, IF s = i /\ s \in DOMAIN w.loose THEN F \ {"tail"} ELSE F)
<1> DEFINE g == GetBlock(c, Home(i))
           w == FlushInode(c, i)
           v == (View(g, i) \cap {"head"}) \cup (g.buf[Home(i)][i] \cap {"tail"})
<1>1. i \in Inodes /\ i \in Members(c.inodes) /\ Home(i) \in Blocks
  BY PlaceFacts DEF Shaped, Shape
<1>2. /\ Shaped(g, m) /\ g.inodes = c.inodes /\ g.idirty = c.idirty
      /\ Home(i) \in Members(g.blocks) /\ DOMAIN c.loose \subseteq DOMAIN g.loose
      /\ \A b, s, F : IsPlace(b, s) /\ Safe(c, b, s, F) => Safe(g, b, s, F)
  BY <1>1, GetBlockShape
<1>3. w = Written(g, i, v)
  BY DEF FlushInode, Written
<1> HIDE DEF g, w
<1>4. PICK n : Shape(g, m, n)
  BY <1>2 DEF Shaped
<1>5. View(g, i) \in SUBSET Parts
  BY <1>1, <1>2, <1>4, ViewType
<1>6. v \in SUBSET Parts
  BY DEF Parts
<1>7. i \notin DOMAIN g.loose => v = View(g, i)
  BY <1>5 DEF View, Parts
<1> HIDE DEF v
<1>8. /\ Shape(w, m, n) /\ w.inodes = g.inodes /\ w.idirty = g.idirty \ {i}
      /\ w.blocks = g.blocks /\ w.bdirty = g.bdirty \cup {Home(i)}
      /\ w.loose = g.loose /\ w.disk = g.disk
  BY <1>1, <1>2, <1>3, <1>4, <1>6, WrittenShape
<1>9. ASSUME NEW b, NEW s, NEW F, IsPlace(b, s), F \subseteq Parts, Safe(c, b, s, F)
      PROVE  Safe(w, b, s, IF s = i /\ s \in DOMAIN w.loose THEN F \ {"tail"} ELSE F)
  <2>1. Safe(g, b, s, F)
    BY <1>2, <1>9
  <2>2. /\ Held(w, b, s) = IF s = i THEN v ELSE Held(g, b, s)
        /\ Seen(w, b, s) = IF s = i /\ i \notin DOMAIN g.loose THEN v ELSE Seen(g, b, s)
    BY <1>1, <1>2, <1>3, <1>4, <1>6, <1>9, WrittenCopies
  <2>3. s = i => b = Home(i) /\ Seen(g, b, s) = View(g, i) /\ Held(g, b, s) = g.buf[b][i]
    <3> SUFFICES ASSUME s = i PROVE b = Home(i) /\ Seen(g, b, s) = View(g, i) /\ Held(g, b, s) = g.buf[b][i]
      OBVIOUS
    <3>1. b = Home(i)
      BY <1>1, <1>9, PlaceFacts DEF IsPlace
    <3> QED BY <1>1, <1>2, <3>1 DEF Seen, Held
  <2>4. CASE s # i
    BY <1>8, <2>1, <2>2, <2>4 DEF Safe
  <2>5. CASE s = i /\ i \notin DOMAIN g.loose
    BY <1>7, <1>8, <2>1, <2>2, <2>3, <2>5 DEF Safe
  <2>6. CASE s = i /\ i \in DOMAIN g.loose
    <3>1. Held(w, b, s) = (Seen(g, b, s) \cap {"head"}) \cup (Held(g, b, s) \cap {"tail"})
      BY <2>2, <2>3, <2>6 DEF v
    <3>2. Seen(w, b, s) = Seen(g, b, s) /\ w.disk[b][s] = g.disk[b][s] /\ b \in w.bdirty
      BY <1>8, <2>2, <2>3, <2>6
    <3>3. Seen(g, b, s) \subseteq Parts
      BY <1>5, <2>3, <2>6
    <3>4. Safe(w, b, s, F \ {"tail"})
      BY <1>9, <2>1, <3>1, <3>2, <3>3 DEF Safe, Parts
    <3> QED BY <1>8, <2>6, <3>4
  <2> QED BY <2>4, <2>5, <2>6
<1>10. Shaped(w, m)
  BY <1>8 DEF Shaped
<1>11. /\ Shaped(w, m) /\ w.inodes = c.inodes /\ w.idirty = c.idirty \ {i}
       /\ DOMAIN c.loose \subseteq DOMAIN w.loose
       /\ \A b, s, F : IsPlace(b, s) /\ F \subseteq Parts /\ Safe(c, b, s, F)
            => Safe(w, b, s, IF s = i /\ s \in DOMAIN w.loose THEN F \ {"tail"} ELSE F)
  BY <1>2, <1>8, <1>9, <1>10
<1> QED BY <1>11 DEF w

\* f[k] is the state after the first k inodes, of n.
IsFlush(c, order, n, f) ==
  f = [k \in 0 .. n |-> IF k = 0 THEN c
                        ELSE IF order[k] \in c.idirty THEN FlushInode(f[k - 1], order[k]) ELSE f[k - 1]]

LEMMA FlushExists ==
  ASSUME NEW c, NEW order, NEW n \in Nat
  PROVE  \E f : IsFlush(c, order, n, f)
<1> DEFINE Step(x, k) == IF order[k] \in c.idirty THEN FlushInode(x, order[k]) ELSE x
           Bad == { m \in Nat : ~ \E f : IsFlush(c, order, m, f) }
<1> SUFFICES ASSUME Bad # {} PROVE FALSE
  OBVIOUS
<1>1. PICK m \in Bad : \A j \in Nat : j < m => j \notin Bad
  BY LeastOf
<1>2. m \in Nat
  OBVIOUS
<1>3. m # 0
  <2> DEFINE f == [j \in 0 .. 0 |-> c]
  <2>1. IsFlush(c, order, 0, f)
    BY DEF IsFlush
  <2> QED BY <2>1
<1>4. m - 1 \in Nat /\ m - 1 \notin Bad
  BY <1>1, <1>2, <1>3
<1>5. PICK f : IsFlush(c, order, m - 1, f)
  BY <1>4
<1> DEFINE g == [j \in 0 .. m |-> IF j < m THEN f[j] ELSE Step(f[m - 1], m)]
<1>50. f = [k \in 0 .. m - 1 |-> IF k = 0 THEN c ELSE Step(f[k - 1], k)]
  BY <1>5 DEF IsFlush
<1> HIDE DEF Step
<1>6. ASSUME NEW j \in 0 .. m
      PROVE  g[j] = IF j = 0 THEN c ELSE Step(g[j - 1], j)
  <2>1. CASE j = m
    <3>1. m - 1 \in 0 .. m /\ m - 1 < m /\ m \in 0 .. m /\ ~(m < m)
      BY <1>2, <1>3
    <3>2. g[m] = Step(f[m - 1], m) /\ g[m - 1] = f[m - 1]
      BY <3>1
    <3> HIDE DEF g
    <3> QED BY <1>3, <2>1, <3>2
  <2>2. CASE j # m
    <3>1. j < m /\ j \in 0 .. m - 1
      BY <1>2, <2>2
    <3>2. f[j] = IF j = 0 THEN c ELSE Step(f[j - 1], j)
      BY <1>50, <3>1
    <3>3. g[j] = f[j]
      BY <3>1
    <3>4. j # 0 => g[j - 1] = f[j - 1]
      <4> SUFFICES ASSUME j # 0 PROVE g[j - 1] = f[j - 1]
        OBVIOUS
      <4>1. j - 1 \in 0 .. m /\ j - 1 < m
        BY <1>2, <3>1
      <4> QED BY <4>1
    <3> HIDE DEF g
    <3> QED BY <3>2, <3>3, <3>4
  <2> QED BY <2>1, <2>2
<1>7. IsFlush(c, order, m, g)
  <2>1. g = [j \in 0 .. m |-> g[j]]
    OBVIOUS
  <2> HIDE DEF g
  <2>2. g = [j \in 0 .. m |-> IF j = 0 THEN c ELSE Step(g[j - 1], j)]
    BY <1>6, <2>1
  <2> QED BY <2>2 DEF IsFlush, Step
<1> QED BY <1>2, <1>7

\* After the first k inodes of the order.
FlushedSome(c, m, order, k, w) ==
  /\ Shaped(w, m) /\ w.inodes = c.inodes
  /\ w.idirty = c.idirty \ { order[j] : j \in 1 .. k }
  /\ \A b, s, F : IsPlace(b, s) /\ F \subseteq Parts /\ Safe(c, b, s, F)
       => Safe(w, b, s, IF s \in c.idirty /\ s \in DOMAIN w.loose THEN F \ {"tail"} ELSE F)

\* All inodes are clean then, and what they held is in dirty blocks.
LEMMA FlushAll ==
  ASSUME NEW c, NEW m, Shaped(c, m)
  PROVE  LET w == FlushInodes(c)
         IN /\ Shaped(w, m) /\ w.idirty = {}
            /\ \A b, s, F : IsPlace(b, s) /\ F \subseteq Parts /\ Safe(c, b, s, F)
                 => Safe(w, b, s, IF s \in c.idirty /\ s \in DOMAIN w.loose THEN F \ {"tail"} ELSE F)
<1>1. PICK order : Chain(c.inodes, m, order)
  BY DEF Shaped, Shape, Stack
<1>2. /\ m \in Nat /\ order \in [1 .. m -> Members(c.inodes)]
      /\ \A j, k \in 1 .. m : order[j] = order[k] => j = k
      /\ \A x \in Members(c.inodes) : \E k \in 1 .. m : order[k] = x
      /\ c.idirty \subseteq Members(c.inodes)
  <2>1. c.idirty \subseteq Members(c.inodes)
    BY DEF Shaped, Shape
  <2> QED BY <1>1, <2>1 DEF Chain, Members
<1>3. Order(c.inodes) = order
  BY <1>1, ChainOrder
<1>4. Len(order) = m
  BY <1>2, SeqDef, LenProperties
<1> DEFINE f == CHOOSE h : IsFlush(c, order, m, h)
<1>5. IsFlush(c, order, m, f)
  BY <1>2, FlushExists
<1>6. FlushInodes(c) = f[m]
  BY <1>3, <1>4 DEF FlushInodes, IsFlush
<1> HIDE DEF f
<1> DEFINE Bad == { k \in Nat : k <= m /\ ~FlushedSome(c, m, order, k, f[k]) }
<1>7. Bad = {}
  <2> SUFFICES ASSUME Bad # {} PROVE FALSE
    OBVIOUS
  <2>1. PICK k \in Bad : \A j \in Nat : j < k => j \notin Bad
    BY LeastOf
  <2>2. k \in Nat /\ k <= m /\ k \in 0 .. m /\ ~FlushedSome(c, m, order, k, f[k])
    BY <1>2, <2>1
  <2>3. k # 0
    <3>1. 0 \in 0 .. m
      BY <1>2
    <3>2. f[0] = c
      BY <1>5, <3>1 DEF IsFlush
    <3>3. { order[j] : j \in 1 .. 0 } = {}
      OBVIOUS
    <3>4. ASSUME NEW b, NEW s, NEW F, Safe(c, b, s, F)
          PROVE  Safe(c, b, s, IF s \in c.idirty /\ s \in DOMAIN c.loose THEN F \ {"tail"} ELSE F)
      BY <3>4, SafeLess
    <3>5. FlushedSome(c, m, order, 0, c)
      BY <3>3, <3>4 DEF FlushedSome
    <3> QED BY <2>2, <3>2, <3>5
  <2>4. k - 1 \in Nat /\ k - 1 < k /\ k - 1 <= m /\ k \in 1 .. m
    BY <1>2, <2>2, <2>3
  <2> DEFINE x == f[k - 1]
             i == order[k]
             G(s, w, F) == IF s \in c.idirty /\ s \in DOMAIN w.loose THEN F \ {"tail"} ELSE F
  <2>5. FlushedSome(c, m, order, k - 1, x)
    BY <2>1, <2>4
  <2>6. f[k] = IF i \in c.idirty THEN FlushInode(x, i) ELSE x
    BY <1>5, <2>2, <2>3 DEF IsFlush
  <2>7. { order[j] : j \in 1 .. k } = { order[j] : j \in 1 .. k - 1 } \cup {i}
    <3>1. \A j : j \in 1 .. k <=> j \in 1 .. k - 1 \/ j = k
      BY <2>4
    <3> QED BY <3>1
  <2>8. i \notin { order[j] : j \in 1 .. k - 1 }
    <3>1. \A j \in 1 .. k - 1 : j \in 1 .. m /\ j # k
      BY <1>2, <2>4
    <3> QED BY <1>2, <2>4, <3>1
  <2> HIDE DEF x, i
  <2>9. CASE i \notin c.idirty
    <3>1. x.idirty = c.idirty \ { order[j] : j \in 1 .. k }
      BY <2>5, <2>7, <2>9 DEF FlushedSome
    <3>2. FlushedSome(c, m, order, k, x)
      BY <2>5, <3>1 DEF FlushedSome
    <3> QED BY <2>2, <2>6, <2>9, <3>2
  <2>10. CASE i \in c.idirty
    <3> DEFINE w == FlushInode(x, i)
    <3>1. /\ Shaped(x, m) /\ x.inodes = c.inodes
          /\ x.idirty = c.idirty \ { order[j] : j \in 1 .. k - 1 }
          /\ \A b, s, F : IsPlace(b, s) /\ F \subseteq Parts /\ Safe(c, b, s, F) => Safe(x, b, s, G(s, x, F))
      BY <2>5 DEF FlushedSome
    <3>2. i \in x.idirty
      BY <2>8, <2>10, <3>1
    <3>3. /\ Shaped(w, m) /\ w.inodes = x.inodes /\ w.idirty = x.idirty \ {i}
          /\ DOMAIN x.loose \subseteq DOMAIN w.loose
          /\ \A b, s, F : IsPlace(b, s) /\ F \subseteq Parts /\ Safe(x, b, s, F)
               => Safe(w, b, s, IF s = i /\ s \in DOMAIN w.loose THEN F \ {"tail"} ELSE F)
      BY <3>1, <3>2, FlushShape
    <3> HIDE DEF w
    <3>4. ASSUME NEW b, NEW s, NEW F, IsPlace(b, s), F \subseteq Parts, Safe(c, b, s, F)
          PROVE  Safe(w, b, s, G(s, w, F))
      <4>1. Safe(x, b, s, G(s, x, F)) /\ G(s, x, F) \subseteq Parts
        BY <3>1, <3>4
      <4> DEFINE H == IF s = i /\ s \in DOMAIN w.loose THEN G(s, x, F) \ {"tail"} ELSE G(s, x, F)
      <4>2. Safe(w, b, s, H)
        BY <3>3, <3>4, <4>1
      <4>3. G(s, w, F) \subseteq H
        BY <2>10, <3>3
      <4> HIDE DEF H, G
      <4> QED BY <4>2, <4>3, SafeLess
    <3>5. w.idirty = c.idirty \ { order[j] : j \in 1 .. k }
      BY <2>7, <3>1, <3>3
    <3>6. FlushedSome(c, m, order, k, w)
      BY <3>1, <3>3, <3>4, <3>5 DEF FlushedSome
    <3> QED BY <2>2, <2>6, <2>10, <3>6 DEF w
  <2> QED BY <2>9, <2>10
<1>8. FlushedSome(c, m, order, m, f[m])
  BY <1>2, <1>7
<1>9. c.idirty \ { order[j] : j \in 1 .. m } = {}
  BY <1>2
<1> QED BY <1>6, <1>8, <1>9 DEF FlushedSome

\* Then each dirty block is written.
LEMMA WriteShape ==
  ASSUME NEW c, NEW m, Shaped(c, m)
  PROVE  LET w == WriteBlocks(c)
         IN /\ Shaped(w, m) /\ w.idirty = c.idirty /\ w.bdirty = {} /\ w.loose = c.loose
            /\ \A b, s, F : IsPlace(b, s) /\ Safe(c, b, s, F) => Safe(w, b, s, F)
<1> DEFINE disk == [b \in Blocks |-> IF b \in c.bdirty THEN c.buf[b] ELSE c.disk[b]]
           w == WriteBlocks(c)
<1>1. PICK n : Shape(c, m, n)
  BY DEF Shaped
<1>2. w = [c EXCEPT !.disk = disk, !.bdirty = {}]
  BY DEF WriteBlocks
<1> HIDE DEF disk, w
<1>3. w = [inodes |-> c.inodes, idirty |-> c.idirty, blocks |-> c.blocks, bdirty |-> {},
           buf |-> c.buf, loose |-> c.loose, disk |-> disk]
  BY <1>1, <1>2 DEF Shape, IsCache
<1>4. /\ w.inodes = c.inodes /\ w.idirty = c.idirty /\ w.bdirty = {} /\ w.blocks = c.blocks
      /\ w.buf = c.buf /\ w.loose = c.loose /\ w.disk = disk
  BY <1>3
<1>5. IsCache(w)
  BY <1>3, <1>4 DEF IsCache
<1>6. Contents(w)
  <2>1. disk = [b \in Blocks |-> disk[b]] /\ \A b \in Blocks : disk[b] \in Copy(b)
    BY <1>1 DEF disk, Shape, Contents
  <2> QED BY <1>1, <1>4, <2>1 DEF Shape, Contents
<1>7. Shape(w, m, n)
  <2>1. w.idirty \subseteq Members(c.inodes) \cap Inodes /\ w.bdirty \subseteq Members(c.blocks)
    BY <1>1, <1>4 DEF Shape
  <2> QED BY <1>1, <1>4, <1>5, <1>6, <2>1, SameLists
<1>8. ASSUME NEW b, NEW s, NEW F, IsPlace(b, s), Safe(c, b, s, F) PROVE Safe(w, b, s, F)
  <2>1. b \in Blocks /\ (b \in c.bdirty => b \in Members(c.blocks))
    BY <1>1, <1>8, PlaceFacts DEF IsPlace, Shape
  <2>2. w.disk[b][s] = IF b \in c.bdirty THEN c.buf[b][s] ELSE c.disk[b][s]
    BY <1>4, <2>1 DEF disk
  <2>3. Held(w, b, s) = Held(c, b, s) /\ View(w, s) = View(c, s)
    BY <1>4, <2>1, <2>2 DEF Held, View
  <2>4. Seen(w, b, s) = Seen(c, b, s)
    BY <1>4, <2>3 DEF Seen
  <2>5. b \in c.bdirty => Held(c, b, s) = c.buf[b][s]
    BY <2>1 DEF Held
  <2>6. CASE b \in c.bdirty
    BY <1>4, <1>8, <2>2, <2>3, <2>4, <2>5, <2>6 DEF Safe
  <2>7. CASE b \notin c.bdirty
    BY <1>4, <1>8, <2>2, <2>3, <2>4, <2>7 DEF Safe
  <2> QED BY <2>6, <2>7
<1>9. Shaped(w, m)
  BY <1>7 DEF Shaped
<1>10. /\ Shaped(w, m) /\ w.idirty = c.idirty /\ w.bdirty = {} /\ w.loose = c.loose
       /\ \A b, s, F : IsPlace(b, s) /\ Safe(c, b, s, F) => Safe(w, b, s, F)
  BY <1>4, <1>8, <1>9
<1> QED BY <1>10 DEF w

-----------------------------------------------------------------------------
(* The invariant.                                                          *)

CacheInv ==
  /\ Shaped(cache, InodeCap)
  /\ watched = <<watched[1], watched[2]>> /\ IsPlace(watched[1], watched[2])
  /\ excuse \subseteq Parts
  /\ Safe(cache, watched[1], watched[2], Flagged)

LEMMA CacheInit == Init => CacheInv
<1> SUFFICES ASSUME Init PROVE CacheInv
  OBVIOUS
<1> DEFINE disk == [b \in Blocks |-> [s \in Slots(b) |-> Parts]]
<1>1. cache = [inodes |-> Dummies, idirty |-> {}, blocks |-> EmptyStack, bdirty |-> {},
               buf |-> <<>>, loose |-> <<>>, disk |-> disk]
  BY DEF Init
<1> HIDE DEF disk
<1>2. /\ cache.inodes = Dummies /\ cache.idirty = {} /\ cache.blocks = EmptyStack
      /\ cache.bdirty = {} /\ cache.buf = <<>> /\ cache.loose = <<>> /\ cache.disk = disk
  BY <1>1
<1>3. IsCache(cache)
  BY <1>1, <1>2 DEF IsCache
<1>4. Members(cache.blocks) = {} /\ Stack(cache.blocks, 0)
  BY <1>2, EmptyChain
<1>5. Stack(cache.inodes, InodeCap) /\ Members(cache.inodes) \cap Nat = {}
  BY <1>2, DummiesStack
<1>6. Contents(cache)
  <2>1. disk = [b \in Blocks |-> disk[b]] /\ \A b \in Blocks : disk[b] \in Copy(b)
    BY DEF disk, Copy
  <2>2. DOMAIN <<>> = {} /\ <<>> = [b \in {} |-> <<>>[b]]
    OBVIOUS
  <2> QED BY <1>2, <1>4, <2>1, <2>2 DEF Contents
<1>7. DOMAIN cache.loose = {} /\ Members(cache.inodes) \cap Inodes = {} /\ 0 \notin Members(cache.inodes)
  <2>1. Inodes \subseteq Nat /\ 0 \in Nat
    BY CacheAssumption
  <2>2. DOMAIN <<>> = {}
    OBVIOUS
  <2> QED BY <1>2, <1>5, <2>1, <2>2
<1>8. Shape(cache, InodeCap, 0)
  <2>1. BlockCap \in Nat /\ 0 <= BlockCap
    BY CacheAssumption
  <2> HIDE DEF Members
  <2> QED BY <1>2, <1>3, <1>4, <1>5, <1>6, <1>7, <2>1 DEF Shape
<1>9. watched = <<watched[1], watched[2]>> /\ IsPlace(watched[1], watched[2])
  <2>1. CASE watched \in { Of(i) : i \in Changing }
    <3>1. PICK i \in Changing : watched = Of(i)
      BY <2>1
    <3>2. watched = <<Home(i), i>> /\ i \in Inodes
      BY <3>1, CacheAssumption DEF Of
    <3> QED BY <3>2 DEF IsPlace
  <2>2. CASE watched \in DataBlocks \X {0}
    BY <2>2 DEF IsPlace
  <2> QED BY <2>1, <2>2 DEF Init
<1> DEFINE b == watched[1]
           s == watched[2]
<1>10. b \in Blocks /\ s \in Slots(b)
  BY <1>9, PlaceFacts DEF IsPlace
<1>11. cache.disk[b][s] = Parts
  BY <1>2, <1>10 DEF disk
<1>12. Held(cache, b, s) = Parts
  BY <1>4, <1>11 DEF Held
<1>13. s \notin Members(cache.inodes)
  BY <1>7, <1>9 DEF IsPlace
<1>14. Safe(cache, b, s, Flagged)
  <2> HIDE DEF b, s
  <2> QED BY <1>11, <1>12, <1>13 DEF Safe, Seen, Flagged
<1>15. excuse \subseteq Parts
  BY DEF Init
<1> QED BY <1>8, <1>9, <1>14, <1>15 DEF CacheInv, Shaped

\* An inode i that is used is in shape to be changed.
LEMMA GetForStore ==
  ASSUME CacheInv, NEW i \in Inodes, NEW P \in Stores(Of(i), Parts)
  PROVE  /\ P \in SUBSET Parts /\ (watched[2] # i => P = {})
         /\ (watched[2] = i => Of(i) = watched)
<1>1. P \in SUBSET Parts /\ (Of(i) # watched => P = {})
  BY DEF Stores
<1>2. watched[2] = i => Of(i) = watched
  BY PlaceFacts DEF CacheInv, IsPlace, Of
<1>3. Of(i) = watched => watched[2] = i
  BY DEF Of
<1> QED BY <1>1, <1>2, <1>3

LEMMA CacheUpdateInode ==
  ASSUME CacheInv, NEW i \in Inodes, UpdateInode(i)
  PROVE  CacheInv'
<1> DEFINE b == watched[1]
           s == watched[2]
           g == GetInode(cache, i)
<1>1. PICK P \in Stores(Of(i), Parts) :
        /\ cache' = [StoreInode(g, i, P) EXCEPT !.idirty = @ \cup {i}]
        /\ excuse' = excuse \ P /\ watched' = watched
  BY DEF UpdateInode
<1> DEFINE h == StoreInode(g, i, P)
<1>2. P \in SUBSET Parts /\ (s # i => P = {})
  BY GetForStore
<1>3. /\ Shaped(g, InodeCap) /\ i \in Members(g.inodes) /\ Safe(g, b, s, Flagged)
      /\ IsPlace(b, s)
  BY GetInodeShape DEF CacheInv
<1> HIDE DEF g, b, s
<1>4. PICK n : Shape(g, InodeCap, n)
  BY <1>3 DEF Shaped
<1>5. /\ Shape(h, InodeCap, n)
      /\ h.inodes = g.inodes /\ h.idirty = g.idirty /\ h.blocks = g.blocks /\ h.bdirty = g.bdirty
      /\ h.disk[b][s] = IF s = i THEN g.disk[b][s] \ P ELSE g.disk[b][s]
      /\ s # i => Held(h, b, s) = Held(g, b, s)
      /\ s = i /\ i \in DOMAIN g.loose => Held(h, b, s) = Held(g, b, s) \ P
      /\ s = i /\ i \notin DOMAIN g.loose => Held(h, b, s) = Held(g, b, s) \cup P
      /\ Seen(h, b, s) = IF s = i THEN Seen(g, b, s) \cup P ELSE Seen(g, b, s)
  <2>1. /\ Shape(h, InodeCap, n) /\ InodeCopies(h, g, i, P)
        /\ h.inodes = g.inodes /\ h.idirty = g.idirty /\ h.blocks = g.blocks /\ h.bdirty = g.bdirty
    BY <1>2, <1>3, <1>4, StoreInodeShape
  <2> HIDE DEF h
  <2> QED BY <1>3, <2>1 DEF InodeCopies
<1> HIDE DEF h
<1> DEFINE I == h.idirty \cup {i}
<1>6. I \subseteq Members(h.inodes) \cap Inodes /\ h.bdirty \subseteq Members(h.blocks)
  BY <1>3, <1>5 DEF Shape
<1>70. cache' = [h EXCEPT !.idirty = I]
  BY <1>1 DEF h
<1> HIDE DEF I
<1>7. Flags(cache', h, I, h.bdirty)
  BY <1>5, <1>70 DEF Flags, Shape, IsCache
<1>8. /\ Shape(cache', InodeCap, n) /\ cache'.idirty = I /\ cache'.bdirty = h.bdirty
      /\ cache'.disk = h.disk
      /\ Held(cache', b, s) = Held(h, b, s) /\ Seen(cache', b, s) = Seen(h, b, s)
  BY <1>5, <1>6, <1>7, FlagsShape
<1>9. Flagged' = IF s = i THEN Flagged \cup P ELSE Flagged
  BY <1>1, <1>2 DEF Flagged
<1>10. Safe(cache', b, s, Flagged')
  <2>1. CASE s # i
    BY <1>2, <1>3, <1>5, <1>8, <1>9, <2>1 DEF Safe, I
  <2>2. CASE s = i
    BY <1>3, <1>5, <1>8, <1>9, <2>2 DEF Safe, I
  <2> QED BY <2>1, <2>2
<1>11. Shaped(cache', InodeCap)
  BY <1>8 DEF Shaped
<1>12. excuse' \subseteq Parts
  BY <1>1 DEF CacheInv
<1> QED BY <1>1, <1>10, <1>11, <1>12 DEF CacheInv, b, s

LEMMA CacheKeepParent ==
  ASSUME CacheInv, NEW i \in Inodes, KeepParent(i)
  PROVE  CacheInv'
<1> DEFINE b == watched[1]
           s == watched[2]
           g == GetInode(cache, i)
<1>1. PICK P \in Stores(Of(i), {"head"}) :
        /\ cache' = [StoreInode(g, i, P) EXCEPT !.idirty = @ \ {i}]
        /\ excuse' = excuse \cup P \cup IF i \in cache.idirty /\ Of(i) = watched THEN Parts ELSE {}
        /\ watched' = watched
  BY DEF KeepParent
<1> DEFINE h == StoreInode(g, i, P)
<1>2. P \in SUBSET Parts /\ (s # i => P = {}) /\ (s = i => Of(i) = watched)
  <2>1. P \in Stores(Of(i), Parts)
    BY DEF Stores, Parts
  <2> QED BY <2>1, GetForStore
<1>20. Of(i) = watched => s = i
  BY DEF Of
<1>3. /\ Shaped(g, InodeCap) /\ i \in Members(g.inodes) /\ Safe(g, b, s, Flagged)
      /\ IsPlace(b, s) /\ g.idirty \subseteq cache.idirty
  BY GetInodeShape DEF CacheInv
<1> HIDE DEF g, b, s
<1>4. PICK n : Shape(g, InodeCap, n)
  BY <1>3 DEF Shaped
<1>5. /\ Shape(h, InodeCap, n)
      /\ h.inodes = g.inodes /\ h.idirty = g.idirty /\ h.blocks = g.blocks /\ h.bdirty = g.bdirty
      /\ h.disk[b][s] = IF s = i THEN g.disk[b][s] \ P ELSE g.disk[b][s]
      /\ s # i => Held(h, b, s) = Held(g, b, s)
      /\ s = i /\ i \in DOMAIN g.loose => Held(h, b, s) = Held(g, b, s) \ P
      /\ s = i /\ i \notin DOMAIN g.loose => Held(h, b, s) = Held(g, b, s) \cup P
      /\ Seen(h, b, s) = IF s = i THEN Seen(g, b, s) \cup P ELSE Seen(g, b, s)
  <2>1. /\ Shape(h, InodeCap, n) /\ InodeCopies(h, g, i, P)
        /\ h.inodes = g.inodes /\ h.idirty = g.idirty /\ h.blocks = g.blocks /\ h.bdirty = g.bdirty
    BY <1>2, <1>3, <1>4, StoreInodeShape
  <2> HIDE DEF h
  <2> QED BY <1>3, <2>1 DEF InodeCopies
<1> HIDE DEF h
<1> DEFINE I == h.idirty \ {i}
<1>6. I \subseteq Members(h.inodes) \cap Inodes /\ h.bdirty \subseteq Members(h.blocks)
  BY <1>3, <1>5 DEF Shape
<1>70. cache' = [h EXCEPT !.idirty = I]
  BY <1>1 DEF h
<1> HIDE DEF I
<1>7. Flags(cache', h, I, h.bdirty)
  BY <1>5, <1>70 DEF Flags, Shape, IsCache
<1>8. /\ Shape(cache', InodeCap, n) /\ cache'.idirty = I /\ cache'.bdirty = h.bdirty
      /\ cache'.disk = h.disk
      /\ Held(cache', b, s) = Held(h, b, s) /\ Seen(cache', b, s) = Seen(h, b, s)
  BY <1>5, <1>6, <1>7, FlagsShape
<1>9. /\ s # i => Flagged' = Flagged
      /\ s = i => Flagged' \subseteq Flagged \ P
      /\ s = i /\ i \in cache.idirty => Flagged' = {}
  BY <1>1, <1>2, <1>20 DEF Flagged
<1>10. Safe(cache', b, s, Flagged')
  <2>1. CASE s # i
    BY <1>2, <1>3, <1>5, <1>8, <1>9, <2>1 DEF Safe, I
  <2>2. CASE s = i /\ i \in cache.idirty
    BY <1>3, <1>5, <1>8, <1>9, <2>2 DEF Safe, I
  <2>3. CASE s = i /\ i \notin cache.idirty
    BY <1>3, <1>5, <1>8, <1>9, <2>3 DEF Safe, I
  <2> QED BY <2>1, <2>2, <2>3
<1>11. Shaped(cache', InodeCap)
  BY <1>8 DEF Shaped
<1>12. excuse' \subseteq Parts
  BY <1>1, <1>2 DEF CacheInv
<1> QED BY <1>1, <1>10, <1>11, <1>12 DEF CacheInv, b, s

\* The data block d that is used is in shape to be changed.
LEMMA GetBlockForStore ==
  ASSUME CacheInv, NEW d \in DataBlocks, NEW P \in Stores(<<d, 0>>, Parts)
  PROVE  P \subseteq Parts /\ (watched[1] # d => P = {})
<1>1. P \subseteq Parts /\ (<<d, 0>> # watched => P = {})
  BY DEF Stores
<1>2. <<d, 0>> = watched => watched[1] = d
  OBVIOUS
<1> QED BY <1>1, <1>2

\* What the caches h have of place b, s after P was stored in block d of g.
StoredIn(h, g, d, P, b, s) ==
  /\ Shaped(g, InodeCap) /\ Safe(g, b, s, Flagged)
  /\ \E n : Shape(h, InodeCap, n)
  /\ h.idirty = g.idirty /\ h.blocks = g.blocks /\ h.bdirty = g.bdirty
  /\ h.inodes = g.inodes /\ d \in Members(g.blocks)
  /\ h.disk[b][s] = IF b = d THEN g.disk[b][s] \ P ELSE g.disk[b][s]
  /\ Held(h, b, s) = IF b = d THEN Held(g, b, s) \cup P ELSE Held(g, b, s)
  /\ Seen(h, b, s) = IF b = d THEN Seen(g, b, s) \cup P ELSE Seen(g, b, s)

\* Whether or not the change is flagged.
LEMMA StoreInBlock ==
  ASSUME CacheInv, NEW d \in DataBlocks, NEW P \in Stores(<<d, 0>>, Parts)
  PROVE  StoredIn(StoreBlock(GetBlock(cache, d), d, P), GetBlock(cache, d), d, P, watched[1], watched[2])
<1> DEFINE g == GetBlock(cache, d)
           h == StoreBlock(g, d, P)
           b == watched[1]
           s == watched[2]
<1>1. d \in Blocks
  BY PlaceFacts
<1>2. /\ Shaped(g, InodeCap) /\ Safe(g, b, s, Flagged) /\ d \in Members(g.blocks) /\ IsPlace(b, s)
  BY <1>1, GetBlockShape DEF CacheInv
<1>3. P \subseteq Parts
  BY GetBlockForStore
<1> HIDE DEF g, b, s
<1>4. PICK n : Shape(g, InodeCap, n)
  BY <1>2 DEF Shaped
<1>5. /\ Shape(h, InodeCap, n) /\ BlockCopies(h, g, d, P)
      /\ h.inodes = g.inodes /\ h.idirty = g.idirty /\ h.blocks = g.blocks /\ h.bdirty = g.bdirty
  BY <1>2, <1>3, <1>4, StoreBlockShape
<1> HIDE DEF h
<1>6. /\ h.disk[b][s] = IF b = d THEN g.disk[b][s] \ P ELSE g.disk[b][s]
      /\ Held(h, b, s) = IF b = d THEN Held(g, b, s) \cup P ELSE Held(g, b, s)
      /\ Seen(h, b, s) = IF b = d THEN Seen(g, b, s) \cup P ELSE Seen(g, b, s)
  BY <1>2, <1>5 DEF BlockCopies
<1>7. \E k : Shape(h, InodeCap, k)
  BY <1>5
<1> QED BY <1>2, <1>5, <1>6, <1>7 DEF g, h, b, s, StoredIn

LEMMA CacheUpdateBlock ==
  ASSUME CacheInv, NEW d \in DataBlocks, UpdateBlock(d)
  PROVE  CacheInv'
<1> DEFINE b == watched[1]
           s == watched[2]
           g == GetBlock(cache, d)
<1>1. PICK P \in Stores(<<d, 0>>, Parts) :
        /\ cache' = [StoreBlock(g, d, P) EXCEPT !.bdirty = @ \cup {d}]
        /\ excuse' = excuse \ P /\ watched' = watched
  BY DEF UpdateBlock
<1> DEFINE h == StoreBlock(g, d, P)
<1>2. P \subseteq Parts /\ (b # d => P = {})
  BY GetBlockForStore
<1>3. /\ Safe(g, b, s, Flagged) /\ \E n : Shape(h, InodeCap, n)
      /\ h.idirty = g.idirty /\ h.blocks = g.blocks /\ h.bdirty = g.bdirty /\ d \in Members(g.blocks)
      /\ h.disk[b][s] = IF b = d THEN g.disk[b][s] \ P ELSE g.disk[b][s]
      /\ Held(h, b, s) = IF b = d THEN Held(g, b, s) \cup P ELSE Held(g, b, s)
      /\ Seen(h, b, s) = IF b = d THEN Seen(g, b, s) \cup P ELSE Seen(g, b, s)
  <2>1. StoredIn(h, g, d, P, b, s)
    BY StoreInBlock
  <2> HIDE DEF g, h, b, s
  <2> QED BY <2>1 DEF StoredIn
<1> HIDE DEF g, b, s
<1>4. PICK n : Shape(h, InodeCap, n)
  BY <1>3
<1> HIDE DEF h
<1> DEFINE B == h.bdirty \cup {d}
<1>6. B \subseteq Members(h.blocks) /\ h.idirty \subseteq Members(h.inodes) \cap Inodes
  BY <1>3, <1>4 DEF Shape
<1>70. cache' = [h EXCEPT !.bdirty = B]
  BY <1>1 DEF h
<1> HIDE DEF B
<1>7. Flags(cache', h, h.idirty, B)
  BY <1>4, <1>70 DEF Flags, Shape, IsCache
<1>8. /\ Shape(cache', InodeCap, n) /\ cache'.idirty = h.idirty /\ cache'.bdirty = B
      /\ cache'.disk = h.disk
      /\ Held(cache', b, s) = Held(h, b, s) /\ Seen(cache', b, s) = Seen(h, b, s)
  BY <1>4, <1>6, <1>7, FlagsShape
<1>9. Flagged' = IF b = d THEN Flagged \cup P ELSE Flagged
  BY <1>1, <1>2 DEF Flagged
<1>10. Safe(cache', b, s, Flagged')
  <2>1. CASE b # d
    BY <1>3, <1>8, <1>9, <2>1 DEF Safe, B
  <2>2. CASE b = d
    BY <1>3, <1>8, <1>9, <2>2 DEF Safe, B
  <2> QED BY <2>1, <2>2
<1>11. Shaped(cache', InodeCap)
  BY <1>8 DEF Shaped
<1>12. excuse' \subseteq Parts
  BY <1>1 DEF CacheInv
<1> QED BY <1>1, <1>10, <1>11, <1>12 DEF CacheInv, b, s

LEMMA CacheZeroBlock ==
  ASSUME CacheInv, NEW d \in DataBlocks, ZeroBlock(d)
  PROVE  CacheInv'
<1> DEFINE b == watched[1]
           s == watched[2]
           g == GetBlock(cache, d)
<1>1. PICK P \in Stores(<<d, 0>>, Parts) :
        /\ cache' = StoreBlock(g, d, P)
        /\ excuse' = IF d \in g.bdirty THEN excuse \ P ELSE excuse \cup P
        /\ watched' = watched
  BY DEF ZeroBlock
<1>2. P \subseteq Parts /\ (b # d => P = {})
  BY GetBlockForStore
<1> DEFINE h == StoreBlock(g, d, P)
<1>3. /\ Safe(g, b, s, Flagged) /\ \E n : Shape(h, InodeCap, n)
      /\ h.idirty = g.idirty /\ h.bdirty = g.bdirty
      /\ h.disk[b][s] = IF b = d THEN g.disk[b][s] \ P ELSE g.disk[b][s]
      /\ Held(h, b, s) = IF b = d THEN Held(g, b, s) \cup P ELSE Held(g, b, s)
      /\ Seen(h, b, s) = IF b = d THEN Seen(g, b, s) \cup P ELSE Seen(g, b, s)
  <2>1. StoredIn(h, g, d, P, b, s)
    BY StoreInBlock
  <2> HIDE DEF g, h, b, s
  <2> QED BY <2>1 DEF StoredIn
<1>4. cache' = h
  BY <1>1
<1> HIDE DEF g, b, s, h
<1>5. /\ d \in g.bdirty => Flagged' = Flagged \cup P
      /\ d \notin g.bdirty => Flagged' = Flagged \ P
  BY <1>1, <1>2 DEF Flagged
<1>6. Safe(cache', b, s, Flagged')
  <2>1. CASE b # d
    <3>1. Flagged' = Flagged
      BY <1>2, <1>5, <2>1
    <3> QED BY <1>3, <1>4, <2>1, <3>1 DEF Safe
  <2>2. CASE b = d /\ d \in g.bdirty
    BY <1>3, <1>4, <1>5, <2>2 DEF Safe
  <2>3. CASE b = d /\ d \notin g.bdirty
    BY <1>3, <1>4, <1>5, <2>3 DEF Safe
  <2> QED BY <2>1, <2>2, <2>3
<1>7. Shaped(cache', InodeCap)
  BY <1>3, <1>4 DEF Shaped
<1>8. excuse' \subseteq Parts
  BY <1>1, <1>2 DEF CacheInv
<1> QED BY <1>1, <1>6, <1>7, <1>8 DEF CacheInv, b, s

LEMMA CacheSync ==
  ASSUME CacheInv, Sync
  PROVE  CacheInv' /\ cache'.idirty = {} /\ cache'.bdirty = {}
<1> DEFINE b == watched[1]
           s == watched[2]
           f == FlushInodes(cache)
           w == WriteBlocks(f)
           G == IF s \in cache.idirty /\ s \in DOMAIN f.loose THEN Flagged \ {"tail"} ELSE Flagged
<1>1. /\ cache' = w /\ watched' = watched
      /\ excuse' = excuse \cup IF s \in cache.idirty /\ s \in DOMAIN cache'.loose THEN {"tail"} ELSE {}
  BY DEF Sync, SyncCache
<1>2. /\ Shaped(f, InodeCap) /\ f.idirty = {}
      /\ \A p, t, F : IsPlace(p, t) /\ F \subseteq Parts /\ Safe(cache, p, t, F)
           => Safe(f, p, t, IF t \in cache.idirty /\ t \in DOMAIN f.loose THEN F \ {"tail"} ELSE F)
  BY FlushAll DEF CacheInv
<1>3. Safe(f, b, s, G)
  <2>1. IsPlace(b, s) /\ Flagged \subseteq Parts /\ Safe(cache, b, s, Flagged)
    BY DEF CacheInv, Flagged
  <2> HIDE DEF f, b, s
  <2> QED BY <1>2, <2>1
<1> HIDE DEF f
<1>4. /\ Shaped(w, InodeCap) /\ w.idirty = {} /\ w.bdirty = {} /\ w.loose = f.loose
      /\ Safe(w, b, s, G)
  <2>1. IsPlace(b, s)
    BY DEF CacheInv
  <2> HIDE DEF b, s, G
  <2> QED BY <1>2, <1>3, <2>1, WriteShape
<1> HIDE DEF w, b, s
<1>5. Flagged' = G
  BY <1>1, <1>4 DEF Flagged
<1>6. excuse' \subseteq Parts
  BY <1>1 DEF CacheInv, Parts
<1> HIDE DEF G
<1> QED BY <1>1, <1>4, <1>5, <1>6 DEF CacheInv, b, s

\* Every step keeps the invariant.
LEMMA CacheStep == CacheInv /\ [Next]_vars => CacheInv'
<1> SUFFICES ASSUME CacheInv, [Next]_vars PROVE CacheInv'
  OBVIOUS
<1>0. Changing \subseteq Inodes
  BY CacheAssumption
<1>1. ASSUME NEW i \in Inodes, ReadInode(i) PROVE CacheInv'
  <2> DEFINE g == GetInode(cache, i)
  <2>1. cache' = g /\ watched' = watched /\ excuse' = excuse
    BY <1>1 DEF ReadInode
  <2>2. Shaped(g, InodeCap) /\ Safe(g, watched[1], watched[2], Flagged)
    BY GetInodeShape DEF CacheInv
  <2> HIDE DEF g
  <2>3. Flagged' = Flagged
    BY <2>1 DEF Flagged
  <2> QED BY <2>1, <2>2, <2>3 DEF CacheInv
<1>2. ASSUME NEW d \in DataBlocks, ReadBlock(d) PROVE CacheInv'
  <2> DEFINE g == GetBlock(cache, d)
  <2>1. cache' = g /\ watched' = watched /\ excuse' = excuse
    BY <1>2 DEF ReadBlock
  <2>2. d \in Blocks
    BY PlaceFacts
  <2>3. Shaped(g, InodeCap) /\ Safe(g, watched[1], watched[2], Flagged)
    BY <2>2, GetBlockShape DEF CacheInv
  <2> HIDE DEF g
  <2>4. Flagged' = Flagged
    BY <2>1 DEF Flagged
  <2> QED BY <2>1, <2>3, <2>4 DEF CacheInv
<1>3. CASE UNCHANGED vars
  BY <1>3 DEF vars, CacheInv, Flagged
<1>4. CASE \E i \in Inodes : ReadInode(i)
  BY <1>1, <1>4
<1>5. CASE \E i \in Changing : UpdateInode(i) \/ KeepParent(i)
  BY <1>0, <1>5, CacheUpdateInode, CacheKeepParent
<1>6. CASE \E d \in DataBlocks : ReadBlock(d) \/ UpdateBlock(d) \/ ZeroBlock(d)
  BY <1>2, <1>6, CacheUpdateBlock, CacheZeroBlock
<1>7. CASE Sync
  BY <1>7, CacheSync
<1> QED BY <1>3, <1>4, <1>5, <1>6, <1>7 DEF Next

\* The copies that the properties name.
LEMMA CopiesSeen ==
  ASSUME CacheInv
  PROVE  /\ InBuffer = Held(cache, watched[1], watched[2]) /\ Current = Seen(cache, watched[1], watched[2])
         /\ DOMAIN cache.buf = Members(cache.blocks)
<1>1. DOMAIN cache.buf = Members(cache.blocks)
  BY DEF CacheInv, Shaped, Shape, Contents
<1>2. InBuffer = Held(cache, watched[1], watched[2])
  BY <1>1 DEF InBuffer, Held, OnDisk
<1> QED BY <1>1, <1>2 DEF Current, Seen

\* Only a change of an inode makes one dirty, and it is used with that.
LEMMA OrderStep ==
  ASSUME CacheInv, Next, NEW j \in cache'.idirty \ cache.idirty
  PROVE  Order(cache'.inodes) = UsedLast(Order(cache.inodes), j)
<1>0. Changing \subseteq Inodes /\ Shaped(cache, InodeCap) /\ DataBlocks \subseteq Blocks
  BY CacheAssumption, PlaceFacts DEF CacheInv
<1>1. ASSUME NEW i \in Inodes, ReadInode(i) PROVE FALSE
  <2>1. cache' = GetInode(cache, i)
    BY <1>1 DEF ReadInode
  <2> QED BY <1>0, <2>1, GetInodeShape
<1>2. ASSUME NEW i \in Changing, KeepParent(i) PROVE FALSE
  <2> DEFINE g == GetInode(cache, i)
  <2>1. PICK P \in Stores(Of(i), {"head"}) : cache' = [StoreInode(g, i, P) EXCEPT !.idirty = @ \ {i}]
    BY <1>2 DEF KeepParent
  <2>2. P \subseteq Parts
    BY DEF Stores, Parts
  <2>3. Shaped(g, InodeCap) /\ g.idirty \subseteq cache.idirty /\ i \in Members(g.inodes) /\ i \in Inodes
    BY <1>0, GetInodeShape
  <2> HIDE DEF g
  <2>4. PICK n : Shape(g, InodeCap, n)
    BY <2>3 DEF Shaped
  <2> DEFINE h == StoreInode(g, i, P)
  <2>5. Shape(h, InodeCap, n) /\ h.idirty = g.idirty
    BY <2>2, <2>3, <2>4, StoreInodeShape
  <2>6. cache' = [h EXCEPT !.idirty = h.idirty \ {i}]
    BY <2>1
  <2> HIDE DEF h
  <2>7. cache'.idirty = h.idirty \ {i}
    BY <2>5, <2>6 DEF Shape, IsCache
  <2> QED BY <2>3, <2>5, <2>7
<1>3. ASSUME NEW i \in Changing, UpdateInode(i) PROVE Order(cache'.inodes) = UsedLast(Order(cache.inodes), j)
  <2> DEFINE g == GetInode(cache, i)
  <2>1. PICK P \in Stores(Of(i), Parts) : cache' = [StoreInode(g, i, P) EXCEPT !.idirty = @ \cup {i}]
    BY <1>3 DEF UpdateInode
  <2>2. P \subseteq Parts
    BY DEF Stores
  <2>3. /\ Shaped(g, InodeCap) /\ g.idirty \subseteq cache.idirty /\ i \in Members(g.inodes) /\ i \in Inodes
        /\ Order(g.inodes) = UsedLast(Order(cache.inodes), i)
    BY <1>0, GetInodeShape
  <2> HIDE DEF g
  <2>4. PICK n : Shape(g, InodeCap, n)
    BY <2>3 DEF Shaped
  <2> DEFINE h == StoreInode(g, i, P)
  <2>5. Shape(h, InodeCap, n) /\ h.idirty = g.idirty /\ h.inodes = g.inodes
    BY <2>2, <2>3, <2>4, StoreInodeShape
  <2>6. cache' = [h EXCEPT !.idirty = h.idirty \cup {i}]
    BY <2>1
  <2> HIDE DEF h
  <2>7. cache'.idirty = h.idirty \cup {i} /\ cache'.inodes = h.inodes
    BY <2>5, <2>6 DEF Shape, IsCache
  <2>8. j = i
    BY <2>3, <2>5, <2>7
  <2> QED BY <2>3, <2>5, <2>7, <2>8
<1>4. ASSUME NEW d \in DataBlocks, ReadBlock(d) PROVE FALSE
  <2>1. cache' = GetBlock(cache, d)
    BY <1>4 DEF ReadBlock
  <2>2. GetBlock(cache, d).idirty = cache.idirty
    BY <1>0, GetBlockShape
  <2> QED BY <2>1, <2>2
<1>5. ASSUME NEW d \in DataBlocks, NEW P \in Stores(<<d, 0>>, Parts)
      PROVE  /\ StoreBlock(GetBlock(cache, d), d, P).idirty = cache.idirty
             /\ IsCache(StoreBlock(GetBlock(cache, d), d, P))
  <2> DEFINE g == GetBlock(cache, d)
             h == StoreBlock(g, d, P)
  <2>1. g.idirty = cache.idirty
    BY <1>0, GetBlockShape
  <2>2. h.idirty = g.idirty /\ \E n : Shape(h, InodeCap, n)
    BY StoreInBlock DEF StoredIn
  <2> HIDE DEF g, h
  <2>3. h.idirty = cache.idirty /\ IsCache(h)
    BY <2>1, <2>2 DEF Shape
  <2> QED BY <2>3 DEF g, h
<1>6. ASSUME NEW d \in DataBlocks, UpdateBlock(d) PROVE FALSE
  <2>1. PICK P \in Stores(<<d, 0>>, Parts) :
          cache' = [StoreBlock(GetBlock(cache, d), d, P) EXCEPT !.bdirty = @ \cup {d}]
    BY <1>6 DEF UpdateBlock
  <2> DEFINE h == StoreBlock(GetBlock(cache, d), d, P)
  <2>2. cache' = [h EXCEPT !.bdirty = h.bdirty \cup {d}]
    BY <2>1
  <2>3. h.idirty = cache.idirty /\ IsCache(h)
    BY <1>5
  <2> HIDE DEF h
  <2>4. cache'.idirty = cache.idirty
    BY <2>2, <2>3 DEF IsCache
  <2> QED BY <2>4
<1>7. ASSUME NEW d \in DataBlocks, ZeroBlock(d) PROVE FALSE
  <2>1. PICK P \in Stores(<<d, 0>>, Parts) : cache' = StoreBlock(GetBlock(cache, d), d, P)
    BY <1>7 DEF ZeroBlock
  <2>2. StoreBlock(GetBlock(cache, d), d, P).idirty = cache.idirty
    BY <1>5
  <2> QED BY <2>1, <2>2
<1>8. CASE Sync
  BY <1>8, CacheSync
<1>9. CASE \E i \in Inodes : ReadInode(i)
  BY <1>1, <1>9
<1>10. CASE \E i \in Changing : UpdateInode(i) \/ KeepParent(i)
  BY <1>2, <1>3, <1>10
<1>11. CASE \E d \in DataBlocks : ReadBlock(d) \/ UpdateBlock(d) \/ ZeroBlock(d)
  BY <1>4, <1>6, <1>7, <1>11
<1> QED BY <1>8, <1>9, <1>10, <1>11 DEF Next

-----------------------------------------------------------------------------
(* The theorems.                                                           *)

\* Whatever handlers read, change and sync, the caches are in shape and what
\* is watched is safe.
THEOREM CacheInvariant == Spec => []CacheInv
<1>1. Init => CacheInv
  BY CacheInit
<1>2. CacheInv /\ [Next]_vars => CacheInv'
  BY CacheStep
<1> QED BY <1>1, <1>2, PTL DEF Spec

\* For any sizes of the caches, both hold no more than they may, only what is
\* cached is dirty, and a cached inode has its block cached or is loose
\* (cache.c:41-195).
THEOREM CacheTypeOK == Spec => []TypeOK
<1>1. CacheInv => TypeOK
  <2> SUFFICES ASSUME CacheInv PROVE TypeOK
    OBVIOUS
  <2> DEFINE b == watched[1]
             s == watched[2]
  <2>1. PICK n : Shape(cache, InodeCap, n)
    BY DEF CacheInv, Shaped
  <2>2. /\ Stack(cache.inodes, InodeCap) /\ Stack(cache.blocks, n) /\ n <= BlockCap
    BY <2>1 DEF Shape
  <2>3. Cardinality(Members(cache.inodes)) = InodeCap /\ Cardinality(Members(cache.blocks)) <= BlockCap
    BY <2>2, StackFacts
  <2>4. cache.disk \in Copies
    <3>1. cache.disk = [x \in Blocks |-> cache.disk[x]] /\ \A x \in Blocks : cache.disk[x] \in Copy(x)
      BY <2>1 DEF Shape, Contents
    <3>2. \A x \in Blocks : cache.disk[x] \in UNION { Copy(y) : y \in Blocks }
      BY <3>1
    <3>3. Copies = [Blocks -> UNION { Copy(y) : y \in Blocks }]
      BY DEF Copies, Copy
    <3> QED BY <3>1, <3>2, <3>3
  <2>5. watched \in Places
    <3>1. watched = <<b, s>> /\ b \in Blocks /\ s \in Slots(b)
      BY PlaceFacts DEF CacheInv, IsPlace
    <3>2. <<b, s>> \in {b} \X Slots(b)
      BY <3>1
    <3> HIDE DEF b, s
    <3> QED BY <3>1, <3>2 DEF Places
  <2>6. /\ cache.bdirty \subseteq Members(cache.blocks)
        /\ cache.idirty \cup DOMAIN cache.loose \subseteq Members(cache.inodes) \cap Inodes
        /\ DOMAIN cache.buf = Members(cache.blocks)
        /\ \A i \in Members(cache.inodes) \cap (Inodes \ DOMAIN cache.loose) : Home(i) \in DOMAIN cache.buf
    BY <2>1, CopiesSeen DEF Shape
  <2> QED BY <2>3, <2>4, <2>5, <2>6 DEF TypeOK, CacheInv
<1> QED BY <1>1, CacheInvariant, PTL

\* After any sequence of hits, misses and evictions both caches are proper
\* doubly linked lists of their entries (cache.c:41-111, 152-174).
THEOREM CachesLinked == Spec => []Linked
<1>1. CacheInv => Linked
  BY StackFacts DEF CacheInv, Shaped, Shape, Linked
<1> QED BY <1>1, CacheInvariant, PTL

\* What GetInode and GetBlock return has every change that was flagged: no
\* eviction ever brings back an old copy (cache.c:137-145, 181-195).
THEOREM CachesCoherent == Spec => []Coherent
<1>1. CacheInv => Coherent
  BY CopiesSeen DEF CacheInv, Safe, Coherent
<1> QED BY <1>1, CacheInvariant, PTL

\* A flagged change that is not on the disk is in a copy that is marked to be
\* written there (cache.c:54, 259).
THEOREM ChangesRecoverable == Spec => []Recoverable
<1>1. CacheInv => Recoverable
  BY CopiesSeen DEF CacheInv, Safe, Recoverable, OnDisk
<1> QED BY <1>1, CacheInvariant, PTL

\* After Sync nothing flagged is missing from the disk, but for the tails of
\* inodes whose block had been evicted under them (yfs.c:1182-1213).
THEOREM SyncWritesFlagged == Spec => SyncWrites
<1>1. CacheInv /\ CacheInv' /\ [Next]_vars => [Syncs => Flagged' \subseteq OnDisk']_vars
  <2> SUFFICES ASSUME CacheInv, CacheInv', Syncs PROVE Flagged' \subseteq OnDisk'
    OBVIOUS
  <2>1. cache'.idirty = {} /\ cache'.bdirty = {}
    BY CacheSync DEF Syncs
  <2>2. Safe(cache', watched'[1], watched'[2], Flagged')
    BY DEF CacheInv
  <2>3. Flagged' \subseteq cache'.disk[watched'[1]][watched'[2]]
    BY <2>1, <2>2 DEF Safe
  <2> QED BY <2>3 DEF OnDisk
<1> QED BY <1>1, CacheInvariant, PTL DEF Spec, SyncWrites

\* Whenever a handler makes an inode dirty the cache is left with the inodes
\* used last, in that order (cache.c:147-151).
THEOREM InodesInOrder == Spec => InodeOrder
<1>1. CacheInv /\ [Next]_vars
      => [\A i \in cache'.idirty \ cache.idirty :
            Order(cache'.inodes) = UsedLast(Order(cache.inodes), i)]_vars
  BY OrderStep
<1> QED BY <1>1, CacheInvariant, PTL DEF Spec, InodeOrder
=============================================================================
