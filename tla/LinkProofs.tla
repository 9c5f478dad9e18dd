----------------------------- MODULE LinkProofs -----------------------------
(***************************************************************************)
(* What the handlers of YfsServer keep when the requests they get are out  *)
(* of date: those of several clients, whose lookups came before other      *)
(* changes.  Directories may then be truncated, lost or have a name twice, *)
(* so little is left of TreeInv.  What is left is LinkInv, and that it is  *)
(* enough for link counts never to be too low and for names never to stand *)
(* for free inodes.                                                        *)
(*                                                                         *)
(* As in YfsServerProofs, the effect of a handler on the live entries is   *)
(* one of five steps, and these preserve the invariant.                    *)
(***************************************************************************)
EXTENDS YfsServerProofs

-----------------------------------------------------------------------------
(* The invariant.                                                          *)

\* The entries of a directory are as many as its size says, nothing else has
\* entries.
Loose ==
  \A d \in Inodes :
    /\ inode[d].reuse <= MaxReuse
    /\ IF IsDirectory(d) THEN Len(inode[d].entry) = inode[d].size ELSE inode[d].entry = <<>>

\* The live entries of other inodes that stand for i.
Outside(i) == { l \in LivePairs(inode, i) : l[1] # i }

\* The links a directory has from itself, also when a truncation dropped them.
Own(i) == IF ~IsDirectory(i) THEN 0 ELSE IF i = Root THEN 2 ELSE 1

Enough(i) ==
  /\ IsFiniteSet(Outside(i))
  /\ IF i \in Used THEN Cardinality(Outside(i)) + Own(i) <= inode[i].nlink ELSE inode[i].nlink <= 0

\* Entry k of d is the only name of directory i in other directories, and d
\* has no other entry for it, not even a "..".
Sole(d, k, i) ==
  \A e \in Inodes \ {i} : \A j \in LiveIn(inode[e]) :
    /\ inode[e].entry[j].inum = i
    /\ inode[e].entry[j].name # DotDot \/ e = d
    => e = d /\ j = k

NamesUsed ==
  \A d \in Inodes : \A k \in LiveIn(inode[d]) :
    inode[d].entry[k].name # DotDot => inode[d].entry[k].inum \in Used

\* A directory names itself only as "." or, the root, "..".
Selves ==
  \A d \in Inodes : \A k \in LiveIn(inode[d]) :
    inode[d].entry[k].inum = d =>
      \/ k = 1 /\ inode[d].entry[k].name = Dot
      \/ k = 2 /\ inode[d].entry[k].name = DotDot /\ d = Root

NamedOnce ==
  \A d, i \in Inodes : \A k \in LiveIn(inode[d]) :
    /\ inode[d].entry[k].inum = i /\ inode[d].entry[k].name # DotDot
    /\ IsDirectory(i) /\ i # d
    => Sole(d, k, i)

\* No entry of another inode stands for a listed one, not even a "..", as it
\* may for one that is free but was not listed.
Listed == \A i \in free_inode_list : inode[i].type = FREE /\ Outside(i) = {}

LinkInv ==
  /\ IsDirectory(Root) /\ Listed /\ NamesUsed /\ Selves /\ NamedOnce
  /\ \A i \in Inodes : Enough(i)

\* What is known of a request to remove inode i from directory p, whatever
\* became of both since p was searched: p is still that directory, or it is
\* gone for good.
Pending(i, p) == i # p /\ p \notin free_inode_list /\ inode[p].type # REGULAR

\* And if i is a directory that p has an entry for, that is its only name.
Removable(i, p) ==
  \A k \in LiveIn(inode[p]) : inode[p].entry[k].inum = i /\ IsDirectory(i) => Sole(p, k, i)

-----------------------------------------------------------------------------
(* What a handler does to the entries that are live.                       *)

\* Directory d gets entry k, with name n for inode i.
Enters(d, k, n, i) ==
  /\ inode[d].type = DIRECTORY /\ inode'[d].type = DIRECTORY
  /\ k \in Nat \ LiveIn(inode[d]) /\ LiveIn(inode'[d]) = LiveIn(inode[d]) \cup {k}
  /\ inode'[d].entry[k] = [inum |-> i, name |-> n]
  /\ \A j \in LiveIn(inode[d]) : inode'[d].entry[j] = inode[d].entry[j]

\* Directory d loses entry k, which stands for inode i.
Clears(d, k, i) ==
  /\ inode[d].type = DIRECTORY /\ inode'[d].type = DIRECTORY
  /\ k \in LiveIn(inode[d]) /\ LiveIn(inode'[d]) = LiveIn(inode[d]) \ {k}
  /\ inode[d].entry[k].inum = i
  /\ \A j \in LiveIn(inode[d]) \ {k} : inode'[d].entry[j] = inode[d].entry[j]

\* Nothing, or a truncation.
LoseStep ==
  /\ \A d \in Inodes : /\ inode'[d].type = inode[d].type
                       /\ LiveIn(inode'[d]) \subseteq LiveIn(inode[d])
                       /\ \A k \in LiveIn(inode'[d]) : inode'[d].entry[k] = inode[d].entry[k]
  /\ SameLinks(Inodes) /\ free_inode_list' = free_inode_list

NewStep(d, k, n, i) ==
  /\ i \in free_inode_list /\ free_inode_list' = free_inode_list \ {i}
  /\ Enters(d, k, n, i)
  /\ \A j \in Inodes \ {d, i} : Kept(j)
  /\ SameLinks(Inodes \ {d, i})
  /\ \/ /\ inode'[i].type = REGULAR /\ LiveIn(inode'[i]) = {}
        /\ inode'[i].nlink = 1 /\ inode'[d].nlink = inode[d].nlink
     \/ /\ inode'[i].type = DIRECTORY /\ LiveIn(inode'[i]) = {1, 2}
        /\ inode'[i].entry[1] = [inum |-> i, name |-> Dot]
        /\ inode'[i].entry[2] = [inum |-> d, name |-> DotDot]
        /\ inode'[i].nlink = 2 /\ inode'[d].nlink = inode[d].nlink + 1

AddStep(d, k, n, i) ==
  /\ inode[i].type = REGULAR
  /\ Enters(d, k, n, i)
  /\ \A j \in Inodes \ {d} : Kept(j)
  /\ inode'[i].nlink = inode[i].nlink + 1 /\ SameLinks(Inodes \ {i})
  /\ free_inode_list' = free_inode_list

RemoveStep(d, k, i) ==
  /\ Clears(d, k, i)
  /\ \A j \in Inodes \ {d, i} : Kept(j)
  /\ SameLinks(Inodes \ {i})
  /\ \/ /\ inode[i].nlink # 1 /\ inode'[i].nlink = inode[i].nlink - 1
        /\ Kept(i) /\ free_inode_list' = free_inode_list
     \/ /\ inode[i].nlink = 1 /\ inode'[i].nlink = 0
        /\ inode'[i].type = FREE /\ LiveIn(inode'[i]) = {}
        /\ free_inode_list' = free_inode_list \cup {i}

VacateStep(d, k, i) ==
  /\ inode[i].type = DIRECTORY /\ i # Root
  /\ Clears(d, k, i)
  /\ \A j \in Inodes \ {d, i} : Kept(j)
  /\ inode'[i].type = FREE /\ LiveIn(inode'[i]) = {}
  /\ \A j \in Above(i) : \E m \in LiveIn(inode[i]) : /\ inode[i].entry[m].inum = j
                                                     /\ inode[i].entry[m].name = DotDot
  /\ inode'[i].nlink <= 0
  /\ \A j \in Inodes \ {i} : inode'[j].nlink = inode[j].nlink - (IF j \in Above(i) THEN 1 ELSE 0)
  /\ free_inode_list' = free_inode_list

-----------------------------------------------------------------------------
(* Entries and the sets of them.                                           *)

LEMMA LooseLive ==
  ASSUME NEW f \in [Inodes -> InodeType], NEW d \in Inodes,
         f[d].type # DIRECTORY => f[d].entry = <<>>
  PROVE  /\ LiveIn(f[d]) \in SUBSET Nat
         /\ f[d].type # DIRECTORY => LiveIn(f[d]) = {}
         /\ \A k \in LiveIn(f[d]) : f[d].entry[k].inum \in Inodes
<1>1. f[d].entry \in Seq(Entry) /\ Len(f[d].entry) \in Nat
  BY InodeFields, LenProperties
<1>2. \A k \in LiveIn(f[d]) : f[d].entry[k] \in Entry /\ f[d].entry[k].inum # Nil
  BY <1>1, ElementOfSeq DEF LiveIn
<1> QED BY <1>1, <1>2 DEF LiveIn, Entry

LEMMA LooseFacts ==
  ASSUME TypeOK, Loose, NEW d \in Inodes
  PROVE  /\ LiveIn(inode[d]) \in SUBSET Nat
         /\ inode[d].type # DIRECTORY => LiveIn(inode[d]) = {}
         /\ \A k \in LiveIn(inode[d]) : inode[d].entry[k].inum \in Inodes
BY LooseLive DEF TypeOK, Loose, IsDirectory

LEMMA LooseFactsPrimed ==
  ASSUME TypeOK', Loose', NEW d \in Inodes
  PROVE  /\ LiveIn(inode'[d]) \in SUBSET Nat
         /\ inode'[d].type # DIRECTORY => LiveIn(inode'[d]) = {}
         /\ \A k \in LiveIn(inode'[d]) : inode'[d].entry[k].inum \in Inodes
BY LooseLive DEF TypeOK, Loose, IsDirectory

LEMMA OutsideIs ==
  ASSUME TypeOK, Loose, NEW i, NEW d \in Inodes \ {i}, NEW k \in LiveIn(inode[d]),
         inode[d].entry[k].inum = i
  PROVE  <<d, k>> \in Outside(i)
BY LooseFacts DEF Outside, LivePairs

LEMMA OutsideIsPrimed ==
  ASSUME TypeOK', Loose', NEW i, NEW l \in Outside(i)'
  PROVE  /\ l = <<l[1], l[2]>> /\ l[1] \in Inodes \ {i} /\ l[2] \in LiveIn(inode'[l[1]])
         /\ inode'[l[1]].entry[l[2]].inum = i
BY DEF Outside, LivePairs

\* The entries for i are among those that were there and the new ones.
LEMMA OutsideStep ==
  ASSUME TypeOK, Loose, TypeOK', Loose', NEW i, NEW new,
         \A d \in Inodes \ {i} : \A k \in LiveIn(inode'[d]) :
           inode'[d].entry[k].inum = i =>
             <<d, k>> \in new \/ (k \in LiveIn(inode[d]) /\ inode[d].entry[k].inum = i)
  PROVE  Outside(i)' \subseteq Outside(i) \cup new
<1>1. ASSUME NEW l \in Outside(i)' PROVE l \in Outside(i) \cup new
  <2>1. /\ l = <<l[1], l[2]>> /\ l[1] \in Inodes \ {i} /\ l[2] \in LiveIn(inode'[l[1]])
        /\ inode'[l[1]].entry[l[2]].inum = i
    BY OutsideIsPrimed
  <2>2. l \in new \/ (l[2] \in LiveIn(inode[l[1]]) /\ inode[l[1]].entry[l[2]].inum = i)
    BY <2>1
  <2> QED BY <2>1, <2>2, OutsideIs
<1> QED BY <1>1

LEMMA Cardinalities ==
  ASSUME NEW S, IsFiniteSet(S), NEW T
  PROVE  /\ T \subseteq S => IsFiniteSet(T) /\ Cardinality(T) <= Cardinality(S)
         /\ \A x \in S : T \subseteq S \ {x} => Cardinality(T) <= Cardinality(S) - 1
         /\ \A x : T \subseteq S \cup {x} => IsFiniteSet(T) /\ Cardinality(T) <= Cardinality(S) + 1
         /\ Cardinality(S) \in Nat /\ (IsFiniteSet(T) => Cardinality(T) \in Nat)
<1>1. Cardinality(S) \in Nat /\ (IsFiniteSet(T) => Cardinality(T) \in Nat)
  BY FS_CardinalityType
<1>2. T \subseteq S => IsFiniteSet(T) /\ Cardinality(T) <= Cardinality(S)
  BY FS_Subset
<1>3. ASSUME NEW x \in S, T \subseteq S \ {x} PROVE Cardinality(T) <= Cardinality(S) - 1
  <2>1. IsFiniteSet(S \ {x}) /\ Cardinality(S \ {x}) = Cardinality(S) - 1
    BY FS_RemoveElement
  <2> QED BY <1>3, <2>1, FS_Subset
<1>4. ASSUME NEW x, T \subseteq S \cup {x}
      PROVE  IsFiniteSet(T) /\ Cardinality(T) <= Cardinality(S) + 1
  <2>1. IsFiniteSet(S \cup {x}) /\ Cardinality(S \cup {x}) <= Cardinality(S) + 1
    <3>1. CASE x \in S
      <4> DEFINE U == S \cup {x}
      <4>1. U = S
        BY <3>1
      <4>2. Cardinality(S) <= Cardinality(S) + 1
        BY <1>1
      <4> HIDE DEF U
      <4>3. IsFiniteSet(U) /\ Cardinality(U) <= Cardinality(S) + 1
        BY <4>1, <4>2
      <4> QED BY <4>3 DEF U
    <3>2. CASE x \notin S
      <4>1. IsFiniteSet(S \cup {x}) /\ Cardinality(S \cup {x}) = Cardinality(S) + 1
        BY <3>2, FS_AddElement
      <4> QED BY <1>1, <4>1
    <3> QED BY <3>1, <3>2
  <2>2. IsFiniteSet(T) /\ Cardinality(T) <= Cardinality(S \cup {x})
    BY <1>4, <2>1, FS_Subset
  <2>3. Cardinality(T) \in Nat /\ Cardinality(S \cup {x}) \in Nat
    BY <2>1, <2>2, FS_CardinalityType
  <2> QED BY <1>1, <2>1, <2>2, <2>3
<1> QED BY <1>1, <1>2, <1>3, <1>4

-----------------------------------------------------------------------------
(* The steps preserve the invariant.                                       *)

\* What requests under way rely on stays true.
RequestsKept ==
  \A i, p \in Inodes : Pending(i, p) => Pending(i, p)' /\ (Removable(i, p) => Removable(i, p)')

\* Every entry that is live now was live.
LosesNames ==
  \A d \in Inodes : /\ LiveIn(inode'[d]) \subseteq LiveIn(inode[d])
                    /\ \A k \in LiveIn(inode'[d]) : inode'[d].entry[k] = inode[d].entry[k]
                    /\ IsDirectory(d)' => IsDirectory(d)

LEMMA ShrinkFacts ==
  ASSUME TypeOK, Loose, TypeOK', Loose', LinkInv, LosesNames
  PROVE  /\ Selves' /\ NamedOnce'
         /\ \A i, p \in Inodes : Removable(i, p) => Removable(i, p)'
         /\ \A i : Outside(i)' \subseteq Outside(i)
<1>1. ASSUME NEW d \in Inodes, NEW i \in Inodes, NEW k, Sole(d, k, i) PROVE Sole(d, k, i)'
  BY <1>1 DEF Sole, LosesNames
<1>2. Selves'
  BY DEF LinkInv, Selves, LosesNames
<1>3. NamedOnce'
  <2>1. ASSUME NEW d \in Inodes, NEW i \in Inodes, NEW k \in LiveIn(inode'[d]),
               inode'[d].entry[k].inum = i, inode'[d].entry[k].name # DotDot,
               IsDirectory(i)', i # d
        PROVE  Sole(d, k, i)'
    <3>1. /\ k \in LiveIn(inode[d]) /\ inode[d].entry[k].inum = i
          /\ inode[d].entry[k].name # DotDot /\ IsDirectory(i)
      BY <2>1 DEF LosesNames
    <3>2. Sole(d, k, i)
      BY <2>1, <3>1 DEF LinkInv, NamedOnce
    <3> QED BY <1>1, <3>2
  <2> QED BY <2>1 DEF NamedOnce
<1>4. ASSUME NEW i \in Inodes, NEW p \in Inodes, Removable(i, p) PROVE Removable(i, p)'
  <2>1. ASSUME NEW k \in LiveIn(inode'[p]), inode'[p].entry[k].inum = i, IsDirectory(i)'
        PROVE  Sole(p, k, i)'
    <3>1. k \in LiveIn(inode[p]) /\ inode[p].entry[k].inum = i /\ IsDirectory(i)
      BY <2>1 DEF LosesNames
    <3>2. Sole(p, k, i)
      BY <1>4, <3>1 DEF Removable
    <3> QED BY <1>1, <3>2
  <2> QED BY <2>1 DEF Removable
<1>5. ASSUME NEW i PROVE Outside(i)' \subseteq Outside(i)
  <2>1. \A d \in Inodes \ {i} : \A k \in LiveIn(inode'[d]) :
          inode'[d].entry[k].inum = i =>
            <<d, k>> \in {} \/ (k \in LiveIn(inode[d]) /\ inode[d].entry[k].inum = i)
    BY DEF LosesNames
  <2>2. Outside(i)' \subseteq Outside(i) \cup {}
    BY <2>1, OutsideStep
  <2> QED BY <2>2
<1> QED BY <1>2, <1>3, <1>4, <1>5

\* Fewer entries for an inode whose number of links is the same are no fewer
\* than it says.
LEMMA EnoughKept ==
  ASSUME TypeOK, NEW i \in Inodes, Enough(i), Outside(i)' \subseteq Outside(i),
         inode'[i].type = inode[i].type, inode'[i].nlink = inode[i].nlink
  PROVE  Enough(i)'
<1>1. IsFiniteSet(Outside(i)') /\ Cardinality(Outside(i)') <= Cardinality(Outside(i))
  BY Cardinalities DEF Enough
<1>2. Cardinality(Outside(i)) \in Nat /\ Cardinality(Outside(i)') \in Nat
  BY <1>1, Cardinalities DEF Enough
<1>3. inode[i].nlink \in Int /\ Own(i) \in Nat /\ Own(i)' = Own(i)
  BY InodeFields DEF TypeOK, Own, IsDirectory
<1> QED BY <1>1, <1>2, <1>3 DEF Enough, Used

LEMMA LosePreserves ==
  ASSUME TypeOK, Loose, TypeOK', Loose', LinkInv, LoseStep
  PROVE  LinkInv' /\ RequestsKept
<1>1. LosesNames /\ free_inode_list' = free_inode_list /\ Used' = Used
      /\ \A d \in Inodes : inode'[d].type = inode[d].type /\ inode'[d].nlink = inode[d].nlink
  BY DEF LoseStep, LosesNames, IsDirectory, SameLinks, Used
<1>2. /\ Selves' /\ NamedOnce'
      /\ \A i, p \in Inodes : Removable(i, p) => Removable(i, p)'
      /\ \A i : Outside(i)' \subseteq Outside(i)
  BY <1>1, ShrinkFacts
<1>3. \A i \in Inodes : Enough(i)'
  BY <1>1, <1>2, EnoughKept DEF LinkInv
<1>4. IsDirectory(Root)'
  BY <1>1, RootAssumption DEF LinkInv, IsDirectory
<1>5. Listed'
  BY <1>1, <1>2 DEF LinkInv, Listed, TypeOK
<1>6. NamesUsed'
  BY <1>1 DEF LinkInv, NamesUsed, LosesNames
<1>7. RequestsKept
  BY <1>1, <1>2 DEF RequestsKept, Pending
<1> QED BY <1>2, <1>3, <1>4, <1>5, <1>6, <1>7 DEF LinkInv

\* The entry that is cleared was counted.
LEMMA ClearFacts ==
  ASSUME TypeOK, Loose, LinkInv, NEW d \in Inodes, NEW i \in Inodes, NEW k, d # i,
         Clears(d, k, i)
  PROVE  /\ <<d, k>> \in Outside(i)
         /\ IsFiniteSet(Outside(i)) /\ Cardinality(Outside(i)) \in Nat \ {0}
         /\ inode[i].nlink \in Int
         /\ i \in Used => Cardinality(Outside(i)) + Own(i) <= inode[i].nlink
         /\ i \notin Used => inode[i].nlink <= 0
<1>1. <<d, k>> \in Outside(i)
  BY OutsideIs DEF Clears
<1>2. Enough(i)
  BY DEF LinkInv
<1>3. IsFiniteSet(Outside(i)) /\ Cardinality(Outside(i)) \in Nat
  BY <1>2, Cardinalities DEF Enough
<1>4. Cardinality(Outside(i)) # 0
  BY <1>1, <1>3, FS_EmptySet
<1>5. inode[i].nlink \in Int
  BY InodeFields DEF TypeOK
<1> QED BY <1>1, <1>2, <1>3, <1>4, <1>5 DEF Enough

\* Without the cleared entry there is one less.
LEMMA OneLess ==
  ASSUME TypeOK, Loose, TypeOK', Loose', LinkInv, LosesNames,
         NEW d \in Inodes, NEW i \in Inodes, NEW k, d # i, Clears(d, k, i)
  PROVE  /\ Outside(i)' \subseteq Outside(i) \ {<<d, k>>}
         /\ IsFiniteSet(Outside(i)') /\ Cardinality(Outside(i)') \in Nat
         /\ Cardinality(Outside(i)') <= Cardinality(Outside(i)) - 1
<1>1. Outside(i)' \subseteq Outside(i)
  BY ShrinkFacts
<1>2. <<d, k>> \notin Outside(i)'
  BY OutsideIsPrimed DEF Clears
<1>3. <<d, k>> \in Outside(i) /\ IsFiniteSet(Outside(i))
  BY ClearFacts
<1> DEFINE S == Outside(i)
           T == Outside(i)'
           x == <<d, k>>
<1>4. x \in S /\ T \subseteq S \ {x} /\ IsFiniteSet(S) /\ T \subseteq S
  BY <1>1, <1>2, <1>3
<1> HIDE DEF S, T, x
<1>5. IsFiniteSet(T) /\ Cardinality(T) <= Cardinality(S) - 1
  BY <1>4, Cardinalities
<1>6. Cardinality(T) \in Nat
  BY <1>5, FS_CardinalityType
<1> QED BY <1>4, <1>5, <1>6 DEF S, T, x

LEMMA RemovePreserves ==
  ASSUME TypeOK, Loose, TypeOK', Loose', LinkInv,
         NEW d \in Inodes, NEW i \in Inodes, NEW k, d # i, RemoveStep(d, k, i)
  PROVE  LinkInv' /\ RequestsKept
<1>0. REGULAR # FREE /\ DIRECTORY # FREE /\ DIRECTORY # REGULAR
  BY DEF DIRECTORY, FREE, REGULAR
<1> DEFINE last == inode[i].nlink = 1
<1>1. Clears(d, k, i) /\ \A j \in Inodes \ {d, i} : Kept(j)
  BY DEF RemoveStep
<1>2. /\ inode'[i].nlink = inode[i].nlink - 1
      /\ ~last => Kept(i) /\ free_inode_list' = free_inode_list
      /\ last => /\ inode'[i].type = FREE /\ LiveIn(inode'[i]) = {}
                 /\ free_inode_list' = free_inode_list \cup {i}
      /\ \A j \in Inodes \ {i} : inode'[j].nlink = inode[j].nlink
  BY DEF RemoveStep, SameLinks
<1>3. LosesNames
  <2>1. ASSUME NEW j \in Inodes
        PROVE  /\ LiveIn(inode'[j]) \subseteq LiveIn(inode[j])
               /\ \A m \in LiveIn(inode'[j]) : inode'[j].entry[m] = inode[j].entry[m]
               /\ IsDirectory(j)' => IsDirectory(j)
    <3>1. CASE j = d
      BY <1>1, <3>1 DEF Clears, IsDirectory
    <3>2. CASE j = i
      BY <1>0, <1>2, <3>2 DEF Kept, IsDirectory
    <3>3. CASE j \notin {d, i}
      BY <1>1, <3>3 DEF Kept, IsDirectory
    <3> QED BY <3>1, <3>2, <3>3
  <2> QED BY <2>1 DEF LosesNames
<1>4. /\ Selves' /\ NamedOnce'
      /\ \A j, p \in Inodes : Removable(j, p) => Removable(j, p)'
      /\ \A j : Outside(j)' \subseteq Outside(j)
  BY <1>3, ShrinkFacts
<1>5. /\ <<d, k>> \in Outside(i)
      /\ IsFiniteSet(Outside(i)) /\ Cardinality(Outside(i)) \in Nat \ {0}
      /\ inode[i].nlink \in Int
      /\ i \in Used => Cardinality(Outside(i)) + Own(i) <= inode[i].nlink
      /\ i \notin Used => inode[i].nlink <= 0
  BY <1>1, ClearFacts
<1>6. /\ IsFiniteSet(Outside(i)') /\ Cardinality(Outside(i)') \in Nat
      /\ Cardinality(Outside(i)') <= Cardinality(Outside(i)) - 1
  BY <1>1, <1>3, OneLess
<1>7. Own(i) \in Nat /\ (IsDirectory(i) => Own(i) >= 1)
  BY DEF Own
<1>8. ASSUME last PROVE inode[i].type = REGULAR /\ Outside(i)' = {}
  <2>1. i \in Used /\ Cardinality(Outside(i)) + Own(i) <= 1
    BY <1>5, <1>8
  <2>2. ~IsDirectory(i) /\ Cardinality(Outside(i)') = 0
    BY <1>5, <1>6, <1>7, <2>1
  <2>3. inode[i].type = REGULAR
    <3>1. inode[i].type \in {FREE, DIRECTORY, REGULAR}
      BY InodeFields DEF TypeOK
    <3> QED BY <2>1, <2>2, <3>1 DEF IsDirectory, Used
  <2> QED BY <1>6, <2>2, <2>3, FS_EmptySet
<1>9. \A j \in Inodes : inode'[j].type = IF last /\ j = i THEN FREE ELSE inode[j].type
  <2>1. ASSUME NEW j \in Inodes
        PROVE  inode'[j].type = IF last /\ j = i THEN FREE ELSE inode[j].type
    <3>1. CASE j = d
      BY <1>1, <3>1 DEF Clears
    <3>2. CASE j = i
      BY <1>2, <3>2 DEF Kept
    <3>3. CASE j \notin {d, i}
      BY <1>1, <3>3 DEF Kept
    <3> QED BY <3>1, <3>2, <3>3
  <2> QED BY <2>1
<1> HIDE DEF last
<1>10. ASSUME NEW j \in Inodes PROVE Enough(j)'
  <2>1. CASE j # i
    <3>1. inode'[j].type = inode[j].type /\ inode'[j].nlink = inode[j].nlink
      BY <1>2, <1>9, <2>1
    <3>2. Enough(j) /\ Outside(j)' \subseteq Outside(j)
      BY <1>4 DEF LinkInv
    <3> QED BY <3>1, <3>2, EnoughKept
  <2>2. CASE j = i
    <3>1. IF i \in Used' THEN Cardinality(Outside(i)') + Own(i)' <= inode'[i].nlink
                         ELSE inode'[i].nlink <= 0
      <4>1. CASE last
        <5>1. i \notin Used' /\ inode'[i].nlink = 0
          BY <1>2, <1>9, <4>1 DEF Used, last
        <5> QED BY <5>1
      <4>2. CASE ~last
        <5>1. (i \in Used' <=> i \in Used) /\ Own(i)' = Own(i)
          BY <1>9, <4>2 DEF Used, Own, IsDirectory
        <5> QED BY <1>2, <1>5, <1>6, <1>7, <5>1
      <4> QED BY <4>1, <4>2
    <3> QED BY <1>6, <2>2, <3>1 DEF Enough
  <2> QED BY <2>1, <2>2
<1>11. IsDirectory(Root)'
  BY <1>0, <1>8, <1>9, RootAssumption DEF LinkInv, IsDirectory
<1>12. Listed'
  <2>1. ASSUME NEW j \in free_inode_list' PROVE inode'[j].type = FREE /\ Outside(j)' = {}
    <3>1. CASE last /\ j = i
      BY <1>2, <1>8, <3>1
    <3>2. CASE ~(last /\ j = i)
      <4>1. j \in free_inode_list /\ j \in Inodes
        BY <1>2, <3>2 DEF TypeOK
      <4>2. inode[j].type = FREE /\ Outside(j) = {}
        BY <4>1 DEF LinkInv, Listed
      <4> QED BY <1>4, <1>9, <3>2, <4>1, <4>2
    <3> QED BY <3>1, <3>2
  <2> QED BY <2>1 DEF Listed
<1>13. NamesUsed'
  <2>1. ASSUME NEW e \in Inodes, NEW m \in LiveIn(inode'[e]), inode'[e].entry[m].name # DotDot
        PROVE  inode'[e].entry[m].inum \in Used'
    <3> DEFINE j == inode'[e].entry[m].inum
    <3>1. m \in LiveIn(inode[e]) /\ inode[e].entry[m].inum = j /\ inode[e].entry[m].name # DotDot
      BY <1>3, <2>1 DEF LosesNames
    <3>2. j \in Used /\ j \in Inodes
      BY <3>1 DEF LinkInv, NamesUsed, Used
    <3>3. ~(last /\ j = i)
      <4>1. SUFFICES ASSUME last, j = i PROVE FALSE
        OBVIOUS
      <4>2. e # i
        BY <1>2, <2>1, <4>1 DEF last
      <4>3. <<e, m>> \in Outside(i)'
        <5>1. inode'[e].type = DIRECTORY /\ m \in Nat
          BY LooseFactsPrimed
        <5> QED BY <2>1, <4>1, <4>2, <5>1 DEF Outside, LivePairs
      <4> QED BY <1>8, <4>1, <4>3
    <3> QED BY <1>9, <3>2, <3>3 DEF Used
  <2> QED BY <2>1 DEF NamesUsed
<1>14. RequestsKept
  <2>1. ASSUME NEW j \in Inodes, NEW p \in Inodes, Pending(j, p) PROVE Pending(j, p)'
    BY <1>0, <1>2, <1>8, <1>9, <2>1 DEF Pending
  <2> QED BY <1>4, <2>1 DEF RequestsKept
<1> QED BY <1>4, <1>10, <1>11, <1>12, <1>13, <1>14 DEF LinkInv

LEMMA VacatePreserves ==
  ASSUME TypeOK, Loose, TypeOK', Loose', LinkInv,
         NEW d \in Inodes, NEW i \in Inodes, NEW k, d # i, VacateStep(d, k, i), Removable(i, d)
  PROVE  LinkInv' /\ RequestsKept
<1>0. REGULAR # FREE /\ DIRECTORY # FREE /\ DIRECTORY # REGULAR
  BY DEF DIRECTORY, FREE, REGULAR
<1>1. Clears(d, k, i) /\ \A j \in Inodes \ {d, i} : Kept(j)
  BY DEF VacateStep
<1>2. /\ inode[i].type = DIRECTORY /\ i # Root
      /\ inode'[i].type = FREE /\ LiveIn(inode'[i]) = {} /\ inode'[i].nlink <= 0
      /\ free_inode_list' = free_inode_list
  BY DEF VacateStep
<1>3. LosesNames /\ \A j \in Inodes \ {i} : inode'[j].type = inode[j].type
  <2>1. ASSUME NEW j \in Inodes
        PROVE  /\ LiveIn(inode'[j]) \subseteq LiveIn(inode[j])
               /\ \A m \in LiveIn(inode'[j]) : inode'[j].entry[m] = inode[j].entry[m]
               /\ IsDirectory(j)' => IsDirectory(j)
               /\ j # i => inode'[j].type = inode[j].type
    <3>1. CASE j = d
      BY <1>1, <3>1 DEF Clears, IsDirectory
    <3>2. CASE j = i
      BY <1>0, <1>2, <3>2 DEF IsDirectory
    <3>3. CASE j \notin {d, i}
      BY <1>1, <3>3 DEF Kept, IsDirectory
    <3> QED BY <3>1, <3>2, <3>3
  <2> QED BY <2>1 DEF LosesNames
<1>4. /\ Selves' /\ NamedOnce'
      /\ \A j, p \in Inodes : Removable(j, p) => Removable(j, p)'
      /\ \A j : Outside(j)' \subseteq Outside(j)
  BY <1>3, ShrinkFacts
<1>5. \A j \in Inodes \ {i} : inode'[j].nlink = inode[j].nlink - (IF j \in Above(i) THEN 1 ELSE 0)
  BY DEF VacateStep
<1>6. i \notin free_inode_list
  BY <1>0, <1>2 DEF LinkInv, Listed
\* The target's entry for its parent was counted.
<1>7. ASSUME NEW j \in Inodes \ {i}, j \in Above(i)
      PROVE  /\ IsFiniteSet(Outside(j)') /\ Cardinality(Outside(j)') \in Nat
             /\ Cardinality(Outside(j)') <= Cardinality(Outside(j)) - 1
  <2>1. PICK m \in LiveIn(inode[i]) : inode[i].entry[m].inum = j
    BY <1>7 DEF VacateStep
  <2> DEFINE S == Outside(j)
             T == Outside(j)'
             x == <<i, m>>
  <2>2. x \in S
    BY <2>1, OutsideIs
  <2>3. x \notin T
    BY <1>2, OutsideIsPrimed
  <2>4. T \subseteq S /\ IsFiniteSet(S)
    BY <1>4 DEF LinkInv, Enough
  <2> HIDE DEF S, T, x
  <2>5. T \subseteq S \ {x}
    BY <2>3, <2>4
  <2>6. IsFiniteSet(T) /\ Cardinality(T) <= Cardinality(S) - 1
    BY <2>2, <2>4, <2>5, Cardinalities
  <2>7. Cardinality(T) \in Nat
    BY <2>6, FS_CardinalityType
  <2> QED BY <2>6, <2>7 DEF S, T
<1>8. ASSUME NEW j \in Inodes PROVE Enough(j)'
  <2>1. CASE j = i
    <3>1. i \notin Used'
      BY <1>2 DEF Used
    <3>2. IsFiniteSet(Outside(i)')
      <4>1. Outside(i)' \subseteq Outside(i) /\ IsFiniteSet(Outside(i))
        BY <1>4 DEF LinkInv, Enough
      <4> QED BY <4>1, FS_Subset
    <3> QED BY <1>2, <2>1, <3>1, <3>2 DEF Enough
  <2>2. CASE j # i /\ j \notin Above(i)
    <3>1. inode'[j].nlink = inode[j].nlink /\ inode'[j].type = inode[j].type
      <4>1. inode[j].nlink \in Int
        BY InodeFields DEF TypeOK
      <4> QED BY <1>3, <1>5, <2>2, <4>1
    <3>2. Enough(j) /\ Outside(j)' \subseteq Outside(j)
      BY <1>4 DEF LinkInv
    <3> QED BY <3>1, <3>2, EnoughKept
  <2>3. CASE j # i /\ j \in Above(i)
    <3>1. /\ IsFiniteSet(Outside(j)') /\ Cardinality(Outside(j)') \in Nat
          /\ Cardinality(Outside(j)') <= Cardinality(Outside(j)) - 1
      BY <1>7, <2>3
    <3>2. inode'[j].nlink = inode[j].nlink - 1 /\ inode[j].nlink \in Int
      <4>1. inode[j].nlink \in Int
        BY InodeFields DEF TypeOK
      <4> QED BY <1>5, <2>3, <4>1
    <3>3. inode'[j].type = inode[j].type
      BY <1>3, <2>3
    <3>4. (j \in Used' <=> j \in Used) /\ Own(j)' = Own(j) /\ Own(j) \in Nat
      BY <3>3 DEF Used, Own, IsDirectory
    <3>5. Enough(j)
      BY DEF LinkInv
    <3>6. Cardinality(Outside(j)) \in Nat
      BY <3>5, FS_CardinalityType DEF Enough
    <3> QED BY <3>1, <3>2, <3>4, <3>5, <3>6 DEF Enough
  <2> QED BY <2>1, <2>2, <2>3
<1>9. IsDirectory(Root)'
  BY <1>2, <1>3, RootAssumption DEF LinkInv, IsDirectory
<1>10. Listed'
  <2>1. ASSUME NEW j \in free_inode_list' PROVE inode'[j].type = FREE /\ Outside(j)' = {}
    <3>1. j \in free_inode_list /\ j \in Inodes \ {i}
      BY <1>2, <1>6 DEF TypeOK
    <3>2. inode[j].type = FREE /\ Outside(j) = {}
      BY <3>1 DEF LinkInv, Listed
    <3> QED BY <1>3, <1>4, <3>1, <3>2
  <2> QED BY <2>1 DEF Listed
\* The entry that is cleared was the target's last name.
<1>11. Sole(d, k, i)
  BY <1>1, <1>2 DEF Removable, Clears, IsDirectory
<1>12. NamesUsed'
  <2>1. ASSUME NEW e \in Inodes, NEW m \in LiveIn(inode'[e]), inode'[e].entry[m].name # DotDot
        PROVE  inode'[e].entry[m].inum \in Used'
    <3> DEFINE j == inode'[e].entry[m].inum
    <3>1. m \in LiveIn(inode[e]) /\ inode[e].entry[m].inum = j /\ inode[e].entry[m].name # DotDot
      BY <1>3, <2>1 DEF LosesNames
    <3>2. j \in Used /\ j \in Inodes
      BY <3>1 DEF LinkInv, NamesUsed, Used
    <3>3. j # i
      <4>1. SUFFICES ASSUME j = i PROVE FALSE
        OBVIOUS
      <4>2. e # i
        BY <1>2, <2>1
      <4>3. e = d /\ m = k
        BY <1>11, <3>1, <4>1, <4>2 DEF Sole
      <4> QED BY <1>1, <2>1, <4>3 DEF Clears
    <3> QED BY <1>3, <3>2, <3>3 DEF Used
  <2> QED BY <2>1 DEF NamesUsed
<1>13. RequestsKept
  <2>1. ASSUME NEW j \in Inodes, NEW p \in Inodes, Pending(j, p) PROVE Pending(j, p)'
    BY <1>0, <1>2, <1>3, <2>1 DEF Pending
  <2> QED BY <1>4, <2>1 DEF RequestsKept
<1> QED BY <1>4, <1>8, <1>9, <1>10, <1>12, <1>13 DEF LinkInv

-----------------------------------------------------------------------------
(* The steps that enter a name.                                            *)

\* One entry more.
LEMMA OneMore ==
  ASSUME TypeOK, Loose, TypeOK', Loose', NEW i \in Inodes, Enough(i), NEW x,
         Outside(i)' \subseteq Outside(i) \cup {x}
  PROVE  /\ IsFiniteSet(Outside(i)') /\ Cardinality(Outside(i)') \in Nat
         /\ Cardinality(Outside(i)') <= Cardinality(Outside(i)) + 1
         /\ Cardinality(Outside(i)) \in Nat
<1>1. IsFiniteSet(Outside(i))
  BY DEF Enough
<1> DEFINE S == Outside(i)
           T == Outside(i)'
<1> HIDE DEF S, T
<1>2. IsFiniteSet(S) /\ T \subseteq S \cup {x}
  BY <1>1 DEF S, T
<1>3. IsFiniteSet(T) /\ Cardinality(T) <= Cardinality(S) + 1
  BY <1>2, Cardinalities
<1>4. Cardinality(T) \in Nat /\ Cardinality(S) \in Nat
  BY <1>2, <1>3, FS_CardinalityType
<1> QED BY <1>3, <1>4 DEF S, T

LEMMA AddPreserves ==
  ASSUME TypeOK, Loose, TypeOK', Loose', LinkInv,
         NEW d \in Inodes, NEW i \in Inodes, NEW k, NEW n, AddStep(d, k, n, i)
  PROVE  LinkInv' /\ RequestsKept
<1>0. REGULAR # FREE /\ DIRECTORY # FREE /\ DIRECTORY # REGULAR
  BY DEF DIRECTORY, FREE, REGULAR
<1>1. /\ inode[i].type = REGULAR /\ Enters(d, k, n, i) /\ \A j \in Inodes \ {d} : Kept(j)
      /\ inode'[i].nlink = inode[i].nlink + 1
      /\ \A j \in Inodes \ {i} : inode'[j].nlink = inode[j].nlink
      /\ free_inode_list' = free_inode_list
  BY DEF AddStep, SameLinks
<1>2. i # d
  BY <1>0, <1>1 DEF Enters
<1>3. ASSUME NEW j \in Inodes
      PROVE  /\ inode'[j].type = inode[j].type
             /\ \A m \in LiveIn(inode'[j]) :
                  \/ j = d /\ m = k /\ inode'[j].entry[m] = [inum |-> i, name |-> n]
                  \/ m \in LiveIn(inode[j]) /\ inode'[j].entry[m] = inode[j].entry[m]
  <2>1. CASE j = d
    BY <1>1, <2>1 DEF Enters
  <2>2. CASE j # d
    BY <1>1, <2>2 DEF Kept
  <2> QED BY <2>1, <2>2
<1>4. Used' = Used /\ \A j \in Inodes : IsDirectory(j)' <=> IsDirectory(j)
  BY <1>3 DEF Used, IsDirectory
<1>5. ASSUME NEW j, NEW S, j = i => <<d, k>> \in S PROVE Outside(j)' \subseteq Outside(j) \cup S
  <2>1. \A e \in Inodes \ {j} : \A m \in LiveIn(inode'[e]) :
          inode'[e].entry[m].inum = j =>
            <<e, m>> \in S \/ (m \in LiveIn(inode[e]) /\ inode[e].entry[m].inum = j)
    BY <1>3, <1>5
  <2> QED BY <2>1, OutsideStep
<1>6. ASSUME NEW j \in Inodes PROVE Enough(j)'
  <2>1. CASE j # i
    <3>1. Enough(j) /\ Outside(j)' \subseteq Outside(j)
      <4>1. Outside(j)' \subseteq Outside(j) \cup {}
        BY <1>5, <2>1
      <4> QED BY <4>1 DEF LinkInv
    <3> QED BY <1>1, <1>3, <2>1, <3>1, EnoughKept
  <2>2. CASE j = i
    <3>1. Enough(i)
      BY DEF LinkInv
    <3>2. Outside(i)' \subseteq Outside(i) \cup {<<d, k>>}
      BY <1>5
    <3>3. /\ IsFiniteSet(Outside(i)') /\ Cardinality(Outside(i)') \in Nat
          /\ Cardinality(Outside(i)') <= Cardinality(Outside(i)) + 1
          /\ Cardinality(Outside(i)) \in Nat
      BY <3>1, <3>2, OneMore
    <3>4. i \in Used /\ i \in Used' /\ Own(i) = 0 /\ Own(i)' = 0 /\ inode[i].nlink \in Int
      <4>1. i \in Used /\ i \in Used'
        BY <1>0, <1>1, <1>4 DEF Used
      <4>2. ~IsDirectory(i)
        BY <1>0, <1>1 DEF IsDirectory
      <4> QED BY <1>4, <4>1, <4>2, InodeFields DEF Own, TypeOK
    <3> QED BY <1>1, <2>2, <3>1, <3>3, <3>4 DEF Enough
  <2> QED BY <2>1, <2>2
<1>7. IsDirectory(Root)'
  BY <1>4, RootAssumption DEF LinkInv
<1>8. Listed'
  <2>1. ASSUME NEW j \in free_inode_list' PROVE inode'[j].type = FREE /\ Outside(j)' = {}
    <3>1. j \in Inodes /\ inode[j].type = FREE /\ Outside(j) = {}
      BY <1>1 DEF LinkInv, Listed, TypeOK
    <3>2. Outside(j)' \subseteq Outside(j) \cup {}
      BY <1>0, <1>1, <1>5, <3>1
    <3> QED BY <1>3, <3>1, <3>2
  <2> QED BY <2>1 DEF Listed
<1>9. NamesUsed'
  <2>1. i \in Used
    BY <1>0, <1>1 DEF Used
  <2> QED BY <1>3, <1>4, <2>1 DEF LinkInv, NamesUsed
<1>10. Selves'
  BY <1>2, <1>3 DEF LinkInv, Selves
<1>11. ASSUME NEW e \in Inodes, NEW m, NEW j \in Inodes, Sole(e, m, j), IsDirectory(j)
       PROVE  Sole(e, m, j)'
  <2>1. j # i
    BY <1>0, <1>1, <1>11 DEF IsDirectory
  <2> QED BY <1>3, <1>11, <2>1 DEF Sole
<1>12. NamedOnce'
  <2>1. ASSUME NEW e \in Inodes, NEW j \in Inodes, NEW m \in LiveIn(inode'[e]),
               inode'[e].entry[m].inum = j, inode'[e].entry[m].name # DotDot,
               IsDirectory(j)', j # e
        PROVE  Sole(e, m, j)'
    <3>1. IsDirectory(j) /\ j # i
      BY <1>0, <1>1, <1>4, <2>1 DEF IsDirectory
    <3>2. m \in LiveIn(inode[e]) /\ inode[e].entry[m] = inode'[e].entry[m]
      BY <1>3, <2>1, <3>1
    <3>3. Sole(e, m, j)
      BY <2>1, <3>1, <3>2 DEF LinkInv, NamedOnce
    <3> QED BY <1>11, <3>1, <3>3
  <2> QED BY <2>1 DEF NamedOnce
<1>13. RequestsKept
  <2>1. ASSUME NEW j \in Inodes, NEW p \in Inodes, Pending(j, p) PROVE Pending(j, p)'
    BY <1>1, <1>3, <2>1 DEF Pending
  <2>2. ASSUME NEW j \in Inodes, NEW p \in Inodes, Removable(j, p) PROVE Removable(j, p)'
    <3>1. ASSUME NEW m \in LiveIn(inode'[p]), inode'[p].entry[m].inum = j, IsDirectory(j)'
          PROVE  Sole(p, m, j)'
      <4>1. IsDirectory(j) /\ j # i
        BY <1>0, <1>1, <1>4, <3>1 DEF IsDirectory
      <4>2. m \in LiveIn(inode[p]) /\ inode[p].entry[m].inum = j
        BY <1>3, <3>1, <4>1
      <4>3. Sole(p, m, j)
        BY <2>2, <4>1, <4>2 DEF Removable
      <4> QED BY <1>11, <4>1, <4>3
    <3> QED BY <3>1 DEF Removable
  <2> QED BY <2>1, <2>2 DEF RequestsKept
<1> QED BY <1>6, <1>7, <1>8, <1>9, <1>10, <1>12, <1>13 DEF LinkInv

LEMMA NewPreserves ==
  ASSUME TypeOK, Loose, TypeOK', Loose', LinkInv,
         NEW d \in Inodes, NEW i \in Inodes, NEW k, NEW n, NewStep(d, k, n, i)
  PROVE  LinkInv' /\ RequestsKept
<1>0. REGULAR # FREE /\ DIRECTORY # FREE /\ DIRECTORY # REGULAR
  BY DEF DIRECTORY, FREE, REGULAR
<1> DEFINE dir == inode'[i].type = DIRECTORY
<1>1. /\ i \in free_inode_list /\ free_inode_list' = free_inode_list \ {i}
      /\ Enters(d, k, n, i) /\ \A j \in Inodes \ {d, i} : Kept(j)
      /\ \A j \in Inodes \ {d, i} : inode'[j].nlink = inode[j].nlink
      /\ inode'[i].type \in {REGULAR, DIRECTORY}
      /\ ~dir => /\ LiveIn(inode'[i]) = {} /\ inode'[i].nlink = 1
                 /\ inode'[d].nlink = inode[d].nlink
      /\ dir => /\ LiveIn(inode'[i]) = {1, 2}
                /\ inode'[i].entry[1] = [inum |-> i, name |-> Dot]
                /\ inode'[i].entry[2] = [inum |-> d, name |-> DotDot]
                /\ inode'[i].nlink = 2 /\ inode'[d].nlink = inode[d].nlink + 1
  BY <1>0 DEF NewStep, SameLinks
<1>2. /\ inode[i].type = FREE /\ Outside(i) = {}
      /\ inode[d].type = DIRECTORY /\ inode'[d].type = DIRECTORY /\ i # d /\ i # Root
  BY <1>0, <1>1 DEF LinkInv, Listed, Enters, IsDirectory
\* The entries that are new.
<1>3. ASSUME NEW j \in Inodes
      PROVE  /\ j # i => inode'[j].type = inode[j].type
             /\ \A m \in LiveIn(inode'[j]) :
                  \/ j = d /\ m = k /\ inode'[j].entry[m] = [inum |-> i, name |-> n]
                  \/ /\ j = i /\ m = 1 /\ dir
                     /\ inode'[j].entry[m].inum = i /\ inode'[j].entry[m].name = Dot
                  \/ /\ j = i /\ m = 2 /\ dir
                     /\ inode'[j].entry[m].inum = d /\ inode'[j].entry[m].name = DotDot
                  \/ m \in LiveIn(inode[j]) /\ inode'[j].entry[m] = inode[j].entry[m]
  <2>1. CASE j = d
    BY <1>1, <1>2, <2>1 DEF Enters
  <2>2. CASE j = i
    <3>1. CASE dir
      BY <1>1, <2>2, <3>1
    <3>2. CASE ~dir
      BY <1>1, <2>2, <3>2
    <3> QED BY <3>1, <3>2
  <2>3. CASE j \notin {d, i}
    BY <1>1, <2>3 DEF Kept
  <2> QED BY <2>1, <2>2, <2>3
<1>4. /\ i \in Used' /\ \A j \in Inodes \ {i} : j \in Used' <=> j \in Used
      /\ \A j \in Inodes \ {i} : IsDirectory(j)' <=> IsDirectory(j)
  BY <1>0, <1>1, <1>3 DEF Used, IsDirectory
<1> HIDE DEF dir
<1>5. ASSUME NEW j, NEW S, j = i => <<d, k>> \in S, j = d /\ dir => <<i, 2>> \in S
      PROVE  Outside(j)' \subseteq Outside(j) \cup S
  <2>1. \A e \in Inodes \ {j} : \A m \in LiveIn(inode'[e]) :
          inode'[e].entry[m].inum = j =>
            <<e, m>> \in S \/ (m \in LiveIn(inode[e]) /\ inode[e].entry[m].inum = j)
    BY <1>3, <1>5
  <2> QED BY <2>1, OutsideStep
<1>6. ASSUME NEW j \in Inodes PROVE Enough(j)'
  <2>1. CASE j \notin {d, i} \/ (j = d /\ ~dir)
    <3>1. Enough(j) /\ Outside(j)' \subseteq Outside(j)
      <4>1. Outside(j)' \subseteq Outside(j) \cup {}
        BY <1>2, <1>5, <2>1
      <4> QED BY <4>1 DEF LinkInv
    <3>2. inode'[j].type = inode[j].type /\ inode'[j].nlink = inode[j].nlink
      BY <1>1, <1>2, <1>3, <2>1 DEF dir
    <3> QED BY <3>1, <3>2, EnoughKept
  <2>2. CASE j = d /\ dir
    <3>1. Enough(d)
      BY DEF LinkInv
    <3>2. Outside(d)' \subseteq Outside(d) \cup {<<i, 2>>}
      BY <1>2, <1>5
    <3>3. /\ IsFiniteSet(Outside(d)') /\ Cardinality(Outside(d)') \in Nat
          /\ Cardinality(Outside(d)') <= Cardinality(Outside(d)) + 1
          /\ Cardinality(Outside(d)) \in Nat
      BY <3>1, <3>2, OneMore
    <3>4. d \in Used /\ d \in Used' /\ Own(d)' = Own(d) /\ Own(d) \in Nat /\ inode[d].nlink \in Int
      BY <1>0, <1>2, InodeFields DEF Used, Own, IsDirectory, TypeOK
    <3>5. inode'[d].nlink = inode[d].nlink + 1
      BY <1>1, <2>2 DEF dir
    <3> QED BY <2>2, <3>1, <3>3, <3>4, <3>5 DEF Enough
  <2>3. CASE j = i
    <3>1. Enough(i)
      BY DEF LinkInv
    <3>2. Outside(i)' \subseteq Outside(i) \cup {<<d, k>>}
      BY <1>2, <1>5
    <3>3. /\ IsFiniteSet(Outside(i)') /\ Cardinality(Outside(i)') \in Nat
          /\ Cardinality(Outside(i)') <= Cardinality(Outside(i)) + 1
      BY <3>1, <3>2, OneMore
    <3>4. Cardinality(Outside(i)) = 0
      BY <1>2, FS_EmptySet
    <3>5. Own(i)' = (IF dir THEN 1 ELSE 0) /\ inode'[i].nlink = IF dir THEN 2 ELSE 1
      BY <1>1, <1>2 DEF Own, IsDirectory, dir
    <3> QED BY <1>4, <2>3, <3>3, <3>4, <3>5 DEF Enough
  <2> QED BY <2>1, <2>2, <2>3
<1>7. IsDirectory(Root)'
  BY <1>2, <1>4, RootAssumption DEF LinkInv
<1>8. Listed'
  <2>1. ASSUME NEW j \in free_inode_list' PROVE inode'[j].type = FREE /\ Outside(j)' = {}
    <3>1. j \in Inodes \ {i} /\ inode[j].type = FREE /\ Outside(j) = {} /\ j # d
      BY <1>0, <1>1, <1>2 DEF LinkInv, Listed, TypeOK
    <3>2. Outside(j)' \subseteq Outside(j) \cup {}
      BY <1>5, <3>1
    <3> QED BY <1>3, <3>1, <3>2
  <2> QED BY <2>1 DEF Listed
<1>9. NamesUsed'
  <2>1. i \in Used' /\ i \notin Used
    BY <1>2, <1>4 DEF Used
  <2>2. ASSUME NEW e \in Inodes, NEW m \in LiveIn(inode'[e]), inode'[e].entry[m].name # DotDot
        PROVE  inode'[e].entry[m].inum \in Used'
    <3>1. CASE inode'[e].entry[m].inum = i
      BY <2>1, <3>1
    <3>2. CASE inode'[e].entry[m].inum # i
      <4>1. m \in LiveIn(inode[e]) /\ inode'[e].entry[m] = inode[e].entry[m]
        BY <1>3, <2>2, <3>2
      <4>2. inode[e].entry[m].inum \in Used
        BY <2>2, <4>1 DEF LinkInv, NamesUsed
      <4> QED BY <1>4, <3>2, <4>1, <4>2 DEF Used
    <3> QED BY <3>1, <3>2
  <2> QED BY <2>2 DEF NamesUsed
<1>10. Selves'
  BY <1>2, <1>3 DEF LinkInv, Selves
\* The only entry for i is the new one.
<1>11. Sole(d, k, i)'
  <2>1. ASSUME NEW e \in Inodes \ {i}, NEW m \in LiveIn(inode'[e]), inode'[e].entry[m].inum = i
        PROVE  e = d /\ m = k
    <3>1. SUFFICES ASSUME ~(e = d /\ m = k) PROVE FALSE
      OBVIOUS
    <3>2. m \in LiveIn(inode[e]) /\ inode[e].entry[m].inum = i
      BY <1>3, <2>1, <3>1
    <3>3. <<e, m>> \in Outside(i)
      BY <3>2, OutsideIs
    <3> QED BY <1>2, <3>3
  <2> QED BY <2>1 DEF Sole
\* The new directory's ".." is an entry for its parent, but not a name.
<1>12. ASSUME NEW e \in Inodes \ {i}, NEW m, NEW j \in Inodes \ {i}, Sole(e, m, j)
       PROVE  Sole(e, m, j)'
  BY <1>3, <1>12 DEF Sole
<1>13. ASSUME NEW e \in Inodes, NEW j \in Inodes, NEW m \in LiveIn(inode'[e]),
              inode'[e].entry[m].inum = j, IsDirectory(j)', j # e,
              inode'[e].entry[m].name # DotDot \/ e # i
       PROVE  \/ e = d /\ m = k /\ j = i
              \/ /\ e # i /\ j # i /\ IsDirectory(j)
                 /\ m \in LiveIn(inode[e]) /\ inode[e].entry[m] = inode'[e].entry[m]
  <2>1. \/ e = d /\ m = k /\ inode'[e].entry[m] = [inum |-> i, name |-> n]
        \/ m \in LiveIn(inode[e]) /\ inode'[e].entry[m] = inode[e].entry[m]
    BY <1>3, <1>13
  <2>2. CASE e = d /\ m = k /\ inode'[e].entry[m] = [inum |-> i, name |-> n]
    BY <1>13, <2>2
  <2>3. CASE m \in LiveIn(inode[e]) /\ inode'[e].entry[m] = inode[e].entry[m]
    <3>1. e # i
      BY <1>0, <1>2, <2>3, LooseFacts
    <3>2. j # i
      <4>1. SUFFICES ASSUME j = i PROVE FALSE
        OBVIOUS
      <4>2. <<e, m>> \in Outside(i)
        BY <1>13, <2>3, <3>1, <4>1, OutsideIs
      <4> QED BY <1>2, <4>2
    <3>3. IsDirectory(j)
      BY <1>4, <1>13, <3>2
    <3> QED BY <2>3, <3>1, <3>2, <3>3
  <2> QED BY <2>1, <2>2, <2>3
<1>14. NamedOnce'
  <2>1. ASSUME NEW e \in Inodes, NEW j \in Inodes, NEW m \in LiveIn(inode'[e]),
               inode'[e].entry[m].inum = j, inode'[e].entry[m].name # DotDot,
               IsDirectory(j)', j # e
        PROVE  Sole(e, m, j)'
    <3>1. CASE e = d /\ m = k /\ j = i
      BY <1>11, <3>1
    <3>2. CASE /\ e # i /\ j # i /\ IsDirectory(j)
               /\ m \in LiveIn(inode[e]) /\ inode[e].entry[m] = inode'[e].entry[m]
      <4>1. Sole(e, m, j)
        BY <2>1, <3>2 DEF LinkInv, NamedOnce
      <4> QED BY <1>12, <3>2, <4>1
    <3> QED BY <1>13, <2>1, <3>1, <3>2
  <2> QED BY <2>1 DEF NamedOnce
<1>15. RequestsKept
  <2>1. ASSUME NEW j \in Inodes, NEW p \in Inodes, Pending(j, p)
        PROVE  Pending(j, p)' /\ p # i /\ p # j
    <3>1. p # i /\ p # j
      BY <1>1, <2>1 DEF Pending
    <3> QED BY <1>1, <1>3, <2>1, <3>1 DEF Pending
  <2>2. ASSUME NEW j \in Inodes, NEW p \in Inodes, Pending(j, p), Removable(j, p)
        PROVE  Removable(j, p)'
    <3>1. ASSUME NEW m \in LiveIn(inode'[p]), inode'[p].entry[m].inum = j, IsDirectory(j)'
          PROVE  Sole(p, m, j)'
      <4>0. p # i /\ p # j
        BY <2>1, <2>2
      <4>1. CASE p = d /\ m = k /\ j = i
        BY <1>11, <4>1
      <4>2. CASE /\ p # i /\ j # i /\ IsDirectory(j)
                 /\ m \in LiveIn(inode[p]) /\ inode[p].entry[m] = inode'[p].entry[m]
        <5>1. Sole(p, m, j)
          BY <2>2, <3>1, <4>2 DEF Removable
        <5> QED BY <1>12, <4>2, <5>1
      <4> QED BY <1>13, <3>1, <4>0, <4>1, <4>2
    <3> QED BY <3>1 DEF Removable
  <2> QED BY <2>1, <2>2 DEF RequestsKept
<1> QED BY <1>6, <1>7, <1>8, <1>9, <1>10, <1>14, <1>15 DEF LinkInv

-----------------------------------------------------------------------------
(* The handlers, each a step that keeps the invariant.                     *)

Keeps == TypeOK' /\ Loose' /\ LinkInv' /\ RequestsKept /\ UsesKept

LEMMA IdleKeeps ==
  ASSUME TypeOK, Loose, LinkInv, inode' = inode, free_inode_list' = free_inode_list,
         free_block_list' = free_block_list, fresh' = fresh, status' \in {"up"} \cup Stops
  PROVE  Keeps
<1>1. TypeOK' /\ Loose'
  BY DEF TypeOK, Loose, IsDirectory
<1>2. LoseStep
  BY DEF LoseStep, SameLinks
<1>3. UsesKept
  BY DEF UsesKept
<1> QED BY <1>1, <1>2, <1>3, LosePreserves DEF Keeps

LEMMA RefuseKeeps ==
  ASSUME TypeOK, Loose, LinkInv, Refuse
  PROVE  Keeps
BY IdleKeeps DEF Refuse, vars, TypeOK

LEMMA HaltKeeps ==
  ASSUME TypeOK, Loose, LinkInv, NEW why \in Stops, Halt(why)
  PROVE  Keeps
BY IdleKeeps DEF Halt

LEMMA RunDryKeeps ==
  ASSUME TypeOK, Loose, LinkInv, RunDry
  PROVE  Keeps
BY HaltKeeps DEF RunDry, Stops

\* One inode changes, and no entry becomes live.
LEMMA ChangeKeeps ==
  ASSUME TypeOK, Loose, LinkInv, NEW i \in Inodes, NEW c \in InodeType,
         c.type = inode[i].type, c.nlink = inode[i].nlink, c.reuse = inode[i].reuse,
         \/ c.entry = <<>> /\ c.size = 0
         \/ c.entry = inode[i].entry /\ ~IsDirectory(i),
         inode' = [inode EXCEPT ![i] = c], free_inode_list' = free_inode_list,
         free_block_list' \in SUBSET Blocks, fresh' \in BOOLEAN, status' \in {"up"} \cup Stops
  PROVE  Keeps
<1>1. inode \in [Inodes -> InodeType]
  BY DEF TypeOK
<1>2. inode'[i] = c /\ \A j \in Inodes \ {i} : inode'[j] = inode[j]
  BY <1>1
<1>3. TypeOK'
  BY <1>1 DEF TypeOK
<1>4. Len(c.entry) = c.size \/ ~IsDirectory(i)
  <2>1. Len(<<>>) = 0
    OBVIOUS
  <2> QED BY <2>1
<1>5. Loose'
  BY <1>2, <1>4 DEF Loose, IsDirectory
<1>6. LiveIn(c) \subseteq LiveIn(inode[i]) /\ \A k \in LiveIn(c) : c.entry[k] = inode[i].entry[k]
  BY DEF LiveIn
<1>7. LoseStep
  BY <1>2, <1>6 DEF LoseStep, SameLinks
<1>8. UsesKept
  BY <1>2 DEF UsesKept
<1> QED BY <1>3, <1>5, <1>7, <1>8, LosePreserves DEF Keeps

LEMMA ReadKeeps ==
  ASSUME TypeOK, Loose, LinkInv, NEW i, NEW pos, NEW size, NEW reuse,
         ReadFile(i, pos, size, reuse)
  PROVE  Keeps
<1>1. Halt("aborted") \/ Refuse
  BY DEF ReadFile
<1> QED BY <1>1, HaltKeeps, RefuseKeeps DEF Stops

LEMMA WriteKeeps ==
  ASSUME TypeOK, Loose, LinkInv, NEW i \in Inodes, NEW pos \in Nat, NEW size \in Nat, NEW reuse,
         WriteFile(i, pos, size, reuse)
  PROVE  Keeps
<1> DEFINE adds == NewBlocks(inode[i], pos, size)
<1>1. \/ Refuse \/ Halt("aborted") \/ Halt("stale") \/ RunDry
      \/ /\ ~WriteRefused(i, pos, size, reuse)
         /\ \E new \in [adds -> free_block_list], ind \in free_block_list \cup {Nil} :
              StoreFile(i, pos, size, new, ind)
  BY DEF WriteFile
<1>2. CASE Refuse
  BY <1>2, RefuseKeeps
<1>3. CASE Halt("aborted") \/ Halt("stale")
  BY <1>3, HaltKeeps DEF Stops
<1>4. CASE RunDry
  BY <1>4, RunDryKeeps
<1>5. ASSUME ~WriteRefused(i, pos, size, reuse), ~Halt("aborted"),
             NEW new \in [adds -> free_block_list], NEW ind \in free_block_list \cup {Nil},
             StoreFile(i, pos, size, new, ind)
      PROVE  Keeps
  <2> DEFINE c == Written(inode[i], pos + size, new, ind)
  <2>1. /\ inode' = [inode EXCEPT ![i] = c]
        /\ UpdateBlocks(Range(new) \cup ({ind} \ {Nil}), {})
        /\ status' \in {"stale", "up"} /\ free_inode_list' = free_inode_list
    BY <1>5 DEF StoreFile
  <2>2. inode[i] \in InodeType /\ free_block_list \in SUBSET Blocks
    BY DEF TypeOK
  <2>3. pos + size \in Nat /\ pos + size <= MaxFileSize /\ inode[i].type = REGULAR
    BY <1>5, Geometry DEF WriteRefused
  <2>4. /\ c.type = inode[i].type /\ c.nlink = inode[i].nlink
        /\ c.reuse = inode[i].reuse /\ c.entry = inode[i].entry
    BY <2>2, WrittenFields
  <2>5. c \in InodeType
    <3>1. new \in [adds -> Blocks] /\ ind \in Blocks \cup {Nil}
      BY <2>2
    <3> HIDE DEF adds
    <3> QED BY <2>2, <2>3, <3>1, WrittenType
  <2>6. ~IsDirectory(i)
    BY <2>3 DEF IsDirectory, REGULAR, DIRECTORY
  <2>7. free_block_list' \in SUBSET Blocks /\ fresh' \in BOOLEAN /\ status' \in {"up"} \cup Stops
    BY <2>1, UpdateBlocksType DEF Stops
  <2> HIDE DEF c
  <2> QED BY <2>1, <2>4, <2>5, <2>6, <2>7, ChangeKeeps
<1> QED BY <1>1, <1>2, <1>3, <1>4, <1>5

\* What a name stands for.
LEMMA SearchedInode ==
  ASSUME TypeOK, Loose, NEW p \in Inodes, NEW n, NEW t, t = SearchDirectory(inode[p], n), t # Nil
  PROVE  /\ t \in Inodes
         /\ \E k \in LiveIn(inode[p]) : inode[p].entry[k].inum = t /\ inode[p].entry[k].name = n
<1>1. inode[p] \in InodeType
  BY DEF TypeOK
<1>2. PICK k \in LiveIn(inode[p]) : inode[p].entry[k].name = n /\ inode[p].entry[k].inum = t
  BY <1>1, SearchResult
<1> QED BY <1>2, LooseFacts

LEMMA TruncateKeeps ==
  ASSUME TypeOK, Loose, LinkInv, NEW p \in Inodes, NEW n, status = "up", TruncateExisting(p, n)
  PROVE  Keeps
<1>1. PICK t : t = SearchDirectory(inode[p], n)
  OBVIOUS
<1>2. t \in Inodes
  BY <1>1, SearchedInode DEF TruncateExisting
<1>3. CASE Halt("aborted")
  BY <1>3, HaltKeeps DEF Stops
<1>4. CASE ~Halt("aborted")
  <2>1. /\ inode' = [inode EXCEPT ![t] = Truncated(inode[t])]
        /\ UpdateBlocks({}, Owned(inode[t]))
        /\ UNCHANGED <<free_inode_list, status>>
    BY <1>1, <1>4 DEF TruncateExisting
  <2>2. inode[t] \in InodeType
    BY <1>2 DEF TypeOK
  <2>3. free_block_list' \in SUBSET Blocks /\ fresh' \in BOOLEAN
    BY <2>1, <2>2, OwnedType, UpdateBlocksType
  <2> DEFINE c == Truncated(inode[t])
  <2>4. /\ c \in InodeType /\ c.type = inode[t].type /\ c.nlink = inode[t].nlink
        /\ c.reuse = inode[t].reuse /\ c.entry = <<>> /\ c.size = 0
    BY <2>2, TruncatedType
  <2> HIDE DEF c
  <2>5. inode' = [inode EXCEPT ![t] = c]
    BY <2>1 DEF c
  <2> QED BY <1>2, <2>1, <2>3, <2>4, <2>5, ChangeKeeps
<1> QED BY <1>3, <1>4

\* An inode with another number of links.
LEMMA LinksChanged ==
  ASSUME NEW g \in InodeType, NEW m \in Int, NEW u, u = [g EXCEPT !.nlink = m]
  PROVE  /\ u \in InodeType /\ u.type = g.type /\ u.nlink = m /\ u.reuse = g.reuse
         /\ u.size = g.size /\ u.entry = g.entry /\ LiveIn(u) = LiveIn(g)
BY DEF InodeType, LiveIn

LEMMA CreateNewKeeps ==
  ASSUME TypeOK, Loose, LinkInv, NEW p \in Inodes, NEW n \in Names \cup {Dot, DotDot},
         NEW type \in {REGULAR, DIRECTORY},
         status = "up", IsDirectory(p), inode[p].size < MaxFileSize, CreateNew(p, n, type)
  PROVE  Keeps
<1> DEFINE own  == IF type = DIRECTORY THEN 1 ELSE 0
           need == own + BlocksToRegister(inode[p])
<1>0. REGULAR # DIRECTORY /\ REGULAR # FREE /\ DIRECTORY # FREE
  BY DEF REGULAR, DIRECTORY, FREE
<1>1. CASE free_inode_list = {} /\ Halt("aborted")
  BY <1>1, HaltKeeps DEF Stops
<1>2. CASE free_inode_list # {} /\ ~Supplies(need) /\ RunDry
  BY <1>2, RunDryKeeps
<1>3. ASSUME NEW t \in free_inode_list, NEW pops \in Draws(need), NEW made,
             made = (IF type = DIRECTORY THEN CreatedDirectory(inode[t], t, p, pops[1])
                                         ELSE CreatedFile(inode[t])),
             inode[t].reuse < MaxReuse,
             inode' = [inode EXCEPT ![t] = [made EXCEPT !.nlink = @ + 1],
                                    ![p] = [Registered(inode[p], t, n, SubSeq(pops, own + 1, need))
                                              EXCEPT !.nlink = @ + own]],
             free_inode_list' = free_inode_list \ {t},
             UpdateBlocks(Range(pops), {}), UNCHANGED status
      PROVE  Keeps
  <2>1. /\ inode \in [Inodes -> InodeType] /\ t \in Inodes /\ inode[t].type = FREE /\ t # p
        /\ Len(inode[p].entry) = inode[p].size /\ inode[p].type = DIRECTORY
    BY <1>0, <1>3 DEF TypeOK, LinkInv, Listed, IsDirectory, Loose
  <2>2. own \in 0 .. 1 /\ need \in Nat /\ own \in 0 .. need /\ need - own = BlocksToRegister(inode[p])
    BY BlocksToRegisterType
  <2> DEFINE new == SubSeq(pops, own + 1, need)
             T   == [made EXCEPT !.nlink = @ + 1]
             P   == [Registered(inode[p], t, n, new) EXCEPT !.nlink = @ + own]
  <2>3. /\ new \in Seq(Blocks) /\ Len(new) = BlocksToRegister(inode[p])
        /\ type = DIRECTORY => pops[1] \in Blocks
    <3>1. \A j \in 1 .. need : pops[j] \in Blocks
      BY <2>2, DrawsType
    <3>2. new \in Seq(Blocks) /\ Len(new) = need - own
      BY <2>2, DrawsType
    <3>3. type = DIRECTORY => need >= 1
      BY <2>2
    <3> QED BY <2>2, <3>1, <3>2, <3>3
  <2> HIDE DEF own, need, new
  <2>4. inode' = [inode EXCEPT ![t] = T, ![p] = P]
    BY <1>3 DEF new
  <2>5. inode'[t] = T /\ inode'[p] = P /\ \A j \in Inodes \ {p, t} : inode'[j] = inode[j]
    BY <2>1, <2>4
  <2> DEFINE R == Registered(inode[p], t, n, new)
  <2>6. PICK k \in Nat \ LiveIn(inode[p]) :
          /\ R \in InodeType /\ Len(R.entry) = R.size
          /\ R.type = DIRECTORY /\ R.nlink = inode[p].nlink /\ R.reuse = inode[p].reuse
          /\ LiveIn(R) = LiveIn(inode[p]) \cup {k}
          /\ R.entry[k] = [inum |-> t, name |-> n]
          /\ \A j \in LiveIn(inode[p]) : R.entry[j] = inode[p].entry[j]
    <3>1. CanRegister(inode[p])
      BY DEF CanRegister
    <3> QED BY <2>1, <2>3, <3>1, RegisteredEntries
  <2>7. /\ P \in InodeType /\ P.type = DIRECTORY /\ P.entry = R.entry /\ P.size = R.size
        /\ P.nlink = inode[p].nlink + own /\ P.reuse = inode[p].reuse /\ LiveIn(P) = LiveIn(R)
    <3>1. R.nlink + own \in Int /\ P = [R EXCEPT !.nlink = R.nlink + own]
      BY <2>2, <2>6, InodeFields
    <3> HIDE DEF R, P
    <3> QED BY <2>6, <3>1, LinksChanged
  <2>8. /\ made \in InodeType /\ made.type = type /\ made.reuse = inode[t].reuse + 1
        /\ type = REGULAR => made.nlink = 0 /\ made.entry = <<>>
        /\ type = DIRECTORY =>
             /\ made.nlink = 1 /\ LiveIn(made) = {1, 2} /\ Len(made.entry) = made.size
             /\ made.entry[1] = [inum |-> t, name |-> Dot]
             /\ made.entry[2].inum = p /\ made.entry[2].name = DotDot
    <3>1. inode[t] \in InodeType
      BY <2>1
    <3>2. CASE type = REGULAR
      <4>1. made = CreatedFile(inode[t])
        BY <1>0, <1>3, <3>2
      <4> QED BY <1>0, <3>1, <3>2, <4>1, CreatedFileType
    <3>3. CASE type = DIRECTORY
      <4>1. made = CreatedDirectory(inode[t], t, p, pops[1]) /\ pops[1] \in Blocks
        BY <1>3, <2>3, <3>3
      <4>2. /\ made \in InodeType /\ WellFormed(made, t) /\ LiveIn(made) = {1, 2}
            /\ made.type = DIRECTORY /\ made.nlink = 1 /\ made.entry[2].inum = p
            /\ made.reuse = inode[t].reuse + 1
        <5>1. t \in Inodes /\ pops[1] \in Blocks
          BY <2>1, <4>1
        <5> QED BY <3>1, <4>1, <5>1, CreatedWellFormed
      <4>3. /\ Len(made.entry) = made.size /\ made.entry[1] = [inum |-> t, name |-> Dot]
            /\ made.entry[2].name = DotDot
        BY <4>2 DEF WellFormed
      <4> QED BY <1>0, <3>3, <4>2, <4>3
    <3> QED BY <3>2, <3>3
  <2>9. /\ T \in InodeType /\ T.type = type /\ T.entry = made.entry /\ T.size = made.size
        /\ T.nlink = made.nlink + 1 /\ T.reuse = made.reuse /\ LiveIn(T) = LiveIn(made)
    <3>1. made.nlink + 1 \in Int /\ T = [made EXCEPT !.nlink = made.nlink + 1]
      BY <2>8, InodeFields
    <3> HIDE DEF T
    <3> QED BY <2>8, <3>1, LinksChanged
  <2> HIDE DEF T, P, R
  <2>10. TypeOK'
    <3>1. inode' \in [Inodes -> InodeType]
      BY <2>1, <2>4, <2>7, <2>9
    <3> QED BY <1>3, <3>1, UpdateBlocksType DEF TypeOK
  <2>11. Loose'
    <3>1. ASSUME NEW d \in Inodes
          PROVE  /\ inode'[d].reuse <= MaxReuse
                 /\ IF inode'[d].type = DIRECTORY THEN Len(inode'[d].entry) = inode'[d].size
                                                  ELSE inode'[d].entry = <<>>
      <4>1. CASE d = p
        BY <2>1, <2>5, <2>6, <2>7, <4>1 DEF Loose
      <4>2. CASE d = t
        <5>1. inode[t].reuse + 1 <= MaxReuse
          BY <1>3, <2>1, InodeFields, BoundsAssumption
        <5> QED BY <1>0, <2>5, <2>8, <2>9, <4>2, <5>1
      <4>3. CASE d \notin {p, t}
        BY <2>5, <4>3 DEF Loose, IsDirectory
      <4> QED BY <4>1, <4>2, <4>3
    <3> QED BY <3>1 DEF Loose, IsDirectory
  <2>12. NewStep(p, k, n, t)
    <3>1. Enters(p, k, n, t)
      BY <2>1, <2>5, <2>6, <2>7 DEF Enters
    <3>2. (\A j \in Inodes \ {p, t} : Kept(j)) /\ SameLinks(Inodes \ {p, t})
      BY <2>5 DEF Kept, SameLinks
    <3>3. CASE type = REGULAR
      <4>1. LiveIn(made) = {}
        BY <2>8, <3>3 DEF LiveIn
      <4>2. inode'[p].nlink = inode[p].nlink
        BY <1>0, <2>1, <2>5, <2>7, <3>3, InodeFields DEF own
      <4>3. inode'[t].type = REGULAR /\ LiveIn(inode'[t]) = {} /\ inode'[t].nlink = 1
        BY <2>5, <2>8, <2>9, <3>3, <4>1
      <4> QED BY <1>3, <3>1, <3>2, <4>2, <4>3 DEF NewStep
    <3>4. CASE type = DIRECTORY
      <4>1. inode'[p].nlink = inode[p].nlink + 1 /\ inode'[t].nlink = 2
        BY <2>5, <2>7, <2>8, <2>9, <3>4 DEF own
      <4>2. inode'[t].entry[2] = [inum |-> p, name |-> DotDot]
        <5>1. made.entry \in Seq(Entry) /\ 2 \in 1 .. Len(made.entry)
          BY <2>8, <3>4, InodeFields DEF LiveIn
        <5>2. made.entry[2] \in Entry
          BY <5>1, ElementOfSeq
        <5> QED BY <2>5, <2>8, <2>9, <3>4, <5>2 DEF Entry
      <4> QED BY <1>3, <2>5, <2>8, <2>9, <3>1, <3>2, <3>4, <4>1, <4>2 DEF NewStep
    <3> QED BY <3>3, <3>4
  <2>13. UsesKept
    BY <2>1, <2>5, <2>7, <2>8, <2>9 DEF UsesKept, Incarnated
  <2> QED BY <2>1, <2>10, <2>11, <2>12, <2>13, NewPreserves DEF Keeps
<1> QED BY <1>1, <1>2, <1>3 DEF CreateNew

LEMMA CreateKeeps ==
  ASSUME TypeOK, Loose, LinkInv, NEW p \in Inodes, NEW n \in Names \cup {Dot, DotDot},
         NEW type \in {REGULAR, DIRECTORY}, CreateFile(p, n, type)
  PROVE  Keeps
BY RefuseKeeps, TruncateKeeps, CreateNewKeeps DEF CreateFile

LEMMA LinkKeeps ==
  ASSUME TypeOK, Loose, LinkInv, NEW i \in Inodes, NEW p \in Inodes,
         NEW n \in Names \cup {Dot, DotDot}, CreateLink(i, p, n)
  PROVE  Keeps
<1> DEFINE need == BlocksToRegister(inode[p])
<1>0. REGULAR # DIRECTORY /\ REGULAR # FREE /\ DIRECTORY # FREE
  BY DEF REGULAR, DIRECTORY, FREE
<1>1. CASE Refuse
  BY <1>1, RefuseKeeps
<1>2. CASE Halt("overrun")
  BY <1>2, HaltKeeps DEF Stops
<1>3. CASE RunDry
  BY <1>3, RunDryKeeps
<1>4. ASSUME CanLink(i, p), CanRegister(inode[p]), NEW pops \in Draws(need),
             inode' = WithLink(i, p, n, pops), UpdateBlocks(Range(pops), {}),
             UNCHANGED <<free_inode_list, status>>
      PROVE  Keeps
  <2>1. /\ inode \in [Inodes -> InodeType] /\ inode[i].type = REGULAR /\ i # p
        /\ Len(inode[p].entry) = inode[p].size /\ inode[p].type = DIRECTORY
    BY <1>0, <1>4 DEF CanLink, TypeOK, IsDirectory, Loose
  <2> DEFINE P == Registered(inode[p], i, n, pops)
             T == [inode[i] EXCEPT !.nlink = @ + 1]
  <2>2. pops \in Seq(Blocks) /\ Len(pops) = BlocksToRegister(inode[p])
    <3>1. need \in Nat
      BY BlocksToRegisterType
    <3>2. pops \in [1 .. need -> Blocks]
      BY DEF Draws, TypeOK
    <3> HIDE DEF need
    <3>3. pops \in Seq(Blocks) /\ Len(pops) = need
      BY <3>1, <3>2, LenProperties
    <3> QED BY <3>3 DEF need
  <2>3. inode' = [inode EXCEPT ![p] = P, ![i] = T]
    BY <1>4, <2>1 DEF WithLink
  <2>4. PICK k \in Nat \ LiveIn(inode[p]) :
          /\ P \in InodeType /\ Len(P.entry) = P.size
          /\ P.type = DIRECTORY /\ P.nlink = inode[p].nlink /\ P.reuse = inode[p].reuse
          /\ LiveIn(P) = LiveIn(inode[p]) \cup {k}
          /\ P.entry[k] = [inum |-> i, name |-> n]
          /\ \A j \in LiveIn(inode[p]) : P.entry[j] = inode[p].entry[j]
    BY <1>4, <2>1, <2>2, RegisteredEntries
  <2>5. /\ T \in InodeType /\ T.type = REGULAR /\ T.entry = inode[i].entry
        /\ T.nlink = inode[i].nlink + 1 /\ T.reuse = inode[i].reuse /\ LiveIn(T) = LiveIn(inode[i])
    <3>1. inode[i].nlink + 1 \in Int /\ inode[i] \in InodeType
      BY <2>1, InodeFields
    <3> HIDE DEF T
    <3>2. T = [inode[i] EXCEPT !.nlink = inode[i].nlink + 1]
      BY DEF T
    <3> QED BY <2>1, <3>1, <3>2, LinksChanged
  <2> HIDE DEF P, T
  <2>6. inode'[p] = P /\ inode'[i] = T /\ \A j \in Inodes \ {p, i} : inode'[j] = inode[j]
    BY <2>1, <2>3
  <2>7. TypeOK'
    <3>1. inode' \in [Inodes -> InodeType]
      BY <2>1, <2>3, <2>4, <2>5
    <3> QED BY <1>4, <3>1, UpdateBlocksType DEF TypeOK
  <2>8. Loose'
    BY <1>0, <2>1, <2>4, <2>5, <2>6 DEF Loose, IsDirectory
  <2>9. AddStep(p, k, n, i)
    <3>1. Enters(p, k, n, i)
      BY <2>1, <2>4, <2>6 DEF Enters
    <3>2. \A j \in Inodes \ {p} : Kept(j)
      BY <2>1, <2>5, <2>6 DEF Kept
    <3>3. inode'[i].nlink = inode[i].nlink + 1 /\ SameLinks(Inodes \ {i})
      BY <2>4, <2>5, <2>6 DEF SameLinks
    <3> QED BY <1>4, <2>1, <3>1, <3>2, <3>3 DEF AddStep
  <2>10. UsesKept
    BY <2>1, <2>4, <2>5, <2>6 DEF UsesKept
  <2> QED BY <2>7, <2>8, <2>9, <2>10, AddPreserves DEF Keeps
<1> QED BY <1>1, <1>2, <1>3, <1>4 DEF CreateLink

LEMMA UnlinkKeeps ==
  ASSUME TypeOK, Loose, LinkInv, NEW i \in Inodes, NEW p \in Inodes, Pending(i, p),
         NEW junk \in BOOLEAN, DeleteLink(i, p, junk)
  PROVE  Keeps
<1>0. REGULAR # DIRECTORY /\ REGULAR # FREE /\ DIRECTORY # FREE
  BY DEF REGULAR, DIRECTORY, FREE
<1> DEFINE last == inode[i].nlink = 1
           U == Unregistered(inode[p], i)
           C == Cleaned(U)
           T == Unlinked(inode[i])
<1>1. CASE Refuse
  BY <1>1, RefuseKeeps
<1>2. CASE Halt("aborted")
  BY <1>2, HaltKeeps DEF Stops
<1>3. CASE ~Refuse /\ ~Halt("aborted")
  <2>1. /\ EntriesOf(inode[p], i) # {} /\ inode[p].type = DIRECTORY
        /\ inode' = [inode EXCEPT ![i] = T, ![p] = C]
        /\ free_inode_list' = free_inode_list \cup (IF last THEN {i} ELSE {})
        /\ UpdateBlocks({}, FreedByClean(U, junk) \cup IF last THEN Owned(inode[i]) ELSE {})
        /\ UNCHANGED status
    <3>1. i # p /\ inode \in [Inodes -> InodeType]
      BY DEF Pending, TypeOK
    <3> QED BY <1>3, <3>1 DEF DeleteLink, IsDirectory
  <2>2. /\ i # p /\ inode \in [Inodes -> InodeType]
        /\ inode[p] \in InodeType /\ inode[i] \in InodeType
        /\ Len(inode[p].entry) = inode[p].size
    BY <2>1 DEF Pending, TypeOK, Loose, IsDirectory
  <2>3. PICK k \in LiveIn(inode[p]) :
          /\ C \in InodeType /\ Len(C.entry) = C.size
          /\ C.type = inode[p].type /\ C.nlink = inode[p].nlink /\ C.reuse = inode[p].reuse
          /\ C.size = CleanSize(U)
          /\ inode[p].entry[k].inum = i
          /\ LiveIn(C) = LiveIn(inode[p]) \ {k}
          /\ \A j \in LiveIn(inode[p]) \ {k} : C.entry[j] = inode[p].entry[j]
    BY <2>1, <2>2, RemovedEntries
  <2>4. /\ T \in InodeType /\ T.reuse = inode[i].reuse
        /\ last => T.type = FREE /\ T.nlink = 0 /\ T.entry = <<>>
        /\ ~last => /\ T.type = inode[i].type /\ T.nlink = inode[i].nlink - 1
                    /\ T.entry = inode[i].entry /\ T.size = inode[i].size
                    /\ LiveIn(T) = LiveIn(inode[i])
    <3>1. CASE last
      <4> DEFINE t == Truncated(inode[i])
      <4>1. t \in InodeType /\ t.entry = <<>> /\ t.reuse = inode[i].reuse
        BY <2>2, TruncatedType
      <4> HIDE DEF t
      <4>2. T = [t EXCEPT !.nlink = 0, !.type = FREE]
        BY <3>1 DEF Unlinked, t
      <4> HIDE DEF T
      <4>3. /\ T \in InodeType /\ T.type = FREE /\ T.nlink = 0 /\ T.entry = t.entry
            /\ T.reuse = t.reuse
        BY <4>1, <4>2, FreedType
      <4> QED BY <3>1, <4>1, <4>3
    <3>2. CASE ~last
      <4>1. T = [inode[i] EXCEPT !.nlink = inode[i].nlink - 1] /\ inode[i].nlink - 1 \in Int
        BY <2>2, <3>2, InodeFields DEF Unlinked
      <4> HIDE DEF T
      <4>2. /\ T \in InodeType /\ T.type = inode[i].type /\ T.nlink = inode[i].nlink - 1
            /\ T.reuse = inode[i].reuse /\ T.size = inode[i].size
            /\ T.entry = inode[i].entry /\ LiveIn(T) = LiveIn(inode[i])
        BY <2>2, <4>1, LinksChanged
      <4> QED BY <3>2, <4>2
    <3> QED BY <3>1, <3>2
  <2>5. FreedByClean(U, junk) \subseteq Blocks
    <3>1. U \in InodeType
      BY <2>1, <2>2, UnregisteredEntries
    <3>2. CleanSize(U) \in Nat
      BY <2>3, InodeFields
    <3> QED BY <3>1, <3>2, FreedByCleanOwned, OwnedType
  <2>6. free_block_list' \in SUBSET Blocks /\ fresh' \in BOOLEAN
    <3>1. Owned(inode[i]) \subseteq Blocks
      BY <2>2, OwnedType
    <3> HIDE DEF U
    <3>2. FreedByClean(U, junk) \cup (IF last THEN Owned(inode[i]) ELSE {}) \in SUBSET Blocks
      BY <2>5, <3>1
    <3> QED BY <2>1, <3>2, UpdateBlocksType
  <2> HIDE DEF U, C, T
  <2>7. inode'[p] = C /\ inode'[i] = T /\ \A j \in Inodes \ {p, i} : inode'[j] = inode[j]
    BY <2>1, <2>2
  <2>8. TypeOK'
    <3>1. inode' \in [Inodes -> InodeType] /\ free_inode_list' \in SUBSET Inodes
      BY <2>1, <2>2, <2>3, <2>4 DEF TypeOK
    <3> QED BY <2>1, <2>6, <3>1 DEF TypeOK
  <2>9. Loose'
    <3>1. ASSUME NEW d \in Inodes
          PROVE  /\ inode'[d].reuse <= MaxReuse
                 /\ IF inode'[d].type = DIRECTORY THEN Len(inode'[d].entry) = inode'[d].size
                                                  ELSE inode'[d].entry = <<>>
      <4>1. CASE d = p
        BY <2>1, <2>3, <2>7, <4>1 DEF Loose
      <4>2. CASE d = i /\ last
        BY <1>0, <2>4, <2>7, <4>2 DEF Loose
      <4>3. CASE d = i /\ ~last
        BY <2>4, <2>7, <4>3 DEF Loose, IsDirectory
      <4>4. CASE d \notin {p, i}
        BY <2>7, <4>4 DEF Loose, IsDirectory
      <4> QED BY <4>1, <4>2, <4>3, <4>4
    <3> QED BY <3>1 DEF Loose, IsDirectory
  <2>10. RemoveStep(p, k, i)
    <3>1. Clears(p, k, i)
      BY <2>1, <2>3, <2>7 DEF Clears
    <3>2. (\A j \in Inodes \ {p, i} : Kept(j)) /\ SameLinks(Inodes \ {i})
      BY <2>3, <2>7 DEF Kept, SameLinks
    <3>3. CASE last
      <4>1. LiveIn(T) = {}
        BY <2>4, <3>3 DEF LiveIn
      <4> QED BY <2>1, <2>4, <2>7, <3>1, <3>2, <3>3, <4>1 DEF RemoveStep
    <3>4. CASE ~last
      <4>1. Kept(i)
        BY <2>4, <2>7, <3>4 DEF Kept
      <4> QED BY <2>1, <2>4, <2>7, <3>1, <3>2, <3>4, <4>1 DEF RemoveStep
    <3> QED BY <3>3, <3>4
  <2>11. UsesKept
    BY <2>3, <2>4, <2>7 DEF UsesKept
  <2> QED BY <2>2, <2>8, <2>9, <2>10, <2>11, RemovePreserves DEF Keeps
<1> QED BY <1>1, <1>2, <1>3

LEMMA RmDirKeeps ==
  ASSUME TypeOK, Loose, LinkInv, NEW i \in Inodes, NEW p \in Inodes, Pending(i, p),
         Removable(i, p), NEW junk \in BOOLEAN, DeleteDir(i, p, junk)
  PROVE  Keeps
<1>0. REGULAR # DIRECTORY /\ REGULAR # FREE /\ DIRECTORY # FREE
  BY DEF REGULAR, DIRECTORY, FREE
<1>1. CASE Refuse
  BY <1>1, RefuseKeeps
<1>2. CASE Halt("aborted") \/ Halt("stale")
  BY <1>2, HaltKeeps DEF Stops
<1>3. CASE ~Refuse /\ ~Halt("aborted") /\ ~Halt("stale")
  <2> DEFINE U == Unregistered(inode[p], i)
             C == Cleaned(U)
             T == [inode[i] EXCEPT !.type = FREE, !.size = 0, !.nlink = 0, !.entry = <<>>]
             gone == [inode EXCEPT ![i] = T, ![p] = C]
             less(j) == IF j \in Above(i) THEN 1 ELSE 0
  <2>1. /\ i # Root /\ inode[i].type = DIRECTORY /\ inode[p].type = DIRECTORY
        /\ inode[i].size = 2 /\ EntriesOf(inode[p], i) # {} /\ Nil \notin Above(i)
        /\ inode' = WithoutDir(i, p)
        /\ UpdateBlocks({}, FreedByClean(U, junk))
        /\ UNCHANGED <<free_inode_list, status>>
    BY <1>3 DEF DeleteDir, IsDirectory
  <2>2. /\ i # p /\ inode \in [Inodes -> InodeType]
        /\ inode[p] \in InodeType /\ inode[i] \in InodeType
        /\ Len(inode[p].entry) = inode[p].size /\ Len(inode[i].entry) = 2
    BY <2>1 DEF Pending, TypeOK, Loose, IsDirectory
  <2>3. PICK k \in LiveIn(inode[p]) :
          /\ C \in InodeType /\ Len(C.entry) = C.size
          /\ C.type = inode[p].type /\ C.nlink = inode[p].nlink /\ C.reuse = inode[p].reuse
          /\ C.size = CleanSize(U)
          /\ inode[p].entry[k].inum = i
          /\ LiveIn(C) = LiveIn(inode[p]) \ {k}
          /\ \A j \in LiveIn(inode[p]) \ {k} : C.entry[j] = inode[p].entry[j]
    BY <2>1, <2>2, RemovedEntries
  <2>4. FreedByClean(U, junk) \in SUBSET Blocks
    <3>1. U \in InodeType
      BY <2>1, <2>2, UnregisteredEntries
    <3>2. CleanSize(U) \in Nat
      BY <2>3, InodeFields
    <3> QED BY <3>1, <3>2, FreedByCleanOwned, OwnedType
  <2>5. free_block_list' \in SUBSET Blocks /\ fresh' \in BOOLEAN
    <3> HIDE DEF U
    <3> QED BY <2>1, <2>4, UpdateBlocksType
  <2>6. /\ T \in InodeType /\ T.type = FREE /\ T.entry = <<>> /\ T.reuse = inode[i].reuse
        /\ T.nlink = 0 /\ LiveIn(T) = {}
    <3>1. T \in InodeType /\ T.type = FREE /\ T.entry = <<>> /\ T.reuse = inode[i].reuse
      <4> HIDE DEF C
      <4> QED BY <2>2, VacatedType
    <3>2. T.nlink = 0
      BY <2>2 DEF InodeType
    <3> HIDE DEF T
    <3> QED BY <3>1, <3>2 DEF LiveIn
  <2>7. inode' = [j \in Inodes |-> IF j \in Above(i) THEN [gone[j] EXCEPT !.nlink = @ - 1] ELSE gone[j]]
    BY <2>1 DEF WithoutDir
  <2> HIDE DEF U, C, T
  <2>8. /\ gone \in [Inodes -> InodeType] /\ gone[p] = C /\ gone[i] = T
        /\ \A j \in Inodes \ {p, i} : gone[j] = inode[j]
    BY <2>2, <2>3, <2>6
  <2> HIDE DEF gone
  <2>9. ASSUME NEW j \in Inodes
        PROVE  /\ inode'[j] \in InodeType /\ inode'[j].type = gone[j].type
               /\ inode'[j].reuse = gone[j].reuse /\ inode'[j].size = gone[j].size
               /\ inode'[j].entry = gone[j].entry /\ LiveIn(inode'[j]) = LiveIn(gone[j])
               /\ inode'[j].nlink = gone[j].nlink - less(j)
    <3>1. gone[j] \in InodeType /\ gone[j].nlink \in Int /\ gone[j].nlink - 1 \in Int
      BY <2>8, InodeFields
    <3>2. CASE j \in Above(i)
      <4>1. inode'[j] = [gone[j] EXCEPT !.nlink = gone[j].nlink - 1]
        BY <2>7, <3>2
      <4> QED BY <3>1, <3>2, <4>1, LinksChanged
    <3>3. CASE j \notin Above(i)
      <4>1. inode'[j] = gone[j]
        BY <2>7, <3>3
      <4> QED BY <3>1, <3>3, <4>1
    <3> QED BY <3>2, <3>3
  <2>10. TypeOK'
    <3>1. inode' \in [Inodes -> InodeType]
      BY <2>7, <2>9
    <3> QED BY <2>1, <2>5, <3>1 DEF TypeOK
  <2>11. Loose'
    <3>1. ASSUME NEW d \in Inodes
          PROVE  /\ inode'[d].reuse <= MaxReuse
                 /\ IF inode'[d].type = DIRECTORY THEN Len(inode'[d].entry) = inode'[d].size
                                                  ELSE inode'[d].entry = <<>>
      <4>1. CASE d = p
        BY <2>1, <2>3, <2>8, <2>9, <4>1 DEF Loose
      <4>2. CASE d = i
        BY <1>0, <2>6, <2>8, <2>9, <4>2 DEF Loose
      <4>3. CASE d \notin {p, i}
        BY <2>8, <2>9, <4>3 DEF Loose, IsDirectory
      <4> QED BY <4>1, <4>2, <4>3
    <3> QED BY <3>1 DEF Loose, IsDirectory
  <2>12. VacateStep(p, k, i)
    <3>1. Clears(p, k, i)
      BY <2>1, <2>3, <2>8, <2>9 DEF Clears
    <3>2. \A j \in Inodes \ {p, i} : Kept(j)
      BY <2>8, <2>9 DEF Kept
    <3>3. \A j \in Above(i) : \E m \in LiveIn(inode[i]) : /\ inode[i].entry[m].inum = j
                                                          /\ inode[i].entry[m].name = DotDot
      BY <2>1, <2>2 DEF Above, LiveIn
    <3>4. inode'[i].type = FREE /\ LiveIn(inode'[i]) = {} /\ inode'[i].nlink <= 0
      BY <2>6, <2>8, <2>9
    <3>5. \A j \in Inodes \ {i} : inode'[j].nlink = inode[j].nlink - less(j)
      BY <2>3, <2>8, <2>9
    <3> QED BY <2>1, <3>1, <3>2, <3>3, <3>4, <3>5 DEF VacateStep
  <2>13. UsesKept
    BY <2>3, <2>6, <2>8, <2>9 DEF UsesKept
  <2> QED BY <2>2, <2>10, <2>11, <2>12, <2>13, VacatePreserves DEF Keeps
<1> QED BY <1>1, <1>2, <1>3

-----------------------------------------------------------------------------
(* What the invariant is for.                                              *)

\* The entries for an inode are those of others and, for a directory, its own
\* "." and, for the root, "..".
LEMMA NeverTooLow ==
  ASSUME inode \in [Inodes -> InodeType], Loose, LinkInv
  PROVE  \A i \in Used : Cardinality(Links(i)) <= inode[i].nlink
<1> SUFFICES ASSUME NEW i \in Used
             PROVE  Cardinality(Links(i)) <= inode[i].nlink
  OBVIOUS
<1> DEFINE S == Outside(i)
           T == Links(i)
           x == <<i, 1>>
           y == <<i, 2>>
<1>1. i \in Inodes /\ IsFiniteSet(S) /\ Cardinality(S) + Own(i) <= inode[i].nlink
  BY DEF LinkInv, Enough, Used
<1>2. ASSUME NEW l \in T
      PROVE  l \in S \/ (IsDirectory(i) /\ l = x) \/ (i = Root /\ l = y)
  <2>1. /\ l = <<l[1], l[2]>> /\ l[1] \in Inodes /\ l[2] \in LiveIn(inode[l[1]])
        /\ inode[l[1]].entry[l[2]].inum = i
    BY <1>1, NilAssumption DEF Links, Used, LiveIn
  <2>4. inode[l[1]].type = DIRECTORY /\ l[2] \in Nat
    BY <2>1, LooseLive DEF Loose, IsDirectory
  <2>2. CASE l[1] # i
    BY <2>1, <2>2, <2>4 DEF Outside, LivePairs
  <2>3. CASE l[1] = i
    <3>1. IsDirectory(i)
      BY <2>3, <2>4 DEF IsDirectory
    <3>2. l[2] = 1 \/ (l[2] = 2 /\ i = Root)
      BY <2>1, <2>3 DEF LinkInv, Selves
    <3> QED BY <2>1, <2>3, <3>1, <3>2
  <2> QED BY <2>2, <2>3
<1>3. inode[i].nlink \in Int
  BY <1>1, InodeFields
<1> HIDE DEF S, T, x, y
<1>4. Cardinality(S) \in Nat
  BY <1>1, FS_CardinalityType
<1>5. CASE ~IsDirectory(i)
  <2>1. T \subseteq S
    BY <1>2, <1>5, RootAssumption DEF LinkInv
  <2>2. IsFiniteSet(T) /\ Cardinality(T) <= Cardinality(S)
    BY <1>1, <2>1, FS_Subset
  <2>3. Cardinality(T) \in Nat
    BY <2>2, FS_CardinalityType
  <2> QED BY <1>1, <1>3, <1>4, <1>5, <2>2, <2>3 DEF Own, T
<1>6. CASE IsDirectory(i)
  <2> DEFINE V == S \cup {x}
  <2>1. IsFiniteSet(V) /\ Cardinality(V) <= Cardinality(S) + 1
    BY <1>1, Cardinalities
  <2>2. Cardinality(V) \in Nat
    BY <2>1, FS_CardinalityType
  <2>3. i # Root => T \subseteq V
    BY <1>2
  <2>4. T \subseteq V \cup {y}
    BY <1>2
  <2> HIDE DEF V
  <2>5. IsFiniteSet(T) /\ Cardinality(T) <= Cardinality(V) + 1
    BY <2>1, <2>4, Cardinalities
  <2>6. i # Root => Cardinality(T) <= Cardinality(V)
    BY <2>1, <2>3, FS_Subset
  <2>7. Cardinality(T) \in Nat
    BY <2>5, FS_CardinalityType
  <2>8. Own(i) = IF i = Root THEN 2 ELSE 1
    BY <1>6 DEF Own
  <2> QED BY <1>1, <1>3, <1>4, <2>1, <2>2, <2>5, <2>6, <2>7, <2>8 DEF T
<1> QED BY <1>5, <1>6

\* mkyfs leaves a disk that satisfies the invariant.
LEMMA InitLinks ==
  ASSUME Init
  PROVE  TypeOK /\ Loose /\ LinkInv
<1>0. DIRECTORY # FREE
  BY DEF DIRECTORY, FREE
<1>1. TreeInv
  BY InitTree
<1>2. PICK b \in Blocks :
        inode = [i \in Inodes |->
             IF i = Root THEN [CreatedDirectory(FreeInode, Root, Root, b) EXCEPT !.nlink = 2]
             ELSE FreeInode]
  BY DEF Init
<1>3. /\ inode[Root].type = DIRECTORY /\ inode[Root].nlink = 2 /\ inode[Root].reuse = 1
      /\ inode[Root].entry[1] = [inum |-> Root, name |-> Dot]
      /\ inode[Root].entry[2].inum = Root /\ inode[Root].entry[2].name = DotDot
      /\ LiveIn(inode[Root]) = {1, 2} /\ Len(inode[Root].entry) = inode[Root].size
  <2> DEFINE c == CreatedDirectory(FreeInode, Root, Root, b)
  <2>1. /\ c \in InodeType /\ WellFormed(c, Root) /\ LiveIn(c) = {1, 2} /\ c.type = DIRECTORY
        /\ c.entry[2].inum = Root /\ c.reuse = FreeInode.reuse + 1
    BY FreeInodeType, RootAssumption, CreatedWellFormed
  <2>2. inode[Root] = [c EXCEPT !.nlink = 2]
    BY <1>2, RootAssumption
  <2> HIDE DEF c
  <2>3. /\ inode[Root].type = c.type /\ inode[Root].nlink = 2 /\ inode[Root].reuse = c.reuse
        /\ inode[Root].entry = c.entry /\ inode[Root].size = c.size
        /\ LiveIn(inode[Root]) = LiveIn(c)
    BY <2>1, <2>2, LinksChanged
  <2> QED BY <2>1, <2>3, FreeInodeType DEF WellFormed
<1>4. ASSUME NEW i \in Inodes \ {Root}
      PROVE  /\ inode[i].type = FREE /\ inode[i].nlink = 0 /\ inode[i].reuse = 0
             /\ inode[i].entry = <<>> /\ LiveIn(inode[i]) = {}
  <2>1. inode[i] = FreeInode
    BY <1>2
  <2> QED BY <2>1, FreeInodeType DEF LiveIn
<1>5. TypeOK
  BY <1>1 DEF TreeInv
<1>6. Loose
  BY <1>0, <1>3, <1>4, BoundsAssumption DEF Loose, IsDirectory
<1>7. ASSUME NEW i \in Inodes PROVE Outside(i) = {}
  BY <1>0, <1>3, <1>4 DEF Outside, LivePairs
<1>8. ASSUME NEW i \in Inodes PROVE Enough(i)
  <2>1. IsFiniteSet(Outside(i)) /\ Cardinality(Outside(i)) = 0
    BY <1>7, FS_EmptySet
  <2> QED BY <1>0, <1>3, <1>4, <2>1 DEF Enough, Own, Used, IsDirectory
<1>9. Root \in Used /\ IsDirectory(Root)
  BY <1>0, <1>3, RootAssumption DEF Used, IsDirectory
<1> DEFINE e(d, k) == inode[d].entry[k]
<1>10. ASSUME NEW d \in Inodes, NEW k \in LiveIn(inode[d])
       PROVE  /\ d = Root /\ e(d, k).inum = Root
              /\ (k = 1 /\ e(d, k).name = Dot) \/ (k = 2 /\ e(d, k).name = DotDot)
  <2>1. d = Root
    BY <1>4
  <2>2. k \in {1, 2}
    BY <1>3, <2>1
  <2>3. CASE k = 1
    BY <1>3, <2>1, <2>3
  <2>4. CASE k = 2
    BY <1>3, <2>1, <2>4
  <2> QED BY <2>1, <2>2, <2>3, <2>4
<1>11. NamesUsed
  BY <1>9, <1>10 DEF NamesUsed
<1>12. Selves /\ NamedOnce
  BY <1>10 DEF Selves, NamedOnce
<1>13. Listed
  BY <1>4, <1>7 DEF Listed, Init
<1> QED BY <1>5, <1>6, <1>8, <1>9, <1>10, <1>11, <1>12, <1>13 DEF LinkInv
=============================================================================
