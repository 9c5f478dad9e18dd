-------------------------- MODULE NamespaceProofs --------------------------
(***************************************************************************)
(* The file server implements the name space of Namespace: each step of    *)
(* TreeStep, which every handler takes (YfsServerProofs), is a step of     *)
(* Namespace or changes nothing there.                                     *)
(***************************************************************************)
EXTENDS YfsServerProofs

-----------------------------------------------------------------------------
(* The refinement mapping.                                                 *)

Kinds(f) == [i \in Inodes |-> CASE f[i].type = DIRECTORY -> "directory"
                                [] f[i].type = REGULAR   -> "file"
                                [] OTHER                 -> "none"]

Triples(f) ==
  UNION { { <<d, f[d].entry[k].name, f[d].entry[k].inum>> : k \in LiveIn(f[d]) \ {1, 2} }
          : d \in { d \in Inodes : f[d].type = DIRECTORY } }

LEMMA KindIs ==
  ASSUME NEW f, NEW i \in Inodes
  PROVE  /\ f[i].type = DIRECTORY => Kinds(f)[i] = "directory"
         /\ f[i].type = REGULAR => Kinds(f)[i] = "file"
         /\ f[i].type = FREE => Kinds(f)[i] = "none"
BY DEF Kinds, DIRECTORY, REGULAR, FREE

\* The kinds after a step that gave inode i another type, or none.
LEMMA KindsAfter ==
  ASSUME NEW i \in Inodes, \A j \in Inodes \ {i} : inode'[j].type = inode[j].type,
         NEW as, Kinds(inode')[i] = as
  PROVE  Kinds(inode') = [Kinds(inode) EXCEPT ![i] = as]
<1>1. ASSUME NEW j \in Inodes \ {i} PROVE Kinds(inode')[j] = Kinds(inode)[j]
  BY DEF Kinds
<1>2. /\ Kinds(inode) = [j \in Inodes |-> Kinds(inode)[j]]
      /\ Kinds(inode') = [j \in Inodes |-> Kinds(inode')[j]]
  BY DEF Kinds
<1> QED BY <1>1, <1>2

LEMMA KindsSame ==
  ASSUME \A j \in Inodes : inode'[j].type = inode[j].type
  PROVE  Kinds(inode') = Kinds(inode)
BY DEF Kinds

LEMMA TripleIs ==
  ASSUME NEW f, NEW x
  PROVE  x \in Triples(f) <=>
           \E d \in Inodes : f[d].type = DIRECTORY /\ \E k \in LiveIn(f[d]) \ {1, 2} :
             x = <<d, f[d].entry[k].name, f[d].entry[k].inum>>
BY DEF Triples

\* The steps of Namespace, and its first state, in terms of the mapping.
LEMMA NSInit ==
  ASSUME Kinds(inode) = [i \in Inodes |-> IF i = Root THEN "directory" ELSE "none"],
         Triples(inode) = {}
  PROVE  NS!Init
BY DEF NS!Init, Kinds, Triples, Live, LiveIn

LEMMA NSSame ==
  ASSUME Kinds(inode') = Kinds(inode), Triples(inode') = Triples(inode)
  PROVE  UNCHANGED NS!nvars
BY DEF NS!nvars, Kinds, Triples, Live, LiveIn

LEMMA NSMake ==
  ASSUME NEW d, NEW n, NEW i, NEW as,
         Kinds(inode)[d] = "directory", Kinds(inode)[i] = "none",
         { e \in Triples(inode) : e[1] = d /\ e[2] = n } = {},
         Kinds(inode') = [Kinds(inode) EXCEPT ![i] = as],
         Triples(inode') = Triples(inode) \cup {<<d, n, i>>}
  PROVE  NS!Make(d, n, i, as)
BY DEF NS!Make, NS!EntryOf, Kinds, Triples, Live, LiveIn

LEMMA NSMakeLink ==
  ASSUME NEW d, NEW n, NEW i,
         Kinds(inode)[d] = "directory", Kinds(inode)[i] = "file",
         { e \in Triples(inode) : e[1] = d /\ e[2] = n } = {},
         Kinds(inode') = Kinds(inode), Triples(inode') = Triples(inode) \cup {<<d, n, i>>}
  PROVE  NS!MakeLink(d, n, i)
BY DEF NS!MakeLink, NS!EntryOf, Kinds, Triples, Live, LiveIn

LEMMA NSRemoveName ==
  ASSUME NEW e, NEW i, i = e[3],
         Kinds(inode)[i] = "file", Triples(inode') = Triples(inode) \ {e},
         Kinds(inode') = IF { x \in Triples(inode) : x[3] = i } = {e}
                         THEN [Kinds(inode) EXCEPT ![i] = "none"] ELSE Kinds(inode)
  PROVE  NS!RemoveName(e)
BY DEF NS!RemoveName, NS!NamesOf, Kinds, Triples, Live, LiveIn

LEMMA NSRemoveDirectory ==
  ASSUME NEW e, NEW i, i = e[3],
         Kinds(inode)[i] = "directory", ~\E x \in Triples(inode) : x[1] = i,
         Triples(inode') = Triples(inode) \ {e},
         Kinds(inode') = [Kinds(inode) EXCEPT ![i] = "none"]
  PROVE  NS!RemoveDirectory(e)
BY DEF NS!RemoveDirectory, Kinds, Triples, Live, LiveIn

LEMMA NSRemoves ==
  ASSUME NEW e, e \in Triples(inode), NS!RemoveName(e) \/ NS!RemoveDirectory(e)
  PROVE  NS!Next
BY DEF NS!Next, Triples, Live, LiveIn

-----------------------------------------------------------------------------
(* The entries after a step.                                               *)

LEMMA GrowTriples ==
  ASSUME TreeInv, NEW d \in Inodes, NEW i \in Inodes, NEW k \in Nat, NEW n, Grows(d, k, n, i)
  PROVE  /\ Triples(inode') = Triples(inode) \cup {<<d, n, i>>}
         /\ { e \in Triples(inode) : e[1] = d /\ e[2] = n } = {}
<1>1. /\ d # i
      /\ \A j \in Inodes : \A m \in LiveIn(inode[j]) : inode'[j].entry[m] = inode[j].entry[m]
      /\ k \in Named(d)' /\ Named(d)' = Named(d) \cup {k}
      /\ \A j \in Inodes \ {d} : Named(j)' = Named(j)
  BY GrowFacts
<1>2. /\ inode[d].type = DIRECTORY /\ inode'[d].type = DIRECTORY
      /\ inode'[d].entry[k] = [inum |-> i, name |-> n]
      /\ \A m \in LiveIn(inode[d]) : inode[d].entry[m].name # n
      /\ inode[i].type # DIRECTORY /\ Named(i)' = {}
      /\ \A j \in Inodes \ {d, i} : inode'[j].type = inode[j].type
  BY DEF Grows, Gains, Kept
<1>3. inode'[d].entry[k].inum = i /\ inode'[d].entry[k].name = n
  BY <1>2
<1>4. \A j \in Inodes : Named(j) = LiveIn(inode[j]) \ {1, 2} /\ Named(j)' = LiveIn(inode'[j]) \ {1, 2}
  BY DEF Named
<1>5. ASSUME NEW x, x \in Triples(inode)
      PROVE  x \in Triples(inode')
  <2>1. PICK j \in Inodes : /\ inode[j].type = DIRECTORY
                            /\ \E m \in Named(j) :
                                 x = <<j, inode[j].entry[m].name, inode[j].entry[m].inum>>
    BY <1>4, <1>5, TripleIs
  <2>2. PICK m \in Named(j) : x = <<j, inode[j].entry[m].name, inode[j].entry[m].inum>>
    BY <2>1
  <2>3. inode'[j].type = DIRECTORY /\ m \in Named(j)' /\ inode'[j].entry[m] = inode[j].entry[m]
    BY <1>1, <1>2, <1>4, <2>1
  <2> QED BY <1>4, <2>2, <2>3, TripleIs
<1>6. <<d, n, i>> \in Triples(inode')
  BY <1>1, <1>2, <1>3, <1>4, TripleIs
<1>7. ASSUME NEW x, x \in Triples(inode'), x # <<d, n, i>>
      PROVE  x \in Triples(inode)
  <2>1. PICK j \in Inodes : /\ inode'[j].type = DIRECTORY
                            /\ \E m \in Named(j)' :
                                 x = <<j, inode'[j].entry[m].name, inode'[j].entry[m].inum>>
    BY <1>4, <1>7, TripleIs
  <2>2. PICK m \in Named(j)' : x = <<j, inode'[j].entry[m].name, inode'[j].entry[m].inum>>
    BY <2>1
  <2>3. ~(j = d /\ m = k)
    BY <1>3, <1>7, <2>2
  <2>4. inode[j].type = DIRECTORY /\ m \in Named(j) /\ inode'[j].entry[m] = inode[j].entry[m]
    BY <1>1, <1>2, <1>4, <2>1, <2>3
  <2> QED BY <1>4, <2>2, <2>4, TripleIs
<1>8. Triples(inode') = Triples(inode) \cup {<<d, n, i>>}
  BY <1>5, <1>6, <1>7
<1>9. ASSUME NEW x \in Triples(inode), x[1] = d PROVE x[2] # n
  <2>1. PICK j \in Inodes : \E m \in LiveIn(inode[j]) \ {1, 2} :
           x = <<j, inode[j].entry[m].name, inode[j].entry[m].inum>>
    BY TripleIs
  <2> QED BY <1>2, <1>9, <2>1
<1> QED BY <1>8, <1>9

LEMMA ShrinkTriples ==
  ASSUME TreeInv, NEW d \in Inodes, NEW i \in Inodes, NEW k \in Nat, Shrinks(d, k, i),
         NEW e, e = <<d, inode[d].entry[k].name, i>>
  PROVE  e \in Triples(inode) /\ Triples(inode') = Triples(inode) \ {e}
<1>1. /\ inode[d].type = DIRECTORY /\ inode'[d].type = DIRECTORY
      /\ k \in Named(d) /\ Named(d)' = Named(d) \ {k} /\ inode[d].entry[k].inum = i
      /\ \A m \in LiveIn(inode[d]) \ {k} : inode'[d].entry[m] = inode[d].entry[m]
  BY DEF Shrinks, Loses, Named
<1>2. Named(i) = {} /\ inode'[i].type # DIRECTORY
  BY DEF Shrinks, DIRECTORY, REGULAR, FREE
<1>3. \A j \in Inodes \ {d, i} :
        /\ inode'[j].type = inode[j].type /\ Named(j)' = Named(j)
        /\ \A m \in LiveIn(inode[j]) : inode'[j].entry[m] = inode[j].entry[m]
  BY DEF Shrinks, Kept, Named
<1>4. \A j \in Inodes : Named(j) = LiveIn(inode[j]) \ {1, 2} /\ Named(j)' = LiveIn(inode'[j]) \ {1, 2}
  BY DEF Named
<1>5. \A m \in Named(d) : inode[d].entry[m].name = inode[d].entry[k].name => m = k
  <2>1. WellFormed(inode[d], d)
    BY <1>1 DEF TreeInv, Shape, IsDirectory
  <2> QED BY <1>1, <1>4, <2>1 DEF WellFormed
<1>6. e \in Triples(inode)
  BY <1>1, <1>4, TripleIs
<1>7. ASSUME NEW x, x \in Triples(inode), x # e PROVE x \in Triples(inode')
  <2>1. PICK j \in Inodes : /\ inode[j].type = DIRECTORY
                            /\ \E m \in Named(j) :
                                 x = <<j, inode[j].entry[m].name, inode[j].entry[m].inum>>
    BY <1>4, <1>7, TripleIs
  <2>2. PICK m \in Named(j) : x = <<j, inode[j].entry[m].name, inode[j].entry[m].inum>>
    BY <2>1
  <2>3. ~(j = d /\ m = k)
    BY <1>1, <1>7, <2>2
  <2>4. inode'[j].type = DIRECTORY /\ m \in Named(j)' /\ inode'[j].entry[m] = inode[j].entry[m]
    BY <1>1, <1>2, <1>3, <1>4, <2>1, <2>3
  <2> QED BY <1>4, <2>2, <2>4, TripleIs
<1>8. ASSUME NEW x, x \in Triples(inode') PROVE x \in Triples(inode) /\ x # e
  <2>1. PICK j \in Inodes : /\ inode'[j].type = DIRECTORY
                            /\ \E m \in Named(j)' :
                                 x = <<j, inode'[j].entry[m].name, inode'[j].entry[m].inum>>
    BY <1>4, <1>8, TripleIs
  <2>2. PICK m \in Named(j)' : x = <<j, inode'[j].entry[m].name, inode'[j].entry[m].inum>>
    BY <2>1
  <2>3. /\ inode[j].type = DIRECTORY /\ m \in Named(j) /\ inode'[j].entry[m] = inode[j].entry[m]
        /\ ~(j = d /\ m = k)
    BY <1>1, <1>2, <1>3, <1>4, <2>1
  <2>4. x # e
    BY <1>5, <2>2, <2>3
  <2> QED BY <1>4, <2>2, <2>3, <2>4, TripleIs
<1> QED BY <1>6, <1>7, <1>8

-----------------------------------------------------------------------------
(* Each step is one of Namespace.                                          *)

LEMMA SameIsNS ==
  ASSUME TreeInv, SameStep
  PROVE  UNCHANGED NS!nvars
<1>1. \A j \in Inodes : /\ inode'[j].type = inode[j].type
                        /\ LiveIn(inode'[j]) = LiveIn(inode[j])
                        /\ \A k \in LiveIn(inode[j]) : inode'[j].entry[k] = inode[j].entry[k]
  BY DEF SameStep, Kept
<1>2. Kinds(inode') = Kinds(inode)
  BY <1>1 DEF Kinds
<1>3. ASSUME NEW x PROVE x \in Triples(inode') <=> x \in Triples(inode)
  BY <1>1, TripleIs
<1>4. Triples(inode') = Triples(inode)
  BY <1>3
<1> QED BY <1>2, <1>4, NSSame

LEMMA MakeIsNS ==
  ASSUME TreeInv, NEW d \in Inodes, NEW i \in Inodes, NEW k \in Nat, NEW n \in Names,
         MakeStep(d, k, n, i)
  PROVE  NS!Next
<1>1. Grows(d, k, n, i)
  BY MakeGrows
<1>2. /\ Triples(inode') = Triples(inode) \cup {<<d, n, i>>}
      /\ { e \in Triples(inode) : e[1] = d /\ e[2] = n } = {}
  BY <1>1, GrowTriples
<1>3. Kinds(inode)[d] = "directory" /\ Kinds(inode)[i] = "none"
  BY KindIs DEF MakeStep, Gains
<1>4. \A j \in Inodes \ {i} : inode'[j].type = inode[j].type
  BY DEF MakeStep, Gains, Kept
<1>5. CASE inode'[i].type = REGULAR
  <2>1. Kinds(inode') = [Kinds(inode) EXCEPT ![i] = "file"]
    BY <1>4, <1>5, KindsAfter, KindIs
  <2>2. NS!Make(d, n, i, "file")
    BY <1>2, <1>3, <2>1, NSMake
  <2> QED BY <2>2 DEF NS!Next
<1>6. CASE inode'[i].type = DIRECTORY
  <2>1. Kinds(inode') = [Kinds(inode) EXCEPT ![i] = "directory"]
    BY <1>4, <1>6, KindsAfter, KindIs
  <2>2. NS!Make(d, n, i, "directory")
    BY <1>2, <1>3, <2>1, NSMake
  <2> QED BY <2>2 DEF NS!Next
<1> QED BY <1>5, <1>6 DEF MakeStep

LEMMA LinkIsNS ==
  ASSUME TreeInv, NEW d \in Inodes, NEW i \in Inodes, NEW k \in Nat, NEW n \in Names,
         LinkStep(d, k, n, i)
  PROVE  NS!Next
<1>1. Grows(d, k, n, i)
  BY LinkGrows
<1>2. /\ Triples(inode') = Triples(inode) \cup {<<d, n, i>>}
      /\ { e \in Triples(inode) : e[1] = d /\ e[2] = n } = {}
  BY <1>1, GrowTriples
<1>3. Kinds(inode)[d] = "directory" /\ Kinds(inode)[i] = "file"
  BY KindIs DEF LinkStep, Gains
<1>4. \A j \in Inodes : inode'[j].type = inode[j].type
  BY DEF LinkStep, Gains, Kept
<1>5. Kinds(inode') = Kinds(inode)
  BY <1>4, KindsSame
<1>6. NS!MakeLink(d, n, i)
  BY <1>2, <1>3, <1>5, NSMakeLink
<1> QED BY <1>6 DEF NS!Next

LEMMA UnlinkIsNS ==
  ASSUME TreeInv, TypeOK', Shape', NEW d \in Inodes, NEW i \in Inodes, NEW k \in Nat,
         UnlinkStep(d, k, i)
  PROVE  NS!Next
<1> PICK e : e = <<d, inode[d].entry[k].name, i>>
  OBVIOUS
<1> DEFINE N == { x \in Triples(inode) : x[3] = i }
<1>0. REGULAR # FREE
  BY DEF REGULAR, FREE
<1>1. Shrinks(d, k, i)
  BY UnlinkShrinks
<1>2. e \in Triples(inode) /\ Triples(inode') = Triples(inode) \ {e} /\ e[3] = i
  BY <1>1, ShrinkTriples
<1>3. Kinds(inode)[i] = "file"
  BY KindIs DEF UnlinkStep
<1>4. \A j \in Inodes \ {i} : inode'[j].type = inode[j].type
  BY DEF UnlinkStep, Loses, Kept
<1>5. CASE inode'[i].type = FREE
  <2>1. Kinds(inode') = [Kinds(inode) EXCEPT ![i] = "none"]
    BY <1>4, <1>5, KindsAfter, KindIs
  <2>2. ASSUME NEW x \in N PROVE x = e
    <3>1. PICK j \in Inodes : /\ inode[j].type = DIRECTORY
                              /\ \E m \in LiveIn(inode[j]) \ {1, 2} :
                                   x = <<j, inode[j].entry[m].name, inode[j].entry[m].inum>>
      BY TripleIs
    <3>2. PICK m \in Named(j) : x = <<j, inode[j].entry[m].name, inode[j].entry[m].inum>>
      BY <3>1 DEF Named
    <3>3. inode[j].entry[m].inum = i
      BY <3>2
    <3>4. j = d /\ m = k
      BY <1>0, <1>1, <1>5, <3>1, <3>3 DEF Shrinks
    <3> QED BY <3>2, <3>3, <3>4
  <2>3. N = {e}
    BY <1>2, <2>2
  <2>4. NS!RemoveName(e)
    BY <1>2, <1>3, <2>1, <2>3, NSRemoveName
  <2> QED BY <1>2, <2>4, NSRemoves
<1>6. CASE inode'[i].type # FREE
  <2>1. inode'[i].type = inode[i].type
    BY <1>1, <1>6 DEF Shrinks
  <2>2. Kinds(inode') = Kinds(inode)
    BY <1>4, <2>1, KindsSame
  <2>3. PICK j \in Inodes : /\ inode[j].type = DIRECTORY
                            /\ \E m \in Named(j) : inode[j].entry[m].inum = i /\ ~(j = d /\ m = k)
    BY <1>1, <1>6 DEF Shrinks
  <2>4. PICK m \in Named(j) : inode[j].entry[m].inum = i /\ ~(j = d /\ m = k)
    BY <2>3
  <2> DEFINE x == <<j, inode[j].entry[m].name, i>>
  <2>5. x \in N
    <3>1. x \in Triples(inode)
      BY <2>3, <2>4, TripleIs DEF Named
    <3> QED BY <3>1
  <2>6. x # e
    <3>1. SUFFICES ASSUME j = d, inode[d].entry[m].name = inode[d].entry[k].name PROVE FALSE
      OBVIOUS
    <3>2. WellFormed(inode[d], d) /\ m \in LiveIn(inode[d]) /\ k \in LiveIn(inode[d])
      BY <1>1, <2>3, <2>4, <3>1 DEF TreeInv, Shape, IsDirectory, Named, Shrinks, Loses
    <3> QED BY <2>4, <3>1, <3>2 DEF WellFormed
  <2>7. N # {e}
    BY <2>5, <2>6
  <2>8. NS!RemoveName(e)
    BY <1>2, <1>3, <2>2, <2>7, NSRemoveName
  <2> QED BY <1>2, <2>8, NSRemoves
<1> QED BY <1>5, <1>6

LEMMA RmDirIsNS ==
  ASSUME TreeInv, NEW d \in Inodes, NEW i \in Inodes, NEW k \in Nat, RmDirStep(d, k, i)
  PROVE  NS!Next
<1> PICK e : e = <<d, inode[d].entry[k].name, i>>
  OBVIOUS
<1>1. Shrinks(d, k, i)
  BY RmDirShrinks
<1>2. e \in Triples(inode) /\ Triples(inode') = Triples(inode) \ {e} /\ e[3] = i
  BY <1>1, ShrinkTriples
<1>3. Kinds(inode)[i] = "directory" /\ Kinds(inode')[i] = "none"
  BY KindIs DEF RmDirStep
<1>4. \A j \in Inodes \ {i} : inode'[j].type = inode[j].type
  BY DEF RmDirStep, Loses, Kept
<1>5. Kinds(inode') = [Kinds(inode) EXCEPT ![i] = "none"]
  BY <1>3, <1>4, KindsAfter
<1>6. ~\E x \in Triples(inode) : x[1] = i
  <2>1. ASSUME NEW x \in Triples(inode), x[1] = i PROVE FALSE
    <3>1. PICK j \in Inodes : /\ inode[j].type = DIRECTORY
                              /\ \E m \in LiveIn(inode[j]) \ {1, 2} :
                                   x = <<j, inode[j].entry[m].name, inode[j].entry[m].inum>>
      BY TripleIs
    <3>2. j = i
      BY <2>1, <3>1
    <3> QED BY <3>1, <3>2 DEF RmDirStep
  <2> QED BY <2>1
<1>7. NS!RemoveDirectory(e)
  BY <1>2, <1>3, <1>5, <1>6, NSRemoveDirectory
<1> QED BY <1>2, <1>7, NSRemoves

LEMMA StepIsNS ==
  ASSUME TreeInv, [Next]_vars
  PROVE  [NS!Next]_(NS!nvars)
<1>1. TypeOK' /\ Shape' /\ TreeStep
  BY NextEffect DEF Effect
<1>2. CASE SameStep
  BY <1>2, SameIsNS
<1>3. CASE ~SameStep
  BY <1>1, <1>3, MakeIsNS, LinkIsNS, UnlinkIsNS, RmDirIsNS DEF TreeStep
<1> QED BY <1>2, <1>3

LEMMA InitIsNS ==
  ASSUME Init
  PROVE  NS!Init
<1>1. TreeInv
  BY InitTree
<1>2. PICK b \in Blocks :
        inode = [i \in Inodes |->
           IF i = Root THEN [CreatedDirectory(FreeInode, Root, Root, b) EXCEPT !.nlink = 2]
           ELSE FreeInode]
  BY DEF Init
<1>3. \A i \in Inodes \ {Root} : inode[i] = FreeInode
  BY <1>2
<1>4. FreeInode.type = FREE
  BY DEF FreeInode
<1>5. inode[Root].type = DIRECTORY
  BY <1>1 DEF TreeInv, Parents_OK, IsDirectory
<1>6. Kinds(inode) = [i \in Inodes |-> IF i = Root THEN "directory" ELSE "none"]
  BY <1>3, <1>4, <1>5 DEF Kinds, DIRECTORY, REGULAR, FREE
<1>7. Triples(inode) = {}
  <2>1. \A i \in Inodes : inode[i].type = DIRECTORY => i = Root
    BY <1>3, <1>4 DEF DIRECTORY, FREE
  <2>2. Named(Root) = {}
    <3>1. SUFFICES ASSUME NEW k \in Named(Root) PROVE FALSE
      OBVIOUS
    <3>2. inode[Root].entry[k].inum \in Used \ {Root}
      BY <1>1, <1>5, RootAssumption DEF TreeInv, Children_OK, IsDirectory
    <3>3. Used = {Root}
      BY <1>3, <1>4, <1>5, RootAssumption DEF Used, DIRECTORY, FREE
    <3> QED BY <3>2, <3>3
  <2>3. ASSUME NEW x \in Triples(inode) PROVE FALSE
    <3>1. PICK j \in Inodes : /\ inode[j].type = DIRECTORY
                              /\ \E m \in LiveIn(inode[j]) \ {1, 2} :
                                   x = <<j, inode[j].entry[m].name, inode[j].entry[m].inum>>
      BY TripleIs
    <3> QED BY <2>1, <2>2, <3>1 DEF Named
  <2> QED BY <2>3
<1> QED BY <1>6, <1>7, NSInit

\* Seen through the live entries of its directories, the server is the tree of
\* names Namespace describes: a call enters or removes one name, a file goes
\* with its last one and a directory only when it is empty (yfs.c:595-673,
\* 986-1177), however entries were cleared, reused and dropped before.
THEOREM NamespaceImplemented == Spec => ImplementsNamespace
<1>1. Init => NS!Init
  BY InitIsNS
<1>2. TreeInv /\ [Next]_vars => [NS!Next]_(NS!nvars)
  BY StepIsNS
<1> QED BY <1>1, <1>2, TreeInvariant, PTL DEF Spec, ImplementsNamespace, NS!Spec
=============================================================================
