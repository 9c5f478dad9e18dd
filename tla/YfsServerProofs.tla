-------------------------- MODULE YfsServerProofs --------------------------
(***************************************************************************)
(* Theorems about the file server of YfsServer: its directories stay a     *)
(* tree and its link counts right, for every geometry, every set of        *)
(* inodes, names and blocks, and every bound.                              *)
(*                                                                         *)
(* The argument has two halves.  First, whatever a message handler does to *)
(* inodes, entries and sizes, its effect on the live entries is one of     *)
(* five steps (SameStep, MakeStep, LinkStep, UnlinkStep, RmDirStep), and   *)
(* directories keep their shape.  Second, these five preserve TreeInv.     *)
(***************************************************************************)
EXTENDS YfsServer, InodeProofs

-----------------------------------------------------------------------------
(* The inductive invariant.                                                *)

\* Directories are well formed and no other inode has entries.
Shape ==
  \A d \in Inodes : IF IsDirectory(d) THEN WellFormed(inode[d], d) ELSE inode[d].entry = <<>>

\* The entries behind "." and "..".
Named(d) == LiveIn(inode[d]) \ {1, 2}

\* What a directory names is in use, is neither the root nor the directory
\* itself, and if it is a directory, it is named once and its ".." agrees.
Children_OK ==
  \A d \in Inodes : IsDirectory(d) => \A k \in Named(d) :
    LET c == inode[d].entry[k].inum
    IN /\ c \in Used \ {Root, d}
       /\ IsDirectory(c) =>
            /\ inode[c].entry[2].inum = d
            /\ \A j \in Named(d) : inode[d].entry[j].inum = c => j = k

\* ".." of the root is the root, and of any other directory one that names it.
Parents_OK ==
  /\ IsDirectory(Root) /\ inode[Root].entry[2].inum = Root
  /\ \A d \in Inodes \ {Root} : IsDirectory(d) =>
       LET up == inode[d].entry[2].inum
       IN up \in Inodes /\ IsDirectory(up) /\ \E k \in Named(up) : inode[up].entry[k].inum = d

\* Everything in use is found from the root.
Reached ==
  \A S \in SUBSET Used :
    /\ Root \in S
    /\ \A d \in S : IsDirectory(d) => \A k \in Named(d) : inode[d].entry[k].inum \in S
    => S = Used

Counted == \A i \in Inodes : IsFiniteSet(Links(i)) /\ (i \in Used => inode[i].nlink = Cardinality(Links(i)))

TreeInv == TypeOK /\ Shape /\ Children_OK /\ Parents_OK /\ Reached /\ Counted /\ FreeInodesFree

-----------------------------------------------------------------------------
(* What a handler does to the entries that are live.                       *)

\* Inode d keeps its type and its live entries.
Kept(d) ==
  /\ inode'[d].type = inode[d].type
  /\ LiveIn(inode'[d]) = LiveIn(inode[d])
  /\ \A k \in LiveIn(inode[d]) : inode'[d].entry[k] = inode[d].entry[k]

\* Directory d gains entry k, with name n for inode i.
Gains(d, k, n, i) ==
  /\ inode[d].type = DIRECTORY /\ inode'[d].type = DIRECTORY
  /\ k \in Nat \ LiveIn(inode[d]) /\ LiveIn(inode'[d]) = LiveIn(inode[d]) \cup {k}
  /\ inode'[d].entry[k] = [inum |-> i, name |-> n]
  /\ \A j \in LiveIn(inode[d]) : inode[d].entry[j].name # n /\ inode'[d].entry[j] = inode[d].entry[j]

\* Directory d loses entry k, a name of inode i.
Loses(d, k, i) ==
  /\ inode[d].type = DIRECTORY /\ inode'[d].type = DIRECTORY
  /\ k \in LiveIn(inode[d]) \ {1, 2} /\ LiveIn(inode'[d]) = LiveIn(inode[d]) \ {k}
  /\ inode[d].entry[k].inum = i
  /\ \A j \in LiveIn(inode[d]) \ {k} : inode'[d].entry[j] = inode[d].entry[j]

SameLinks(S) == \A d \in S : inode'[d].nlink = inode[d].nlink

SameStep == (\A d \in Inodes : Kept(d)) /\ SameLinks(Inodes)

MakeStep(d, k, n, i) ==
  /\ inode[i].type = FREE
  /\ Gains(d, k, n, i)
  /\ \A j \in Inodes \ {d, i} : Kept(j)
  /\ SameLinks(Inodes \ {d, i})
  /\ \/ /\ inode'[i].type = REGULAR /\ LiveIn(inode'[i]) = {}
        /\ inode'[i].nlink = 1 /\ inode'[d].nlink = inode[d].nlink
     \/ /\ inode'[i].type = DIRECTORY /\ LiveIn(inode'[i]) = {1, 2}
        /\ inode'[i].entry[1].inum = i /\ inode'[i].entry[2].inum = d
        /\ inode'[i].nlink = 2 /\ inode'[d].nlink = inode[d].nlink + 1

LinkStep(d, k, n, i) ==
  /\ inode[i].type = REGULAR
  /\ Gains(d, k, n, i)
  /\ \A j \in Inodes \ {d} : Kept(j)
  /\ inode'[i].nlink = inode[i].nlink + 1 /\ SameLinks(Inodes \ {i})

UnlinkStep(d, k, i) ==
  /\ inode[i].type = REGULAR
  /\ Loses(d, k, i)
  /\ \A j \in Inodes \ {d, i} : Kept(j)
  /\ inode'[i].nlink = inode[i].nlink - 1 /\ SameLinks(Inodes \ {i})
  /\ inode'[i].type = (IF inode[i].nlink = 1 THEN FREE ELSE REGULAR)

RmDirStep(d, k, i) ==
  /\ inode[i].type = DIRECTORY /\ LiveIn(inode[i]) = {1, 2} /\ i # Root
  /\ Loses(d, k, i)
  /\ \A j \in Inodes \ {d, i} : Kept(j)
  /\ inode'[d].nlink = inode[d].nlink - 1 /\ SameLinks(Inodes \ {d, i})
  /\ inode'[i].type = FREE

TreeStep ==
  \/ SameStep
  \/ \E d, i \in Inodes, k \in Nat :
       \/ \E n \in Names : MakeStep(d, k, n, i) \/ LinkStep(d, k, n, i)
       \/ UnlinkStep(d, k, i)
       \/ RmDirStep(d, k, i)

-----------------------------------------------------------------------------
(* The live entries that stand for an inode.                               *)

LinksIn(f, i) ==
  { l \in { j \in Inodes : f[j].type # FREE } \X (1 .. MaxFileSize) :
      l[2] <= Len(f[l[1]].entry) /\ f[l[1]].entry[l[2]].inum = i }

LivePairs(f, i) ==
  { l \in Inodes \X Nat : /\ f[l[1]].type = DIRECTORY /\ l[2] \in LiveIn(f[l[1]])
                          /\ f[l[1]].entry[l[2]].inum = i }

\* They are entries of directories.
LEMMA LinkPairs ==
  ASSUME NEW f \in [Inodes -> InodeType], NEW i \in Inodes,
         \A d \in Inodes : IF f[d].type = DIRECTORY THEN WellFormed(f[d], d) ELSE f[d].entry = <<>>
  PROVE  LinksIn(f, i) = LivePairs(f, i)
<1>1. ASSUME NEW d \in Inodes, f[d].type = DIRECTORY
      PROVE  Len(f[d].entry) \in 0 .. MaxFileSize /\ f[d].type # FREE
  BY <1>1, InodeFields DEF WellFormed, FREE, DIRECTORY
<1>2. ASSUME NEW d \in Inodes, f[d].type # DIRECTORY PROVE Len(f[d].entry) = 0
  BY <1>2
<1>3. i # Nil /\ MaxFileSize \in Nat
  BY NilAssumption, Geometry
<1> QED BY <1>1, <1>2, <1>3 DEF LinksIn, LivePairs, LiveIn

LEMMA LiveFacts ==
  ASSUME NEW f \in [Inodes -> InodeType], NEW d \in Inodes,
         IF f[d].type = DIRECTORY THEN WellFormed(f[d], d) ELSE f[d].entry = <<>>
  PROVE  /\ LiveIn(f[d]) \in SUBSET Nat
         /\ f[d].type = DIRECTORY =>
              {1, 2} \subseteq LiveIn(f[d]) /\ f[d].entry[1].inum = d
         /\ f[d].type # DIRECTORY => LiveIn(f[d]) = {}
<1>1. Len(f[d].entry) \in Nat
  BY InodeFields, LenProperties
<1> QED BY <1>1 DEF LiveIn, WellFormed

\* Every live entry stands for an inode in use, and the second of a directory
\* for a directory.
LEMMA EntriesInUse ==
  ASSUME TreeInv, NEW d \in Inodes, NEW k \in LiveIn(inode[d])
  PROVE  /\ inode[d].type = DIRECTORY
         /\ inode[d].entry[k].inum \in Inodes
         /\ inode[inode[d].entry[k].inum].type # FREE
         /\ k \in {1, 2} => inode[inode[d].entry[k].inum].type = DIRECTORY
         /\ k = 1 => inode[d].entry[k].inum = d
<1>1. inode \in [Inodes -> InodeType]
  BY DEF TreeInv, TypeOK
<1>2. inode[d].type = DIRECTORY /\ inode[d].entry[1].inum = d
  BY <1>1, LiveFacts DEF TreeInv, Shape, IsDirectory
<1>3. CASE k = 1
  BY <1>2, <1>3 DEF DIRECTORY, FREE
<1>4. CASE k = 2
  BY <1>2, <1>4, RootAssumption DEF TreeInv, Parents_OK, IsDirectory, DIRECTORY, FREE
<1>5. CASE k \notin {1, 2}
  BY <1>2, <1>5 DEF TreeInv, Children_OK, IsDirectory, Named, Live, LiveIn, Used
<1> QED BY <1>2, <1>3, <1>4, <1>5

LEMMA LinksOfStep ==
  ASSUME TreeInv, TypeOK', Shape', NEW i \in Inodes
  PROVE  Links(i) = LivePairs(inode, i) /\ Links(i)' = LivePairs(inode', i)
<1>1. LinksIn(inode, i) = LivePairs(inode, i)
  BY LinkPairs DEF TreeInv, TypeOK, Shape, IsDirectory
<1>2. LinksIn(inode', i) = LivePairs(inode', i)
  BY LinkPairs DEF TypeOK, Shape, IsDirectory
<1> QED BY <1>1, <1>2 DEF Links, Used, LinksIn

\* Children_OK, of one name.
LEMMA ChildFacts ==
  ASSUME Children_OK, NEW d \in Inodes, inode[d].type = DIRECTORY, NEW k \in Named(d),
         NEW c, c = inode[d].entry[k].inum
  PROVE  /\ c \in Used \ {Root, d}
         /\ inode[c].type = DIRECTORY =>
              /\ inode[c].entry[2].inum = d
              /\ \A j \in Named(d) : inode[d].entry[j].inum = c => j = k
<1>1. \A m \in Named(d) : LET e == inode[d].entry[m].inum
                          IN /\ e \in Used \ {Root, d}
                             /\ inode[e].type = DIRECTORY =>
                                  /\ inode[e].entry[2].inum = d
                                  /\ \A j \in Named(d) : inode[d].entry[j].inum = e => j = m
  BY DEF Children_OK, IsDirectory
<1> QED BY <1>1

-----------------------------------------------------------------------------
(* A step that changes no live entry.                                      *)

LEMMA SamePreserves ==
  ASSUME TreeInv, TypeOK', Shape', SameStep
  PROVE  Children_OK' /\ Parents_OK' /\ Reached' /\ Counted'
<1>1. \A d \in Inodes : /\ inode'[d].type = inode[d].type /\ inode'[d].nlink = inode[d].nlink
                        /\ Named(d)' = Named(d)
  BY DEF SameStep, Kept, SameLinks, Named
<1>2. \A d \in Inodes : \A k \in LiveIn(inode[d]) : inode'[d].entry[k] = inode[d].entry[k]
  BY DEF SameStep, Kept
<1>3. \A d \in Inodes : inode[d].type = DIRECTORY => 2 \in LiveIn(inode[d])
  BY LiveFacts DEF TreeInv, TypeOK, Shape, IsDirectory
<1>4. \A d \in Inodes : \A k \in Named(d) : inode'[d].entry[k] = inode[d].entry[k]
  BY <1>2 DEF Named
<1>5. Used' = Used /\ Used \subseteq Inodes
  BY <1>1 DEF Used
<1>6. \A d \in Inodes : inode[d].type = DIRECTORY => inode'[d].entry[2] = inode[d].entry[2]
  BY <1>2, <1>3
<1>7. Children_OK'
  <2>1. SUFFICES ASSUME NEW d \in Inodes, inode[d].type = DIRECTORY, NEW k \in Named(d),
                        NEW c, c = inode[d].entry[k].inum
                 PROVE  /\ c \in Used \ {Root, d}
                        /\ inode[c].type = DIRECTORY =>
                             /\ inode'[c].entry[2].inum = d
                             /\ \A j \in Named(d) : inode'[d].entry[j].inum = c => j = k
    BY <1>1, <1>4, <1>5 DEF Children_OK, IsDirectory
  <2>2. /\ c \in Used \ {Root, d}
        /\ inode[c].type = DIRECTORY =>
             /\ inode[c].entry[2].inum = d
             /\ \A j \in Named(d) : inode[d].entry[j].inum = c => j = k
    BY <2>1 DEF TreeInv, Children_OK, IsDirectory
  <2> QED BY <1>4, <1>5, <1>6, <2>2
<1>8. Parents_OK'
  <2>1. inode'[Root].type = DIRECTORY /\ inode'[Root].entry[2].inum = Root
    BY <1>1, <1>6, RootAssumption DEF TreeInv, Parents_OK, IsDirectory
  <2>2. ASSUME NEW d \in Inodes \ {Root}, inode'[d].type = DIRECTORY,
               NEW up, up = inode'[d].entry[2].inum
        PROVE  /\ up \in Inodes /\ inode'[up].type = DIRECTORY
               /\ \E k \in Named(up)' : inode'[up].entry[k].inum = d
    <3>1. inode[d].type = DIRECTORY /\ up = inode[d].entry[2].inum
      BY <1>1, <1>6, <2>2
    <3>2. /\ up \in Inodes /\ inode[up].type = DIRECTORY
          /\ \E k \in Named(up) : inode[up].entry[k].inum = d
      BY <3>1 DEF TreeInv, Parents_OK, IsDirectory
    <3> QED BY <1>1, <1>4, <3>2
  <2> QED BY <2>1, <2>2 DEF Parents_OK, IsDirectory
<1>9. Reached'
  BY <1>1, <1>4, <1>5 DEF TreeInv, Reached, IsDirectory
<1>10. Counted'
  <2>1. ASSUME NEW i \in Inodes PROVE Links(i)' = Links(i)
    <3>1. LivePairs(inode', i) = LivePairs(inode, i)
      BY DEF LivePairs, SameStep, Kept
    <3> QED BY <3>1, LinksOfStep
  <2> QED BY <1>1, <1>5, <2>1 DEF TreeInv, Counted
<1> QED BY <1>7, <1>8, <1>9, <1>10

-----------------------------------------------------------------------------
(* A step that enters a name, for a new inode or a file.                   *)

Grows(d, k, n, i) ==
  /\ Gains(d, k, n, i)
  /\ \A j \in Inodes \ {d, i} : Kept(j)
  /\ inode[i].type # DIRECTORY /\ inode'[i].type # FREE /\ Named(i)' = {}
  /\ inode[i].type # FREE => inode'[i].type = inode[i].type
  /\ inode'[i].type = DIRECTORY => inode'[i].entry[2].inum = d

\* What was there is there still, and d names i.
LEMMA GrowFacts ==
  ASSUME TreeInv, NEW d \in Inodes, NEW i \in Inodes, NEW k \in Nat, NEW n, Grows(d, k, n, i)
  PROVE  /\ d # i /\ Used' = Used \cup {i} /\ Used \subseteq Inodes
         /\ \A j \in Used : inode'[j].type = inode[j].type
         /\ \A j \in Inodes : \A m \in LiveIn(inode[j]) : inode'[j].entry[m] = inode[j].entry[m]
         /\ \A j \in Used : IsDirectory(j) => 2 \in LiveIn(inode[j])
         /\ k \in Named(d)' \ Named(d) /\ Named(d)' = Named(d) \cup {k}
         /\ inode'[d].entry[k].inum = i
         /\ \A j \in Inodes \ {d} : Named(j)' = Named(j)
<1>1. d # i
  BY DEF Grows, Gains
<1>2. \A j \in Inodes : /\ inode[j].type = DIRECTORY => {1, 2} \subseteq LiveIn(inode[j])
                        /\ inode[j].type # DIRECTORY => LiveIn(inode[j]) = {}
  BY LiveFacts DEF TreeInv, TypeOK, Shape, IsDirectory
<1>3. \A j \in Inodes \ {d, i} : Kept(j)
  BY DEF Grows
<1>4. /\ inode[d].type = DIRECTORY /\ inode'[d].type = DIRECTORY /\ k \notin LiveIn(inode[d])
      /\ LiveIn(inode'[d]) = LiveIn(inode[d]) \cup {k}
      /\ inode'[d].entry[k].inum = i
      /\ \A j \in LiveIn(inode[d]) : inode'[d].entry[j] = inode[d].entry[j]
  BY DEF Grows, Gains
<1>5. /\ inode[i].type # DIRECTORY /\ inode'[i].type # FREE /\ Named(i)' = {}
      /\ inode[i].type # FREE => inode'[i].type = inode[i].type
  BY DEF Grows
<1>6. DIRECTORY # FREE
  BY DEF DIRECTORY, FREE
<1>7. Used' = Used \cup {i} /\ Used \subseteq Inodes
  BY <1>3, <1>4, <1>5, <1>6 DEF Used, Kept
<1>8. \A j \in Used : inode'[j].type = inode[j].type
  BY <1>3, <1>4, <1>5 DEF Used, Kept
<1>9. \A j \in Inodes : \A m \in LiveIn(inode[j]) : inode'[j].entry[m] = inode[j].entry[m]
  BY <1>2, <1>3, <1>4, <1>5 DEF Kept
<1>10. Named(d)' = Named(d) \cup {k} /\ k \in Named(d)' \ Named(d)
  BY <1>2, <1>4 DEF Named
<1>11. \A j \in Inodes \ {d} : Named(j)' = Named(j)
  BY <1>2, <1>3, <1>5 DEF Named, Kept
<1> QED BY <1>1, <1>2, <1>4, <1>7, <1>8, <1>9, <1>10, <1>11 DEF IsDirectory

LEMMA GrowPreserves ==
  ASSUME TreeInv, NEW d \in Inodes, NEW i \in Inodes, NEW k \in Nat, NEW n, Grows(d, k, n, i)
  PROVE  Children_OK' /\ Parents_OK' /\ Reached'
<1>1. /\ d # i /\ Used' = Used \cup {i} /\ Used \subseteq Inodes
      /\ \A j \in Used : inode'[j].type = inode[j].type
      /\ \A j \in Inodes : \A m \in LiveIn(inode[j]) : inode'[j].entry[m] = inode[j].entry[m]
      /\ \A j \in Used : IsDirectory(j) => 2 \in LiveIn(inode[j])
      /\ k \in Named(d)' \ Named(d) /\ Named(d)' = Named(d) \cup {k}
      /\ inode'[d].entry[k].inum = i
      /\ \A j \in Inodes \ {d} : Named(j)' = Named(j)
  BY GrowFacts
<1>2. /\ inode[i].type # DIRECTORY /\ (inode[i].type # FREE => inode'[i].type = inode[i].type)
      /\ inode'[i].type = DIRECTORY => inode'[i].entry[2].inum = d
      /\ inode[d].type = DIRECTORY /\ inode'[d].type = DIRECTORY /\ Named(i)' = {}
  BY DEF Grows, Gains
<1>3. \A j \in Inodes : inode[j].type = DIRECTORY =>
        /\ j \in Used /\ j # i
        /\ inode'[j].type = DIRECTORY /\ inode'[j].entry[2] = inode[j].entry[2]
  BY <1>1, <1>2 DEF Used, IsDirectory, DIRECTORY, FREE
<1>4. \A j \in Inodes : \A m \in Named(j) : inode'[j].entry[m] = inode[j].entry[m]
  BY <1>1 DEF Named
<1>5. \A j \in Inodes : inode'[j].type = DIRECTORY /\ j # i => inode[j].type = DIRECTORY
  BY <1>1 DEF Used, DIRECTORY, FREE, Grows, Kept, Gains
<1>6. Children_OK'
  <2>1. SUFFICES ASSUME NEW e \in Inodes, inode'[e].type = DIRECTORY, NEW m \in Named(e)',
                        NEW c, c = inode'[e].entry[m].inum
                 PROVE  /\ c \in Used' \ {Root, e}
                        /\ inode'[c].type = DIRECTORY =>
                             /\ inode'[c].entry[2].inum = e
                             /\ \A j \in Named(e)' : inode'[e].entry[j].inum = c => j = m
    BY DEF Children_OK, IsDirectory
  <2>2. e # i /\ inode[e].type = DIRECTORY
    BY <1>2, <1>5, <2>1
  <2>3. ASSUME m \in Named(e)
        PROVE  /\ c \in Used \ {Root, e} /\ c = inode[e].entry[m].inum
               /\ inode[c].type = DIRECTORY =>
                    /\ inode[c].entry[2].inum = e
                    /\ \A j \in Named(e) : inode[e].entry[j].inum = c => j = m
    <3>1. c = inode[e].entry[m].inum /\ Children_OK
      BY <1>4, <2>1, <2>3 DEF TreeInv
    <3> QED BY <2>2, <2>3, <3>1, ChildFacts
  <2>4. \A j \in Named(e) : inode[e].entry[j].inum \in Used
    <3>1. Children_OK
      BY DEF TreeInv
    <3> QED BY <2>2, <3>1, ChildFacts
  <2>5. Root # i
    BY <1>2 DEF TreeInv, Parents_OK, IsDirectory
  <2>6. CASE e = d /\ m = k
    <3>1. c = i /\ m \notin Named(e)
      BY <1>1, <2>1, <2>6
    <3>2. ASSUME inode'[i].type = DIRECTORY, NEW j \in Named(e), inode'[e].entry[j].inum = i PROVE FALSE
      <4>1. inode[i].type # FREE
        BY <1>4, <2>4, <3>2 DEF Used
      <4> QED BY <1>2, <3>2, <4>1
    <3> QED BY <1>1, <1>2, <2>5, <2>6, <3>1, <3>2
  <2>7. CASE ~(e = d /\ m = k)
    <3>1. m \in Named(e)
      BY <1>1, <2>1, <2>2, <2>7
    <3>2. inode'[c].type = DIRECTORY => inode[c].type = DIRECTORY
      BY <1>1, <2>3, <3>1
    <3>3. inode[c].type = DIRECTORY => c # i
      BY <1>2
    <3>4. \A j \in Named(e)' : j \in Named(e) \/ inode'[e].entry[j].inum = i
      BY <1>1, <2>2
    <3>5. c \in Inodes
      BY <1>1, <2>3, <3>1
    <3>6. \A j \in Named(e) : inode'[e].entry[j] = inode[e].entry[j]
      BY <1>4
    <3> QED BY <1>1, <1>3, <2>3, <3>1, <3>2, <3>3, <3>4, <3>5, <3>6
  <2> QED BY <2>6, <2>7
<1>7. Parents_OK'
  <2>1. inode'[Root].type = DIRECTORY /\ inode'[Root].entry[2].inum = Root
    BY <1>3, RootAssumption DEF TreeInv, Parents_OK, IsDirectory
  <2>2. ASSUME NEW e \in Inodes \ {Root}, inode'[e].type = DIRECTORY,
               NEW up, up = inode'[e].entry[2].inum
        PROVE  /\ up \in Inodes /\ inode'[up].type = DIRECTORY
               /\ \E m \in Named(up)' : inode'[up].entry[m].inum = e
    <3>1. CASE e = i
      BY <1>1, <1>2, <2>2, <3>1
    <3>2. CASE e # i
      <4>1. inode[e].type = DIRECTORY /\ up = inode[e].entry[2].inum
        BY <1>3, <1>5, <2>2, <3>2
      <4>2. /\ up \in Inodes /\ inode[up].type = DIRECTORY
            /\ \E m \in Named(up) : inode[up].entry[m].inum = e
        BY <4>1 DEF TreeInv, Parents_OK, IsDirectory
      <4>3. Named(up) \subseteq Named(up)'
        BY <1>1, <4>2
      <4> QED BY <1>3, <1>4, <4>2, <4>3
    <3> QED BY <3>1, <3>2
  <2> QED BY <2>1, <2>2 DEF Parents_OK, IsDirectory
<1>8. Reached'
  <2>1. SUFFICES ASSUME NEW S \in SUBSET Used', Root \in S,
                        \A e \in S : inode'[e].type = DIRECTORY =>
                                     \A m \in Named(e)' : inode'[e].entry[m].inum \in S
                 PROVE  S = Used'
    BY DEF Reached, IsDirectory
  <2> DEFINE T == S \cap Used
  <2>2. Root \in T
    BY <2>1, RootAssumption DEF TreeInv, Parents_OK, IsDirectory, Used, DIRECTORY, FREE
  <2>3. ASSUME NEW e \in T, inode[e].type = DIRECTORY, NEW m \in Named(e)
        PROVE  inode[e].entry[m].inum \in T
    <3>1. inode[e].entry[m].inum \in Used
      BY <1>1, <2>3 DEF TreeInv, Children_OK, IsDirectory
    <3>2. inode'[e].type = DIRECTORY /\ m \in Named(e)' /\ inode'[e].entry[m] = inode[e].entry[m]
      BY <1>1, <1>3, <1>4, <2>3
    <3> QED BY <2>1, <3>1, <3>2
  <2>4. T = Used
    BY <2>2, <2>3 DEF TreeInv, Reached, IsDirectory
  <2>5. d \in S
    BY <1>2, <2>4 DEF Used, DIRECTORY, FREE
  <2>6. i \in S
    BY <1>1, <1>2, <2>1, <2>5
  <2> QED BY <1>1, <2>4, <2>6
<1> QED BY <1>6, <1>7, <1>8

LEMMA LinkGrows ==
  ASSUME TreeInv, NEW d \in Inodes, NEW i \in Inodes, NEW k, NEW n, LinkStep(d, k, n, i)
  PROVE  Grows(d, k, n, i)
<1>1. inode'[i].type = REGULAR /\ LiveIn(inode'[i]) = LiveIn(inode[i])
  BY DEF LinkStep, Gains, Kept, REGULAR, DIRECTORY
<1>2. LiveIn(inode[i]) = {}
  BY LiveFacts DEF LinkStep, TreeInv, TypeOK, Shape, IsDirectory, REGULAR, DIRECTORY
<1> QED BY <1>1, <1>2 DEF LinkStep, Grows, Named, REGULAR, DIRECTORY, FREE

LEMMA MakeGrows ==
  ASSUME NEW d, NEW i, NEW k, NEW n, MakeStep(d, k, n, i)
  PROVE  Grows(d, k, n, i)
BY DEF MakeStep, Grows, Named, REGULAR, DIRECTORY, FREE

LEMMA LinkPreserves ==
  ASSUME TreeInv, TypeOK', Shape', NEW d \in Inodes, NEW i \in Inodes, NEW k \in Nat, NEW n \in Names,
         LinkStep(d, k, n, i)
  PROVE  Children_OK' /\ Parents_OK' /\ Reached' /\ Counted'
<1>1. Grows(d, k, n, i)
  BY LinkGrows
<1>2. Children_OK' /\ Parents_OK' /\ Reached'
  BY <1>1, GrowPreserves
<1>3. /\ inode[d].type = DIRECTORY /\ inode'[d].type = DIRECTORY
      /\ k \notin LiveIn(inode[d]) /\ LiveIn(inode'[d]) = LiveIn(inode[d]) \cup {k}
      /\ inode'[d].entry[k].inum = i
      /\ \A j \in LiveIn(inode[d]) : inode'[d].entry[j] = inode[d].entry[j]
  BY DEF LinkStep, Gains
<1>4. ASSUME NEW j \in Inodes, NEW l \in Inodes \X Nat
      PROVE  l \in LivePairs(inode', j) <=> l \in LivePairs(inode, j) \/ (j = i /\ l = <<d, k>>)
  <2>1. l = <<l[1], l[2]>> /\ l[1] \in Inodes
    OBVIOUS
  <2>2. CASE l[1] = d
    BY <1>3, <2>1, <2>2 DEF LivePairs
  <2>3. CASE l[1] # d
    <3>1. Kept(l[1])
      BY <2>1, <2>3 DEF LinkStep
    <3> QED BY <2>1, <2>3, <3>1 DEF LivePairs, Kept
  <2> QED BY <2>2, <2>3
<1>5. \A j \in Inodes : LivePairs(inode, j) \subseteq Inodes \X Nat
                        /\ LivePairs(inode', j) \subseteq Inodes \X Nat
  BY DEF LivePairs
<1>6. LivePairs(inode', i) = LivePairs(inode, i) \cup {<<d, k>>} /\ <<d, k>> \notin LivePairs(inode, i)
  BY <1>3, <1>4, <1>5 DEF LivePairs
<1>7. \A j \in Inodes \ {i} : LivePairs(inode', j) = LivePairs(inode, j)
  BY <1>4, <1>5
<1>8. Counted'
  <2>1. ASSUME NEW j \in Inodes
        PROVE  IsFiniteSet(Links(j)') /\ (j \in Used' => inode'[j].nlink = Cardinality(Links(j)'))
    <3>1. Links(j) = LivePairs(inode, j) /\ Links(j)' = LivePairs(inode', j)
      BY LinksOfStep
    <3>2. IsFiniteSet(Links(j)) /\ (j \in Used => inode[j].nlink = Cardinality(Links(j)))
      BY DEF TreeInv, Counted
    <3>3. CASE j = i
      <4>1. i \in Used
        BY DEF LinkStep, Used, REGULAR, FREE
      <4>2. Links(i)' = Links(i) \cup {<<d, k>>} /\ <<d, k>> \notin Links(i)
        BY <1>6, <3>1, <3>3
      <4>3. IsFiniteSet(Links(i)') /\ Cardinality(Links(i)') = Cardinality(Links(i)) + 1
        BY <3>2, <3>3, <4>2, FS_AddElement
      <4> QED BY <3>2, <3>3, <4>1, <4>3 DEF LinkStep
    <3>4. CASE j # i
      <4>1. j \in Used' => j \in Used /\ inode'[j].nlink = inode[j].nlink
        BY <1>3, <3>4 DEF LinkStep, SameLinks, Used, Kept
      <4> QED BY <1>7, <3>1, <3>2, <3>4, <4>1
    <3> QED BY <3>3, <3>4
  <2> QED BY <2>1 DEF Counted
<1> QED BY <1>2, <1>8

LEMMA MakePreserves ==
  ASSUME TreeInv, TypeOK', Shape', NEW d \in Inodes, NEW i \in Inodes, NEW k \in Nat, NEW n \in Names,
         MakeStep(d, k, n, i)
  PROVE  Children_OK' /\ Parents_OK' /\ Reached' /\ Counted'
<1>0. REGULAR # DIRECTORY /\ REGULAR # FREE /\ DIRECTORY # FREE
  BY DEF REGULAR, DIRECTORY, FREE
<1>1. Grows(d, k, n, i)
  BY MakeGrows
<1>2. Children_OK' /\ Parents_OK' /\ Reached'
  BY <1>1, GrowPreserves
<1>3. /\ inode[d].type = DIRECTORY /\ inode'[d].type = DIRECTORY /\ d # i
      /\ k \notin LiveIn(inode[d]) /\ LiveIn(inode'[d]) = LiveIn(inode[d]) \cup {k}
      /\ inode'[d].entry[k].inum = i
      /\ \A j \in LiveIn(inode[d]) : inode'[d].entry[j] = inode[d].entry[j]
  BY <1>0 DEF MakeStep, Gains
<1> DEFINE dir == inode'[i].type = DIRECTORY
<1>4. inode[i].type = FREE /\ (dir => /\ LiveIn(inode'[i]) = {1, 2}
                                     /\ inode'[i].entry[1].inum = i /\ inode'[i].entry[2].inum = d)
  BY <1>0 DEF MakeStep
<1>5. ASSUME NEW j \in Inodes, NEW l \in Inodes \X Nat
      PROVE  l \in LivePairs(inode', j)
               <=> \/ l \in LivePairs(inode, j)
                   \/ j = i /\ l = <<d, k>>
                   \/ dir /\ j = i /\ l = <<i, 1>>
                   \/ dir /\ j = d /\ l = <<i, 2>>
  <2>1. l = <<l[1], l[2]>> /\ l[1] \in Inodes
    OBVIOUS
  <2>2. CASE l[1] = d
    BY <1>3, <2>1, <2>2 DEF LivePairs
  <2>3. CASE l[1] = i
    BY <1>0, <1>3, <1>4, <2>1, <2>3 DEF LivePairs
  <2>4. CASE l[1] \notin {d, i}
    <3>1. Kept(l[1])
      BY <2>1, <2>4 DEF MakeStep
    <3> QED BY <2>1, <2>4, <3>1 DEF LivePairs, Kept
  <2> QED BY <2>2, <2>3, <2>4
<1>6. \A j \in Inodes : LivePairs(inode, j) \subseteq Inodes \X Nat
                        /\ LivePairs(inode', j) \subseteq Inodes \X Nat
  BY DEF LivePairs
<1>7. LivePairs(inode, i) = {} /\ \A j \in Inodes : <<i, 2>> \notin LivePairs(inode, j)
  BY <1>0, <1>4, EntriesInUse DEF LivePairs
<1> HIDE DEF dir
<1>8. LivePairs(inode', i) = IF dir THEN {<<d, k>>, <<i, 1>>} ELSE {<<d, k>>}
  BY <1>3, <1>5, <1>6, <1>7
<1>9. LivePairs(inode', d) = IF dir THEN LivePairs(inode, d) \cup {<<i, 2>>} ELSE LivePairs(inode, d)
  BY <1>3, <1>5, <1>6
<1>10. \A j \in Inodes \ {d, i} : LivePairs(inode', j) = LivePairs(inode, j)
  BY <1>5, <1>6
<1>11. ASSUME NEW j \in Inodes
       PROVE  /\ Links(j) = LivePairs(inode, j) /\ Links(j)' = LivePairs(inode', j)
              /\ IsFiniteSet(Links(j)) /\ (j \in Used => inode[j].nlink = Cardinality(Links(j)))
  BY LinksOfStep DEF TreeInv, Counted
<1>12. IsFiniteSet(Links(i)') /\ inode'[i].nlink = Cardinality(Links(i)')
  <2>1. IsFiniteSet({<<d, k>>}) /\ Cardinality({<<d, k>>}) = 1
    BY FS_Singleton
  <2>2. CASE dir
    <3>1. Links(i)' = {<<d, k>>} \cup {<<i, 1>>} /\ <<i, 1>> \notin {<<d, k>>}
      BY <1>3, <1>8, <1>11, <2>2
    <3>2. IsFiniteSet(Links(i)') /\ Cardinality(Links(i)') = 2
      <4> DEFINE one == {<<d, k>>}
      <4>1. /\ IsFiniteSet(one) /\ Cardinality(one) = 1
            /\ Links(i)' = one \cup {<<i, 1>>} /\ <<i, 1>> \notin one
        BY <2>1, <3>1
      <4> HIDE DEF one
      <4>2. /\ IsFiniteSet(one \cup {<<i, 1>>})
            /\ Cardinality(one \cup {<<i, 1>>}) = Cardinality(one) + 1
        BY <4>1, FS_AddElement
      <4> QED BY <4>1, <4>2
    <3> QED BY <1>0, <2>2, <3>2 DEF MakeStep, dir
  <2>3. CASE ~dir
    BY <1>8, <1>11, <2>1, <2>3 DEF MakeStep, dir
  <2> QED BY <2>2, <2>3
<1>13. IsFiniteSet(Links(d)') /\ inode'[d].nlink = Cardinality(Links(d)')
  <2>1. d \in Used
    BY <1>0, <1>3 DEF Used
  <2>2. CASE dir
    <3>1. Links(d)' = Links(d) \cup {<<i, 2>>} /\ <<i, 2>> \notin Links(d)
      BY <1>7, <1>9, <1>11, <2>2
    <3>2. IsFiniteSet(Links(d)') /\ Cardinality(Links(d)') = Cardinality(Links(d)) + 1
      BY <1>11, <3>1, FS_AddElement
    <3> QED BY <1>0, <1>11, <2>1, <2>2, <3>2 DEF MakeStep, dir
  <2>3. CASE ~dir
    BY <1>9, <1>11, <2>1, <2>3 DEF MakeStep, dir
  <2> QED BY <2>2, <2>3
<1>14. ASSUME NEW j \in Inodes \ {d, i}
       PROVE  IsFiniteSet(Links(j)') /\ (j \in Used' => inode'[j].nlink = Cardinality(Links(j)'))
  <2>1. Kept(j) /\ inode'[j].nlink = inode[j].nlink
    BY DEF MakeStep, SameLinks
  <2> QED BY <1>10, <1>11, <2>1 DEF Used, Kept
<1>15. Counted'
  BY <1>12, <1>13, <1>14 DEF Counted
<1> QED BY <1>2, <1>15

-----------------------------------------------------------------------------
(* A step that removes a name.                                             *)

\* Directory d loses the name k of i; i is gone, or it is a file with another.
Shrinks(d, k, i) ==
  /\ inode[i].type # FREE /\ i # Root /\ Named(i) = {}
  /\ Loses(d, k, i)
  /\ \A j \in Inodes \ {d, i} : Kept(j)
  /\ \/ inode'[i].type = FREE /\ \A j \in Inodes : \A m \in Named(j) :
          inode[j].type = DIRECTORY /\ inode[j].entry[m].inum = i => j = d /\ m = k
     \/ /\ inode[i].type = REGULAR /\ inode'[i].type = REGULAR
        /\ \E j \in Inodes : inode[j].type = DIRECTORY /\ \E m \in Named(j) :
             inode[j].entry[m].inum = i /\ ~(j = d /\ m = k)

LEMMA ShrinkPreserves ==
  ASSUME TreeInv, TypeOK', Shape', NEW d \in Inodes, NEW i \in Inodes, NEW k \in Nat, Shrinks(d, k, i)
  PROVE  Children_OK' /\ Parents_OK' /\ Reached'
<1>0. REGULAR # DIRECTORY /\ REGULAR # FREE /\ DIRECTORY # FREE
  BY DEF REGULAR, DIRECTORY, FREE
<1>1. /\ inode[d].type = DIRECTORY /\ inode'[d].type = DIRECTORY
      /\ k \in Named(d) /\ Named(d)' = Named(d) \ {k}
      /\ LiveIn(inode'[d]) = LiveIn(inode[d]) \ {k}
      /\ inode[d].entry[k].inum = i
      /\ \A j \in LiveIn(inode[d]) \ {k} : inode'[d].entry[j] = inode[d].entry[j]
  BY DEF Shrinks, Loses, Named
<1>2. d # i /\ Root # i /\ Named(i) = {} /\ inode[i].type # FREE
  BY <1>1 DEF Shrinks
<1>3. \A j \in Inodes \ {d, i} : Kept(j)
  BY DEF Shrinks
<1>4. \/ inode'[i].type = FREE /\ Used' = Used \ {i}
      \/ inode[i].type = REGULAR /\ inode'[i].type = REGULAR /\ Used' = Used
  BY <1>0, <1>1, <1>3 DEF Shrinks, Used, Kept
<1>5. Used \subseteq Inodes /\ \A j \in Inodes \ {i} : inode'[j].type = inode[j].type
  BY <1>1, <1>3 DEF Used, Kept
<1>6. \A j \in Inodes : inode'[j].type = DIRECTORY => j # i /\ inode[j].type = DIRECTORY
  BY <1>0, <1>4, <1>5
<1>7. \A j \in Inodes : inode'[j].type = DIRECTORY =>
        /\ Named(j)' \subseteq Named(j) /\ (j # d => Named(j)' = Named(j))
        /\ \A m \in Named(j)' : inode'[j].entry[m] = inode[j].entry[m]
        /\ inode'[j].entry[2] = inode[j].entry[2]
  <2>1. ASSUME NEW j \in Inodes, inode'[j].type = DIRECTORY, j # d
        PROVE  /\ Named(j)' = Named(j) /\ \A m \in Named(j)' : inode'[j].entry[m] = inode[j].entry[m]
               /\ inode'[j].entry[2] = inode[j].entry[2]
    <3>1. Kept(j) /\ inode[j].type = DIRECTORY
      BY <1>3, <1>6, <2>1
    <3>2. 2 \in LiveIn(inode[j])
      BY <3>1, LiveFacts DEF TreeInv, TypeOK, Shape, IsDirectory
    <3> QED BY <3>1, <3>2 DEF Kept, Named
  <2>2. 2 \in LiveIn(inode[d]) /\ k # 2
    BY <1>1, LiveFacts DEF TreeInv, TypeOK, Shape, IsDirectory, Named
  <2>3. \A m \in Named(d)' : m \in LiveIn(inode[d]) \ {k}
    BY <1>1 DEF Named
  <2> QED BY <1>1, <2>1, <2>2, <2>3
<1>8. \A j \in Inodes : inode'[j].type = DIRECTORY =>
        \A m \in Named(j) : m \notin Named(j)' => j = d /\ m = k
  BY <1>1, <1>7
<1>9. Children_OK'
  <2>1. SUFFICES ASSUME NEW e \in Inodes, inode'[e].type = DIRECTORY, NEW m \in Named(e)',
                        NEW c, c = inode'[e].entry[m].inum
                 PROVE  /\ c \in Used' \ {Root, e}
                        /\ inode'[c].type = DIRECTORY =>
                             /\ inode'[c].entry[2].inum = e
                             /\ \A j \in Named(e)' : inode'[e].entry[j].inum = c => j = m
    BY DEF Children_OK, IsDirectory
  <2>2. m \in Named(e) /\ inode[e].type = DIRECTORY /\ c = inode[e].entry[m].inum
    BY <1>6, <1>7, <2>1
  <2>3. /\ c \in Used \ {Root, e}
        /\ inode[c].type = DIRECTORY =>
             /\ inode[c].entry[2].inum = e
             /\ \A j \in Named(e) : inode[e].entry[j].inum = c => j = m
    BY <2>2 DEF TreeInv, Children_OK, IsDirectory
  <2>4. ~(e = d /\ m = k)
    BY <1>1, <2>1
  <2>5. c \in Used'
    BY <1>0, <1>4, <2>2, <2>3, <2>4 DEF Shrinks
  <2>6. c \in Inodes
    BY <1>5, <2>3
  <2> QED BY <1>6, <1>7, <2>1, <2>3, <2>5, <2>6
<1>10. Parents_OK'
  <2>1. inode'[Root].type = DIRECTORY /\ inode'[Root].entry[2].inum = Root
    BY <1>2, <1>5, <1>7, RootAssumption DEF TreeInv, Parents_OK, IsDirectory
  <2>2. ASSUME NEW e \in Inodes \ {Root}, inode'[e].type = DIRECTORY,
               NEW up, up = inode'[e].entry[2].inum
        PROVE  /\ up \in Inodes /\ inode'[up].type = DIRECTORY
               /\ \E m \in Named(up)' : inode'[up].entry[m].inum = e
    <3>1. inode[e].type = DIRECTORY /\ up = inode[e].entry[2].inum /\ e # i
      BY <1>6, <1>7, <2>2
    <3>2. up \in Inodes /\ inode[up].type = DIRECTORY
      BY <3>1 DEF TreeInv, Parents_OK, IsDirectory
    <3>3. PICK m \in Named(up) : inode[up].entry[m].inum = e
      BY <3>1 DEF TreeInv, Parents_OK, IsDirectory
    <3>4. up # i /\ ~(up = d /\ m = k)
      BY <1>1, <1>2, <3>1, <3>3
    <3>5. inode'[up].type = DIRECTORY
      BY <1>5, <3>2, <3>4
    <3> QED BY <1>7, <1>8, <3>2, <3>3, <3>4, <3>5
  <2> QED BY <2>1, <2>2 DEF Parents_OK, IsDirectory
<1>11. Reached'
  <2>1. SUFFICES ASSUME NEW S \in SUBSET Used', Root \in S,
                        \A e \in S : inode'[e].type = DIRECTORY =>
                                     \A m \in Named(e)' : inode'[e].entry[m].inum \in S
                 PROVE  S = Used'
    BY DEF Reached, IsDirectory
  <2> DEFINE T == S \cup {i}
  <2>2. T \in SUBSET Used /\ Root \in T
    BY <1>2, <1>4, <2>1 DEF Used
  <2>3. ASSUME NEW e \in T, inode[e].type = DIRECTORY, NEW m \in Named(e)
        PROVE  inode[e].entry[m].inum \in T
    <3>1. e # i /\ e \in S /\ e \in Inodes
      BY <1>2, <1>5, <2>2, <2>3
    <3>2. inode'[e].type = DIRECTORY
      BY <1>5, <2>3, <3>1
    <3>3. CASE e = d /\ m = k
      BY <1>1, <3>3
    <3>4. CASE ~(e = d /\ m = k)
      <4>1. m \in Named(e)' /\ inode'[e].entry[m] = inode[e].entry[m]
        BY <1>7, <1>8, <2>3, <3>1, <3>2, <3>4
      <4> QED BY <2>1, <3>1, <3>2, <4>1
    <3> QED BY <3>3, <3>4
  <2>4. T = Used
    BY <2>2, <2>3 DEF TreeInv, Reached, IsDirectory
  <2>5. CASE inode'[i].type = FREE
    BY <1>0, <1>4, <2>1, <2>4, <2>5 DEF Used
  <2>6. CASE inode'[i].type # FREE
    <3>0. PICK j \in Inodes :
            /\ inode[j].type = DIRECTORY
            /\ \E m \in Named(j) : inode[j].entry[m].inum = i /\ ~(j = d /\ m = k)
      BY <2>6 DEF Shrinks
    <3>1. PICK m \in Named(j) : inode[j].entry[m].inum = i /\ ~(j = d /\ m = k)
      BY <3>0
    <3>2. j # i /\ j \in Used /\ inode'[j].type = DIRECTORY
      BY <1>0, <1>2, <1>5, <3>0, <3>1 DEF Used
    <3>3. j \in S
      BY <2>4, <3>2
    <3>4. m \in Named(j)' /\ inode'[j].entry[m].inum = i
      BY <1>7, <1>8, <3>0, <3>1, <3>2
    <3>5. i \in S
      BY <2>1, <3>2, <3>3, <3>4
    <3> QED BY <1>4, <2>4, <2>6, <3>5
  <2> QED BY <2>5, <2>6
<1> QED BY <1>9, <1>10, <1>11

LEMMA UnlinkShrinks ==
  ASSUME TreeInv, TypeOK', Shape', NEW d \in Inodes, NEW i \in Inodes, NEW k \in Nat,
         UnlinkStep(d, k, i)
  PROVE  Shrinks(d, k, i)
<1>0. REGULAR # DIRECTORY /\ REGULAR # FREE /\ DIRECTORY # FREE
  BY DEF REGULAR, DIRECTORY, FREE
<1>1. /\ inode[d].type = DIRECTORY /\ inode'[d].type = DIRECTORY /\ d # i
      /\ k \in LiveIn(inode[d]) \ {1, 2} /\ inode[d].entry[k].inum = i /\ inode[i].type = REGULAR
  BY <1>0 DEF UnlinkStep, Loses
<1>2. LiveIn(inode[i]) = {}
  BY <1>0, <1>1, LiveFacts DEF TreeInv, TypeOK, Shape, IsDirectory
<1>3. <<d, k>> \in LivePairs(inode, i)
  BY <1>1 DEF LivePairs
<1>4. /\ Links(i) = LivePairs(inode, i) /\ IsFiniteSet(Links(i))
      /\ i \in Used => inode[i].nlink = Cardinality(Links(i))
  BY LinksOfStep DEF TreeInv, Counted
<1>5. i \in Used
  BY <1>0, <1>1 DEF Used
<1>6. i # Root /\ Named(i) = {}
  BY <1>0, <1>1, <1>2 DEF TreeInv, Parents_OK, IsDirectory, Named
<1>7. \A j \in Inodes : \A m \in Named(j) :
        inode[j].entry[m].inum = i => <<j, m>> \in Links(i)
  <2>1. ASSUME NEW j \in Inodes, NEW m \in Named(j), inode[j].entry[m].inum = i
        PROVE  <<j, m>> \in LivePairs(inode, i)
    <3>1. inode[j].type = DIRECTORY /\ m \in LiveIn(inode[j]) /\ m \in Nat
      BY <2>1, EntriesInUse, LiveFacts DEF Named, TreeInv, TypeOK, Shape, IsDirectory
    <3> QED BY <2>1, <3>1 DEF LivePairs
  <2> QED BY <1>4, <2>1
<1>8. CASE inode[i].nlink = 1
  <2>1. PICK x : Links(i) = {x}
    BY <1>4, <1>5, <1>8, FS_Singleton
  <2>2. \A j \in Inodes : \A m \in Named(j) : inode[j].entry[m].inum = i => j = d /\ m = k
    BY <1>3, <1>4, <1>7, <2>1
  <2> QED BY <1>0, <1>1, <1>6, <1>8, <2>2 DEF Shrinks, UnlinkStep
<1>9. CASE inode[i].nlink # 1
  <2>1. Links(i) # {<<d, k>>}
    BY <1>4, <1>5, <1>9, FS_Singleton
  <2>2. PICK l \in LivePairs(inode, i) : l # <<d, k>>
    BY <1>3, <1>4, <2>1
  <2>3. /\ l[1] \in Inodes /\ l = <<l[1], l[2]>> /\ inode[l[1]].type = DIRECTORY
        /\ l[2] \in LiveIn(inode[l[1]]) /\ inode[l[1]].entry[l[2]].inum = i
    BY <2>2 DEF LivePairs
  <2>4. l[2] \in Named(l[1])
    BY <1>0, <1>1, <2>3, EntriesInUse DEF Named
  <2>5. ~(l[1] = d /\ l[2] = k)
    BY <2>2, <2>3
  <2> QED BY <1>0, <1>1, <1>6, <1>9, <2>3, <2>4, <2>5 DEF Shrinks, UnlinkStep
<1> QED BY <1>8, <1>9

LEMMA UnlinkPreserves ==
  ASSUME TreeInv, TypeOK', Shape', NEW d \in Inodes, NEW i \in Inodes, NEW k \in Nat,
         UnlinkStep(d, k, i)
  PROVE  Children_OK' /\ Parents_OK' /\ Reached' /\ Counted'
<1>0. REGULAR # DIRECTORY /\ REGULAR # FREE /\ DIRECTORY # FREE
  BY DEF REGULAR, DIRECTORY, FREE
<1>1. /\ inode[d].type = DIRECTORY /\ inode'[d].type = DIRECTORY /\ d # i
      /\ k \in LiveIn(inode[d]) \ {1, 2} /\ LiveIn(inode'[d]) = LiveIn(inode[d]) \ {k}
      /\ inode[d].entry[k].inum = i /\ inode[i].type = REGULAR
      /\ \A j \in LiveIn(inode[d]) \ {k} : inode'[d].entry[j] = inode[d].entry[j]
  BY <1>0 DEF UnlinkStep, Loses
<1>2. LiveIn(inode[i]) = {}
  <2>1. /\ inode \in [Inodes -> InodeType]
        /\ IF inode[i].type = DIRECTORY THEN WellFormed(inode[i], i) ELSE inode[i].entry = <<>>
    BY DEF TreeInv, TypeOK, Shape, IsDirectory
  <2> QED BY <1>0, <1>1, <2>1, LiveFacts
<1>3. LiveIn(inode'[i]) = {}
  <2>1. inode' \in [Inodes -> InodeType] /\ inode'[i].type # DIRECTORY
    BY <1>0 DEF UnlinkStep, TypeOK
  <2> QED BY <2>1, LiveFacts DEF Shape, IsDirectory
<1>4. ASSUME NEW j \in Inodes, NEW l \in Inodes \X Nat
      PROVE  l \in LivePairs(inode', j) <=> l \in LivePairs(inode, j) /\ l # <<d, k>>
  <2>1. l = <<l[1], l[2]>> /\ l[1] \in Inodes
    OBVIOUS
  <2>2. CASE l[1] = d
    BY <1>1, <2>1, <2>2 DEF LivePairs
  <2>3. CASE l[1] = i
    BY <1>1, <1>2, <1>3, <2>1, <2>3 DEF LivePairs
  <2>4. CASE l[1] \notin {d, i}
    <3>1. Kept(l[1])
      BY <2>1, <2>4 DEF UnlinkStep
    <3> QED BY <2>1, <2>4, <3>1 DEF LivePairs, Kept
  <2> QED BY <2>2, <2>3, <2>4
<1>5. \A j \in Inodes : LivePairs(inode, j) \subseteq Inodes \X Nat
                        /\ LivePairs(inode', j) \subseteq Inodes \X Nat
  BY DEF LivePairs
<1>6. <<d, k>> \in LivePairs(inode, i) /\ \A j \in Inodes \ {i} : <<d, k>> \notin LivePairs(inode, j)
  BY <1>1 DEF LivePairs
<1>7. /\ LivePairs(inode', i) = LivePairs(inode, i) \ {<<d, k>>}
      /\ \A j \in Inodes \ {i} : LivePairs(inode', j) = LivePairs(inode, j)
  BY <1>4, <1>5, <1>6
<1>8. ASSUME NEW j \in Inodes
      PROVE  /\ Links(j) = LivePairs(inode, j) /\ Links(j)' = LivePairs(inode', j)
             /\ IsFiniteSet(Links(j)) /\ (j \in Used => inode[j].nlink = Cardinality(Links(j)))
  BY LinksOfStep DEF TreeInv, Counted
<1>9. i \in Used
  BY <1>0, <1>1 DEF Used
<1>10. Counted'
  <2>1. ASSUME NEW j \in Inodes
        PROVE  IsFiniteSet(Links(j)') /\ (j \in Used' => inode'[j].nlink = Cardinality(Links(j)'))
    <3>1. CASE j = i
      <4>1. Links(i)' = Links(i) \ {<<d, k>>} /\ <<d, k>> \in Links(i) /\ IsFiniteSet(Links(i))
        BY <1>6, <1>7, <1>8
      <4>2. IsFiniteSet(Links(i)') /\ Cardinality(Links(i)') = Cardinality(Links(i)) - 1
        BY <4>1, FS_RemoveElement
      <4> QED BY <1>8, <1>9, <3>1, <4>2 DEF UnlinkStep
    <3>2. CASE j # i
      <4>1. j \in Used' => j \in Used /\ inode'[j].nlink = inode[j].nlink
        BY <1>0, <1>1, <3>2 DEF UnlinkStep, SameLinks, Used, Kept
      <4> QED BY <1>7, <1>8, <3>2, <4>1
    <3> QED BY <3>1, <3>2
  <2> QED BY <2>1 DEF Counted
<1>11. Shrinks(d, k, i)
  BY UnlinkShrinks
<1>12. Children_OK' /\ Parents_OK' /\ Reached'
  BY <1>11, ShrinkPreserves
<1> QED BY <1>10, <1>12

LEMMA RmDirShrinks ==
  ASSUME TreeInv, NEW d \in Inodes, NEW i \in Inodes, NEW k \in Nat, RmDirStep(d, k, i)
  PROVE  Shrinks(d, k, i)
<1>0. REGULAR # DIRECTORY /\ REGULAR # FREE /\ DIRECTORY # FREE
  BY DEF REGULAR, DIRECTORY, FREE
<1>1. k \in LiveIn(inode[d]) \ {1, 2} /\ inode[d].entry[k].inum = i
      /\ inode[d].type = DIRECTORY
  BY DEF RmDirStep, Loses
<1>2. inode[i].type = DIRECTORY /\ LiveIn(inode[i]) = {1, 2} /\ i # Root /\ inode'[i].type = FREE
  BY DEF RmDirStep
<1>3. inode[i].entry[2].inum = d
  <2>1. k \in Named(d)
    BY <1>1 DEF Named
  <2> QED BY <1>1, <1>2, <2>1 DEF TreeInv, Children_OK, IsDirectory
<1>4. Named(i) = {} /\ inode[i].type # FREE
  BY <1>0, <1>2 DEF Named
<1>5. k \in Named(d)
  BY <1>1 DEF Named
<1>6. ASSUME NEW j \in Inodes, NEW m \in Named(j), inode[j].type = DIRECTORY,
             inode[j].entry[m].inum = i
      PROVE  j = d /\ m = k
  BY <1>1, <1>2, <1>3, <1>5, <1>6 DEF TreeInv, Children_OK, IsDirectory
<1> QED BY <1>2, <1>4, <1>6 DEF Shrinks, RmDirStep

LEMMA RmDirPreserves ==
  ASSUME TreeInv, TypeOK', Shape', NEW d \in Inodes, NEW i \in Inodes, NEW k \in Nat,
         RmDirStep(d, k, i)
  PROVE  Children_OK' /\ Parents_OK' /\ Reached' /\ Counted'
<1>0. REGULAR # DIRECTORY /\ REGULAR # FREE /\ DIRECTORY # FREE
  BY DEF REGULAR, DIRECTORY, FREE
<1>1. /\ inode[d].type = DIRECTORY /\ inode'[d].type = DIRECTORY /\ d # i
      /\ k \in LiveIn(inode[d]) \ {1, 2} /\ LiveIn(inode'[d]) = LiveIn(inode[d]) \ {k}
      /\ inode[d].entry[k].inum = i
      /\ \A j \in LiveIn(inode[d]) \ {k} : inode'[d].entry[j] = inode[d].entry[j]
  BY <1>0 DEF RmDirStep, Loses
<1>2. inode[i].type = DIRECTORY /\ LiveIn(inode[i]) = {1, 2} /\ i # Root /\ inode'[i].type = FREE
  BY DEF RmDirStep
<1>3. inode[i].entry[1].inum = i /\ inode[i].entry[2].inum = d
  <2>1. k \in Named(d) /\ Children_OK
    BY <1>1 DEF Named, TreeInv
  <2>2. inode[i].entry[2].inum = d
    BY <1>1, <1>2, <2>1, ChildFacts
  <2>3. 1 \in LiveIn(inode[i])
    BY <1>2
  <2> QED BY <2>2, <2>3, EntriesInUse
<1>4. ASSUME NEW j \in Inodes, NEW l \in Inodes \X Nat
      PROVE  l \in LivePairs(inode', j)
               <=> l \in LivePairs(inode, j) /\ l \notin {<<d, k>>, <<i, 1>>, <<i, 2>>}
  <2>1. l = <<l[1], l[2]>> /\ l[1] \in Inodes
    OBVIOUS
  <2>2. CASE l[1] = d
    BY <1>1, <2>1, <2>2 DEF LivePairs
  <2>3. CASE l[1] = i
    BY <1>0, <1>1, <1>2, <2>1, <2>3 DEF LivePairs
  <2>4. CASE l[1] \notin {d, i}
    <3>1. Kept(l[1])
      BY <2>1, <2>4 DEF RmDirStep
    <3> QED BY <2>1, <2>4, <3>1 DEF LivePairs, Kept
  <2> QED BY <2>2, <2>3, <2>4
<1>5. \A j \in Inodes : LivePairs(inode, j) \subseteq Inodes \X Nat
                        /\ LivePairs(inode', j) \subseteq Inodes \X Nat
  BY DEF LivePairs
<1>6. /\ <<i, 2>> \in LivePairs(inode, d)
      /\ \A j \in Inodes \ {d, i} :
           <<d, k>> \notin LivePairs(inode, j) /\ <<i, 1>> \notin LivePairs(inode, j)
           /\ <<i, 2>> \notin LivePairs(inode, j)
      /\ <<d, k>> \notin LivePairs(inode, d) /\ <<i, 1>> \notin LivePairs(inode, d)
  BY <1>1, <1>2, <1>3 DEF LivePairs
<1>7. /\ LivePairs(inode', d) = LivePairs(inode, d) \ {<<i, 2>>}
      /\ \A j \in Inodes \ {d, i} : LivePairs(inode', j) = LivePairs(inode, j)
      /\ LivePairs(inode', i) \subseteq LivePairs(inode, i)
  <2>1. LivePairs(inode', d) = LivePairs(inode, d) \ {<<i, 2>>}
    BY <1>4, <1>5, <1>6
  <2>2. ASSUME NEW j \in Inodes \ {d, i} PROVE LivePairs(inode', j) = LivePairs(inode, j)
    <3>1. \A l \in Inodes \X Nat :
            l \in LivePairs(inode', j) <=> l \in LivePairs(inode, j) /\ l \notin {<<d, k>>, <<i, 1>>, <<i, 2>>}
      BY <1>4
    <3>2. /\ <<d, k>> \notin LivePairs(inode, j) /\ <<i, 1>> \notin LivePairs(inode, j)
          /\ <<i, 2>> \notin LivePairs(inode, j)
      BY <1>6
    <3> QED BY <1>5, <3>1, <3>2
  <2>3. LivePairs(inode', i) \subseteq LivePairs(inode, i)
    BY <1>4, <1>5
  <2> QED BY <2>1, <2>2, <2>3
<1>8. ASSUME NEW j \in Inodes
      PROVE  /\ Links(j) = LivePairs(inode, j) /\ Links(j)' = LivePairs(inode', j)
             /\ IsFiniteSet(Links(j)) /\ (j \in Used => inode[j].nlink = Cardinality(Links(j)))
  BY LinksOfStep DEF TreeInv, Counted
<1>9. Counted'
  <2>1. IsFiniteSet(Links(d)') /\ inode'[d].nlink = Cardinality(Links(d)')
    <3>1. Links(d)' = Links(d) \ {<<i, 2>>} /\ <<i, 2>> \in Links(d) /\ IsFiniteSet(Links(d))
      BY <1>6, <1>7, <1>8
    <3>2. IsFiniteSet(Links(d)') /\ Cardinality(Links(d)') = Cardinality(Links(d)) - 1
      BY <3>1, FS_RemoveElement
    <3>3. d \in Used
      BY <1>0, <1>1 DEF Used
    <3> QED BY <1>8, <3>2, <3>3 DEF RmDirStep
  <2>2. IsFiniteSet(Links(i)') /\ i \notin Used'
    <3>1. Links(i)' \in SUBSET Links(i) /\ IsFiniteSet(Links(i))
      BY <1>7, <1>8
    <3> QED BY <1>2, <3>1, FS_Subset DEF Used
  <2>3. ASSUME NEW j \in Inodes \ {d, i}
        PROVE  IsFiniteSet(Links(j)') /\ (j \in Used' => inode'[j].nlink = Cardinality(Links(j)'))
    <3>1. Kept(j) /\ inode'[j].nlink = inode[j].nlink
      BY DEF RmDirStep, SameLinks
    <3> QED BY <1>7, <1>8, <3>1 DEF Used, Kept
  <2> QED BY <2>1, <2>2, <2>3 DEF Counted
<1>10. Shrinks(d, k, i)
  BY RmDirShrinks
<1>11. Children_OK' /\ Parents_OK' /\ Reached'
  BY <1>10, ShrinkPreserves
<1> QED BY <1>9, <1>11

\* The steps preserve the invariant.
LEMMA TreeStepPreserves ==
  ASSUME TreeInv, TypeOK', Shape', FreeInodesFree', TreeStep
  PROVE  TreeInv'
<1>1. CASE SameStep
  BY <1>1, SamePreserves DEF TreeInv
<1>2. CASE ~SameStep
  BY <1>2, MakePreserves, LinkPreserves, UnlinkPreserves, RmDirPreserves DEF TreeInv, TreeStep
<1> QED BY <1>1, <1>2

-----------------------------------------------------------------------------
(* What the handlers do to the entries.                                    *)

\* Inode i is in a new use.
Incarnated(i) == inode'[i].reuse = inode[i].reuse + 1 /\ inode[i].type = FREE

\* Every inode is in the use it was in, or in none any more, or in a new one.
UsesKept ==
  \A i \in Inodes :
    \/ inode'[i].reuse = inode[i].reuse /\ inode'[i].type \in {inode[i].type, FREE}
    \/ Incarnated(i)

\* What is to be shown of every handler.
Effect == TypeOK' /\ Shape' /\ FreeInodesFree' /\ UsesKept /\ TreeStep

LEMMA NothingHappens ==
  ASSUME TreeInv, inode' = inode, free_inode_list' = free_inode_list,
         free_block_list' = free_block_list, fresh' = fresh, status' \in {"up"} \cup Stops
  PROVE  Effect
<1>1. TypeOK' /\ Shape' /\ FreeInodesFree'
  BY DEF TreeInv, TypeOK, Shape, FreeInodesFree, IsDirectory, Used
<1>2. TreeStep
  BY DEF TreeStep, SameStep, Kept, SameLinks
<1> QED BY <1>1, <1>2 DEF Effect, UsesKept

LEMMA RefuseEffect ==
  ASSUME TreeInv, UNCHANGED vars
  PROVE  Effect
BY NothingHappens DEF vars, TreeInv, TypeOK

LEMMA HaltEffect ==
  ASSUME TreeInv, NEW why \in Stops, Halt(why)
  PROVE  Effect
BY NothingHappens DEF Halt

LEMMA RunDryEffect ==
  ASSUME TreeInv, RunDry
  PROVE  Effect
BY HaltEffect DEF RunDry, Stops

\* Pops and pushes leave a list of blocks.
LEMMA UpdateBlocksType ==
  ASSUME TypeOK, NEW taken, NEW given \in SUBSET Blocks, UpdateBlocks(taken, given)
  PROVE  free_block_list' \in SUBSET Blocks /\ fresh' \in BOOLEAN
BY DEF TypeOK, UpdateBlocks

\* The pops of a handler, and what is left of them after the first.
LEMMA DrawsType ==
  ASSUME TypeOK, NEW n \in Nat, NEW pops \in Draws(n), NEW m \in 0 .. n
  PROVE  /\ \A j \in 1 .. n : pops[j] \in Blocks
         /\ SubSeq(pops, m + 1, n) \in Seq(Blocks) /\ Len(SubSeq(pops, m + 1, n)) = n - m
         /\ \A j \in 1 .. n - m : SubSeq(pops, m + 1, n)[j] = pops[m + j]
<1>1. pops \in [1 .. n -> free_block_list] /\ free_block_list \subseteq Blocks
  BY DEF Draws, TypeOK
<1>2. \A j \in 1 .. n : pops[j] \in Blocks
  BY <1>1
<1>3. m + 1 \in Int /\ n \in Int /\ \A j \in m + 1 .. n : pops[j] \in Blocks
  BY <1>2
<1>4. /\ SubSeq(pops, m + 1, n) \in Seq(Blocks)
      /\ Len(SubSeq(pops, m + 1, n)) = (IF m + 1 <= n THEN n - (m + 1) + 1 ELSE 0)
      /\ \A j \in 1 .. n - (m + 1) + 1 : SubSeq(pops, m + 1, n)[j] = pops[m + 1 + j - 1]
  BY <1>3, SubSeqProperties
<1> QED BY <1>2, <1>4

LEMMA BlocksToRegisterType ==
  ASSUME NEW ino
  PROVE  BlocksToRegister(ino) \in 0 .. 2
BY DEF BlocksToRegister

\* CreateFile, of a name that is new.
LEMMA CreateNewEffect ==
  ASSUME TreeInv, NEW p \in Inodes, NEW n \in Names, NEW type \in {REGULAR, DIRECTORY},
         status = "up", IsDirectory(p), inode[p].size < MaxFileSize, CreateNew(p, n, type)
  PROVE  Effect
<1> DEFINE own  == IF type = DIRECTORY THEN 1 ELSE 0
           need == own + BlocksToRegister(inode[p])
<1>0. REGULAR # DIRECTORY /\ REGULAR # FREE /\ DIRECTORY # FREE
  BY DEF REGULAR, DIRECTORY, FREE
<1>1. CASE free_inode_list = {} /\ Halt("aborted")
  BY <1>1, HaltEffect DEF Stops
<1>2. CASE free_inode_list # {} /\ ~Supplies(need) /\ RunDry
  BY <1>2, RunDryEffect
<1>3. ASSUME NEW t \in free_inode_list, NEW pops \in Draws(need), NEW made,
             made = (IF type = DIRECTORY THEN CreatedDirectory(inode[t], t, p, pops[1])
                                         ELSE CreatedFile(inode[t])),
             inode' = [inode EXCEPT ![t] = [made EXCEPT !.nlink = @ + 1],
                                    ![p] = [Registered(inode[p], t, n, SubSeq(pops, own + 1, need))
                                              EXCEPT !.nlink = @ + own]],
             free_inode_list' = free_inode_list \ {t},
             UpdateBlocks(Range(pops), {}), UNCHANGED status,
             SearchDirectory(inode[p], n) = Nil
      PROVE  Effect
  <2>1. /\ inode \in [Inodes -> InodeType] /\ t \in Inodes /\ inode[t].type = FREE /\ t # p
        /\ WellFormed(inode[p], p) /\ inode[p].type = DIRECTORY
    BY <1>0, <1>3 DEF TreeInv, TypeOK, FreeInodesFree, Used, IsDirectory, Shape
  <2>2. own \in 0 .. 1 /\ need \in Nat /\ own \in 0 .. need /\ need - own = BlocksToRegister(inode[p])
    BY BlocksToRegisterType
  <2> DEFINE new == SubSeq(pops, own + 1, need)
             T   == [made EXCEPT !.nlink = @ + 1]
             P   == [Registered(inode[p], t, n, new) EXCEPT !.nlink = @ + own]
  <2>3. /\ new \in Seq(Blocks) /\ Len(new) = BlocksToRegister(inode[p])
        /\ type = DIRECTORY => pops[1] \in Blocks
    <3>1. \A j \in 1 .. need : pops[j] \in Blocks
      BY <2>2, DrawsType DEF TreeInv
    <3>2. new \in Seq(Blocks) /\ Len(new) = need - own
      BY <2>2, DrawsType DEF TreeInv
    <3>3. type = DIRECTORY => need >= 1
      BY <2>2
    <3> QED BY <2>2, <3>1, <3>2, <3>3
  <2> HIDE DEF own, need, new
  <2>4. inode' = [inode EXCEPT ![t] = T, ![p] = P]
    BY <1>3 DEF new
  <2>5. inode'[t] = T /\ inode'[p] = P /\ \A j \in Inodes \ {p, t} : inode'[j] = inode[j]
    BY <2>1, <2>4
  <2> DEFINE R == Registered(inode[p], t, n, new)
  <2>6. PICK k \in Nat \ LiveIn(inode[p]) :
          /\ R \in InodeType /\ Len(R.entry) = R.size
          /\ R.type = DIRECTORY /\ R.nlink = inode[p].nlink /\ R.reuse = inode[p].reuse
          /\ LiveIn(R) = LiveIn(inode[p]) \cup {k}
          /\ R.entry[k] = [inum |-> t, name |-> n]
          /\ \A j \in LiveIn(inode[p]) : R.entry[j] = inode[p].entry[j]
          /\ R.size = inode[p].size \/ R.size = k
    <3>1. CanRegister(inode[p]) /\ Len(inode[p].entry) = inode[p].size
      BY <2>1 DEF CanRegister, WellFormed
    <3> QED BY <2>1, <2>3, <3>1, RegisteredEntries
  <2>7. \A j \in LiveIn(inode[p]) : inode[p].entry[j].name # n
    BY <1>3, <2>1, SearchResult
  <2>8. WellFormed(R, p)
    <3> HIDE DEF R
    <3> QED BY <2>1, <2>6, <2>7, RegisteredWellFormed
  <2>9. /\ P \in InodeType /\ P.type = DIRECTORY /\ P.entry = R.entry /\ P.size = R.size
        /\ P.nlink = inode[p].nlink + own /\ P.reuse = inode[p].reuse
    <3>1. R.nlink + own \in Int
      BY <2>2, <2>6, InodeFields
    <3> HIDE DEF R
    <3> QED BY <2>6, <3>1 DEF InodeType, R
  <2>10. /\ made \in InodeType /\ made.type = type /\ made.reuse = inode[t].reuse + 1
         /\ type = REGULAR => made.nlink = 0 /\ made.entry = <<>>
         /\ type = DIRECTORY =>
              /\ made.nlink = 1 /\ WellFormed(made, t) /\ LiveIn(made) = {1, 2}
              /\ made.entry[2].inum = p
    <3>1. inode[t] \in InodeType
      BY <2>1
    <3>2. CASE type = REGULAR
      <4>1. made = CreatedFile(inode[t])
        BY <1>0, <1>3, <3>2
      <4> QED BY <1>0, <3>1, <3>2, <4>1, CreatedFileType
    <3>3. CASE type = DIRECTORY
      <4>1. made = CreatedDirectory(inode[t], t, p, pops[1]) /\ pops[1] \in Blocks
        BY <1>3, <2>3, <3>3
      <4>2. /\ made \in InodeType /\ WellFormed(made, t) /\ LiveIn(made) = {1, 2}
            /\ made.type = DIRECTORY /\ made.nlink = 1 /\ made.entry[2].inum = p
            /\ made.reuse = inode[t].reuse + 1
        <5>1. t \in Inodes /\ pops[1] \in Blocks
          BY <2>1, <4>1

        <5> QED BY <3>1, <4>1, <5>1, CreatedWellFormed
      <4> QED BY <1>0, <3>3, <4>2
    <3> QED BY <3>2, <3>3
  <2>11. /\ T \in InodeType /\ T.type = type /\ T.entry = made.entry /\ T.size = made.size
         /\ T.nlink = made.nlink + 1 /\ T.reuse = made.reuse
    <3>1. made.nlink + 1 \in Int
      BY <2>10, InodeFields
    <3> QED BY <2>10, <3>1 DEF InodeType
  <2> HIDE DEF T, P, R
  <2>12. inode' \in [Inodes -> InodeType]
    BY <2>1, <2>4, <2>9, <2>11
  <2>13. TypeOK'
    BY <1>3, <2>12, UpdateBlocksType DEF TreeInv, TypeOK
  <2>14. Shape'
    <3>1. WellFormed(P, p)
      BY <2>8, <2>9 DEF WellFormed, LiveIn
    <3>2. type = DIRECTORY => WellFormed(T, t)
      BY <2>10, <2>11 DEF WellFormed, LiveIn
    <3>3. type = REGULAR => T.entry = <<>>
      BY <2>10, <2>11
    <3>4. ASSUME NEW d \in Inodes
          PROVE  IF inode'[d].type = DIRECTORY THEN WellFormed(inode'[d], d) ELSE inode'[d].entry = <<>>
      BY <1>0, <2>5, <2>9, <2>11, <3>1, <3>2, <3>3 DEF TreeInv, Shape, IsDirectory
    <3> QED BY <3>4 DEF Shape, IsDirectory
  <2>15. FreeInodesFree'
    BY <1>0, <1>3, <2>1, <2>5, <2>9 DEF TreeInv, TypeOK, FreeInodesFree, Used
  <2>16. MakeStep(p, k, n, t)
    <3>1. Gains(p, k, n, t)
      BY <2>1, <2>5, <2>6, <2>7, <2>9 DEF Gains, LiveIn
    <3>2. \A j \in Inodes \ {p, t} : Kept(j)
      BY <2>5 DEF Kept
    <3>3. SameLinks(Inodes \ {p, t})
      BY <2>5 DEF SameLinks
    <3>4. CASE type = REGULAR
      <4>1. LiveIn(inode'[t]) = {}
        BY <2>5, <2>10, <2>11, <3>4 DEF LiveIn
      <4>2. inode'[p].nlink = inode[p].nlink
        BY <1>0, <2>1, <2>5, <2>9, <3>4, InodeFields DEF own
      <4> QED BY <2>1, <2>5, <2>10, <2>11, <3>1, <3>2, <3>3, <3>4, <4>1, <4>2 DEF MakeStep
    <3>5. CASE type = DIRECTORY
      <4>1. LiveIn(inode'[t]) = {1, 2}
        BY <2>5, <2>10, <2>11, <3>5 DEF LiveIn
      <4>2. inode'[t].entry[1].inum = t /\ inode'[t].entry[2].inum = p
        BY <2>5, <2>10, <2>11, <3>5 DEF WellFormed
      <4>3. inode'[p].nlink = inode[p].nlink + 1 /\ inode'[t].nlink = 2
        BY <2>5, <2>9, <2>10, <2>11, <3>5 DEF own
      <4> QED BY <2>1, <2>5, <2>11, <3>1, <3>2, <3>3, <3>5, <4>1, <4>2, <4>3 DEF MakeStep
    <3> QED BY <3>4, <3>5
  <2>17. TreeStep
    BY <2>1, <2>16 DEF TreeStep
  <2>18. UsesKept
    BY <2>1, <2>5, <2>9, <2>10, <2>11 DEF UsesKept, Incarnated
  <2> QED BY <2>13, <2>14, <2>15, <2>17, <2>18 DEF Effect
<1> QED BY <1>1, <1>2, <1>3 DEF CreateNew

\* A handler that changes an inode without entries, but not its type or links.
LEMMA FileChanged ==
  ASSUME TreeInv, NEW i \in Inodes, NEW c \in InodeType, ~IsDirectory(i),
         c.type = inode[i].type, c.nlink = inode[i].nlink, c.reuse = inode[i].reuse, c.entry = <<>>,
         inode' = [inode EXCEPT ![i] = c], free_inode_list' = free_inode_list,
         free_block_list' \in SUBSET Blocks, fresh' \in BOOLEAN, status' \in {"up"} \cup Stops
  PROVE  Effect
<1>1. inode \in [Inodes -> InodeType] /\ inode[i].entry = <<>>
  BY DEF TreeInv, TypeOK, Shape
<1>2. inode'[i] = c /\ \A j \in Inodes \ {i} : inode'[j] = inode[j]
  BY <1>1
<1>3. TypeOK'
  BY <1>1 DEF TreeInv, TypeOK
<1>4. \A j \in Inodes : /\ inode'[j].type = inode[j].type /\ inode'[j].nlink = inode[j].nlink
                        /\ inode'[j].entry = inode[j].entry
  BY <1>1, <1>2
<1>5. Shape'
  BY <1>2, <1>4 DEF TreeInv, Shape, IsDirectory
<1>6. FreeInodesFree'
  BY <1>4 DEF TreeInv, FreeInodesFree, Used
<1>7. SameStep
  BY <1>4 DEF SameStep, Kept, SameLinks, LiveIn
<1>8. UsesKept
  BY <1>2, <1>4 DEF UsesKept
<1> QED BY <1>3, <1>5, <1>6, <1>7, <1>8 DEF Effect, TreeStep

\* The inode a directory has under a name.
LEMMA LookupResult ==
  ASSUME TreeInv, NEW p \in Inodes, NEW n \in Names, NEW t,
         t = SearchDirectory(inode[p], n), t # Nil, IsDirectory(p)
  PROVE  \E k \in Named(p) : /\ inode[p].entry[k].inum = t /\ inode[p].entry[k].name = n
                             /\ t \in Used \ {Root, p}
<1>1. inode[p] \in InodeType /\ WellFormed(inode[p], p)
  BY DEF TreeInv, TypeOK, Shape
<1>2. PICK k \in LiveIn(inode[p]) : inode[p].entry[k].name = n /\ inode[p].entry[k].inum = t
  BY <1>1, SearchResult
<1>3. k \notin {1, 2}
  BY <1>1, <1>2, NamesAssumption DEF WellFormed
<1>4. k \in Named(p)
  BY <1>2, <1>3 DEF Named
<1> QED BY <1>2, <1>4 DEF TreeInv, Children_OK

\* CreateFile, of a file that is there.
LEMMA TruncateExistingEffect ==
  ASSUME TreeInv, NEW p \in Inodes, NEW n \in Names, status = "up", IsDirectory(p),
         ~IsDirectory(SearchDirectory(inode[p], n)), TruncateExisting(p, n)
  PROVE  Effect
<1> DEFINE t == SearchDirectory(inode[p], n)
<1>1. t \in Inodes
  BY LookupResult DEF TruncateExisting, Used
<1>2. CASE Halt("aborted")
  BY <1>2, HaltEffect DEF Stops
<1>3. CASE ~Halt("aborted")
  <2>1. /\ inode' = [inode EXCEPT ![t] = Truncated(inode[t])]
        /\ UpdateBlocks({}, Owned(inode[t]))
        /\ UNCHANGED <<free_inode_list, status>>
    BY <1>3 DEF TruncateExisting
  <2>2. inode[t] \in InodeType
    BY <1>1 DEF TreeInv, TypeOK
  <2>3. free_block_list' \in SUBSET Blocks /\ fresh' \in BOOLEAN
    BY <2>1, <2>2, OwnedType, UpdateBlocksType DEF TreeInv
  <2> DEFINE c == Truncated(inode[t])
  <2>4. /\ c \in InodeType /\ c.type = inode[t].type /\ c.nlink = inode[t].nlink
        /\ c.reuse = inode[t].reuse /\ c.entry = <<>>
    BY <2>2, TruncatedType
  <2> HIDE DEF c
  <2>5. inode' = [inode EXCEPT ![t] = c]
    BY <2>1 DEF c
  <2> HIDE DEF t
  <2>6. ~IsDirectory(t)
    BY DEF t
  <2> QED BY <1>1, <2>1, <2>3, <2>4, <2>5, <2>6, FileChanged
<1> QED BY <1>2, <1>3

\* Create and MkDir.
LEMMA CreateEffect ==
  ASSUME TreeInv, NEW p \in Inodes, NEW n \in Names, Create(p, n)
  PROVE  Effect
<1>1. status = "up" /\ CreateFile(p, n, REGULAR)
  BY DEF Create, CreateFile
<1>2. CASE Refuse
  BY <1>2, RefuseEffect DEF Refuse
<1>3. CASE ~Refuse
  <2>1. IsDirectory(p) /\ inode[p].size < MaxFileSize
    BY <1>1, <1>3 DEF CreateFile
  <2>2. CASE TruncateExisting(p, n)
    <3>1. ~IsDirectory(SearchDirectory(inode[p], n))
      BY <2>1, <2>2 DEF Create, Lookup, TruncateExisting
    <3> QED BY <1>1, <2>1, <2>2, <3>1, TruncateExistingEffect
  <2>3. CASE CreateNew(p, n, REGULAR)
    BY <1>1, <2>1, <2>3, CreateNewEffect
  <2> QED BY <1>1, <1>3, <2>2, <2>3 DEF CreateFile
<1> QED BY <1>2, <1>3

LEMMA MkDirEffect ==
  ASSUME TreeInv, NEW p \in Inodes, NEW n \in Names, MkDir(p, n)
  PROVE  Effect
<1>1. status = "up" /\ CreateFile(p, n, DIRECTORY)
  BY DEF MkDir, CreateFile
<1>2. CASE Refuse
  BY <1>2, RefuseEffect DEF Refuse
<1>3. CASE ~Refuse
  <2>1. IsDirectory(p) /\ inode[p].size < MaxFileSize
    BY <1>1, <1>3 DEF CreateFile
  <2>2. ~TruncateExisting(p, n)
    BY <2>1 DEF MkDir, Lookup, TruncateExisting
  <2>3. CreateNew(p, n, DIRECTORY)
    BY <1>1, <1>3, <2>2 DEF CreateFile
  <2> QED BY <1>1, <2>1, <2>3, CreateNewEffect
<1> QED BY <1>2, <1>3

-----------------------------------------------------------------------------
(* Read and Write.                                                         *)

LEMMA ReadEffect ==
  ASSUME TreeInv, NEW i \in Inodes, NEW pos, NEW size, NEW reuse, ReadFile(i, pos, size, reuse)
  PROVE  Effect
<1>1. Halt("aborted") \/ Refuse
  BY DEF ReadFile
<1> QED BY <1>1, HaltEffect, RefuseEffect DEF Refuse, Stops

\* What a write leaves of an inode.
LEMMA WrittenFields ==
  ASSUME NEW ino \in InodeType, NEW end, NEW new, NEW ind, NEW w, w = Written(ino, end, new, ind)
  PROVE  /\ w.type = ino.type /\ w.nlink = ino.nlink /\ w.reuse = ino.reuse /\ w.entry = ino.entry
         /\ w.size = IF end > ino.size THEN end ELSE ino.size
         /\ w.indirect = IF ind # Nil THEN ind ELSE ino.indirect
<1> DEFINE b == [k \in DOMAIN ino.block |->
                   IF k \in DOMAIN new THEN new[k]
                   ELSE IF ind # Nil /\ k >= NumDirect THEN Nil ELSE ino.block[k]]
           s == IF end > ino.size THEN end ELSE ino.size
           x == IF ind # Nil THEN ind ELSE ino.indirect
<1>1. w = [ino EXCEPT !.size = s, !.indirect = x, !.block = b]
  BY DEF Written
<1> HIDE DEF b, s, x
<1>2. w = [type |-> ino.type, nlink |-> ino.nlink, reuse |-> ino.reuse, size |-> s,
           block |-> b, indirect |-> x, entry |-> ino.entry]
  BY <1>1 DEF InodeType
<1> QED BY <1>2 DEF s, x

LEMMA WrittenType ==
  ASSUME NEW ino \in InodeType, NEW end \in Nat, end <= MaxFileSize, NEW adds,
         NEW new \in [adds -> Blocks], NEW ind \in Blocks \cup {Nil},
         NEW w, w = Written(ino, end, new, ind)
  PROVE  w \in InodeType
<1> DEFINE word(k) == IF ind # Nil /\ k >= NumDirect THEN Nil ELSE ino.block[k]
           b == [k \in 0 .. MaxBlocks - 1 |-> IF k \in DOMAIN new THEN new[k] ELSE word(k)]
           s == IF end > ino.size THEN end ELSE ino.size
           x == IF ind # Nil THEN ind ELSE ino.indirect
<1>1. DOMAIN ino.block = 0 .. MaxBlocks - 1
  BY InodeFields
<1>2. w = [ino EXCEPT !.size = s, !.indirect = x, !.block = b]
  BY <1>1 DEF Written
<1>3. b \in [0 .. MaxBlocks - 1 -> Blocks \cup {Nil}]
  <2>1. ASSUME NEW k \in 0 .. MaxBlocks - 1 PROVE b[k] \in Blocks \cup {Nil}
    BY InodeFields
  <2> QED BY <2>1
<1>4. s \in 0 .. MaxFileSize /\ x \in Blocks \cup {Nil}
  BY InodeFields, Geometry
<1> HIDE DEF b, s, x
<1>5. w = [type |-> ino.type, nlink |-> ino.nlink, reuse |-> ino.reuse, size |-> s,
           block |-> b, indirect |-> x, entry |-> ino.entry]
  BY <1>2 DEF InodeType
<1> QED BY <1>3, <1>4, <1>5, InodeFields DEF InodeType

LEMMA WriteEffect ==
  ASSUME TreeInv, NEW i \in Inodes, NEW pos \in Nat, NEW size \in Nat, NEW reuse,
         WriteFile(i, pos, size, reuse)
  PROVE  Effect
<1> DEFINE adds == NewBlocks(inode[i], pos, size)
<1>1. \/ Refuse \/ Halt("aborted") \/ Halt("stale") \/ RunDry
      \/ /\ ~WriteRefused(i, pos, size, reuse)
         /\ \E new \in [adds -> free_block_list], ind \in free_block_list \cup {Nil} :
              StoreFile(i, pos, size, new, ind)
  BY DEF WriteFile
<1>2. CASE Refuse
  BY <1>2, RefuseEffect DEF Refuse
<1>3. CASE Halt("aborted") \/ Halt("stale")
  BY <1>3, HaltEffect DEF Stops
<1>4. CASE RunDry
  BY <1>4, RunDryEffect
<1>5. ASSUME ~WriteRefused(i, pos, size, reuse), ~Halt("aborted"),
             NEW new \in [adds -> free_block_list], NEW ind \in free_block_list \cup {Nil},
             StoreFile(i, pos, size, new, ind)
      PROVE  Effect
  <2> DEFINE c == Written(inode[i], pos + size, new, ind)
  <2>1. /\ inode' = [inode EXCEPT ![i] = c]
        /\ UpdateBlocks(Range(new) \cup ({ind} \ {Nil}), {})
        /\ status' \in {"stale", "up"} /\ free_inode_list' = free_inode_list
    BY <1>5 DEF StoreFile
  <2>2. inode[i] \in InodeType /\ free_block_list \in SUBSET Blocks
    BY DEF TreeInv, TypeOK
  <2>3. pos + size \in Nat /\ pos + size <= MaxFileSize /\ inode[i].type = REGULAR
    BY <1>5, Geometry DEF WriteRefused
  <2>4. /\ c \in InodeType /\ c.type = inode[i].type /\ c.nlink = inode[i].nlink
        /\ c.reuse = inode[i].reuse /\ c.entry = inode[i].entry
    <3>1. ind \in Blocks \cup {Nil}
      BY <2>2
    <3>2. new \in [adds -> Blocks] /\ pos + size \in Nat /\ pos + size <= MaxFileSize
      BY <2>2, <2>3
    <3>3. /\ c.type = inode[i].type /\ c.nlink = inode[i].nlink /\ c.reuse = inode[i].reuse
          /\ c.entry = inode[i].entry
      BY <2>2, WrittenFields
    <3> HIDE DEF adds
    <3>4. c \in InodeType
      BY <2>2, <3>1, <3>2, WrittenType
    <3> QED BY <3>3, <3>4
  <2>5. ~IsDirectory(i) /\ inode[i].entry = <<>>
    BY <2>3 DEF IsDirectory, REGULAR, DIRECTORY, TreeInv, Shape
  <2>6. free_block_list' \in SUBSET Blocks /\ fresh' \in BOOLEAN
    BY <2>1, UpdateBlocksType DEF TreeInv
  <2>7. status' \in {"up"} \cup Stops
    BY <2>1 DEF Stops
  <2> HIDE DEF c
  <2> QED BY <2>1, <2>4, <2>5, <2>6, <2>7, FileChanged
<1> QED BY <1>1, <1>2, <1>3, <1>4, <1>5

-----------------------------------------------------------------------------
(* Link.                                                                   *)

LEMMA LinkEffect ==
  ASSUME TreeInv, NEW i \in Inodes, NEW p \in Inodes, NEW n \in Names, Link(i, p, n)
  PROVE  Effect
<1> DEFINE need == BlocksToRegister(inode[p])
<1>0. REGULAR # DIRECTORY /\ REGULAR # FREE /\ DIRECTORY # FREE
  BY DEF REGULAR, DIRECTORY, FREE
<1>1. CASE Refuse
  BY <1>1, RefuseEffect DEF Refuse
<1>2. CASE Halt("overrun")
  BY <1>2, HaltEffect DEF Stops
<1>3. CASE RunDry
  BY <1>3, RunDryEffect
<1>4. ASSUME CanLink(i, p), CanRegister(inode[p]), NEW pops \in Draws(need),
             inode' = WithLink(i, p, n, pops), UpdateBlocks(Range(pops), {}),
             UNCHANGED <<free_inode_list, status>>, Lookup(p, n) = Nil
      PROVE  Effect
  <2>1. /\ inode \in [Inodes -> InodeType] /\ inode[i].type = REGULAR /\ i # p
        /\ WellFormed(inode[p], p) /\ inode[p].type = DIRECTORY
        /\ SearchDirectory(inode[p], n) = Nil
    BY <1>0, <1>4 DEF CanLink, TreeInv, TypeOK, IsDirectory, Shape, Lookup
  <2> DEFINE P == Registered(inode[p], i, n, pops)
             T == [inode[i] EXCEPT !.nlink = @ + 1]
  <2>2. pops \in Seq(Blocks) /\ Len(pops) = BlocksToRegister(inode[p])
    <3>1. need \in Nat
      BY BlocksToRegisterType
    <3>2. pops \in [1 .. need -> Blocks]
      BY DEF Draws, TreeInv, TypeOK
    <3> HIDE DEF need
    <3>3. pops \in Seq(Blocks) /\ Len(pops) = need
      BY <3>1, <3>2, LenProperties
    <3> QED BY <3>3 DEF need
  <2>3. inode' = [inode EXCEPT ![p] = P, ![i] = T]
    BY <1>4, <2>1 DEF WithLink
  <2>4. PICK k \in Nat \ LiveIn(inode[p]) :
          /\ P \in InodeType /\ Len(P.entry) = P.size
          /\ P.type = DIRECTORY /\ P.nlink = inode[p].nlink /\ P.reuse = inode[p].reuse
          /\ LiveIn(P) = LiveIn(inode[p]) \cup {k}
          /\ P.entry[k] = [inum |-> i, name |-> n]
          /\ \A j \in LiveIn(inode[p]) : P.entry[j] = inode[p].entry[j]
          /\ P.size = inode[p].size \/ P.size = k
    <3>1. CanRegister(inode[p]) /\ Len(inode[p].entry) = inode[p].size
      BY <1>4, <2>1 DEF WellFormed
    <3> QED BY <2>1, <2>2, <3>1, RegisteredEntries
  <2>5. /\ T \in InodeType /\ T.type = REGULAR /\ T.entry = inode[i].entry
        /\ T.nlink = inode[i].nlink + 1 /\ T.reuse = inode[i].reuse
    <3>1. inode[i].nlink + 1 \in Int /\ inode[i] \in InodeType
      BY <2>1, InodeFields
    <3> QED BY <2>1, <3>1 DEF InodeType
  <2> HIDE DEF P, T
  <2>6. \A j \in LiveIn(inode[p]) : inode[p].entry[j].name # n
    BY <2>1, SearchResult
  <2>7. WellFormed(P, p)
    BY <2>1, <2>4, <2>6, RegisteredWellFormed
  <2>8. inode'[p] = P /\ inode'[i] = T /\ \A j \in Inodes \ {p, i} : inode'[j] = inode[j]
    BY <2>1, <2>3
  <2>9. TypeOK'
    <3>1. inode' \in [Inodes -> InodeType]
      BY <2>1, <2>3, <2>4, <2>5
    <3> QED BY <1>4, <3>1, UpdateBlocksType DEF TreeInv, TypeOK
  <2>10. Shape'
    BY <1>0, <2>1, <2>4, <2>5, <2>7, <2>8 DEF TreeInv, Shape, IsDirectory
  <2>11. FreeInodesFree'
    BY <1>0, <1>4, <2>1, <2>4, <2>5, <2>8 DEF TreeInv, FreeInodesFree, Used
  <2>12. LinkStep(p, k, n, i)
    <3>1. Gains(p, k, n, i)
      BY <2>1, <2>4, <2>6, <2>8 DEF Gains
    <3>2. \A j \in Inodes \ {p} : Kept(j)
      BY <2>1, <2>5, <2>8 DEF Kept, LiveIn
    <3>3. inode'[i].nlink = inode[i].nlink + 1 /\ SameLinks(Inodes \ {i})
      BY <2>4, <2>5, <2>8 DEF SameLinks
    <3> QED BY <2>1, <3>1, <3>2, <3>3 DEF LinkStep
  <2>13. UsesKept
    BY <2>1, <2>4, <2>5, <2>8 DEF UsesKept
  <2> QED BY <2>9, <2>10, <2>11, <2>12, <2>13 DEF Effect, TreeStep
<1> QED BY <1>1, <1>2, <1>3, <1>4 DEF Link, CreateLink

-----------------------------------------------------------------------------
(* Unlink and RmDir.                                                       *)

\* UnregisterDirectory clears the entry of a file, not "." or "..".
LEMMA NotADot ==
  ASSUME TreeInv, NEW p \in Inodes, IsDirectory(p), NEW i \in Inodes, i # p,
         i # inode[p].entry[2].inum, NEW k \in LiveIn(inode[p]), inode[p].entry[k].inum = i
  PROVE  k \in Named(p)
<1>1. WellFormed(inode[p], p)
  BY DEF TreeInv, Shape
<1>2. inode[p].entry[1].inum = p
  BY <1>1 DEF WellFormed
<1> QED BY <1>2 DEF Named

LEMMA UnlinkEffect ==
  ASSUME TreeInv, NEW p \in Inodes, NEW n \in Names, Unlink(p, n)
  PROVE  Effect
<1>0. REGULAR # DIRECTORY /\ REGULAR # FREE /\ DIRECTORY # FREE
  BY DEF REGULAR, DIRECTORY, FREE
<1> DEFINE i == Lookup(p, n)
<1>1. PICK junk \in BOOLEAN : DeleteLink(i, p, junk)
  BY DEF Unlink
<1>2. i # Nil /\ ~IsDirectory(i) /\ IsDirectory(p) /\ i = SearchDirectory(inode[p], n)
  BY DEF Unlink, Lookup
<1>3. /\ i \in Inodes /\ i # p /\ inode[i].type = REGULAR
      /\ inode \in [Inodes -> InodeType] /\ inode[i] \in InodeType
  <2>1. i \in Used \ {Root, p} /\ inode \in [Inodes -> InodeType]
    BY <1>2, LookupResult DEF TreeInv, TypeOK
  <2>2. i \in Inodes /\ inode[i] \in InodeType /\ inode[i].type # FREE
    BY <2>1 DEF Used
  <2> QED BY <1>2, <2>1, <2>2, InodeFields DEF IsDirectory
<1> HIDE DEF i
<1> DEFINE last == inode[i].nlink = 1
           U == Unregistered(inode[p], i)
           C == Cleaned(U)
           T == Unlinked(inode[i])
<1>4. CASE Refuse
  BY <1>4, RefuseEffect DEF Refuse
<1>5. CASE Halt("aborted")
  BY <1>5, HaltEffect DEF Stops
<1>6. CASE ~Refuse /\ ~Halt("aborted")
  <2>1. /\ EntriesOf(inode[p], i) # {}
        /\ inode' = [inode EXCEPT ![i] = T, ![p] = C]
        /\ free_inode_list' = free_inode_list \cup (IF last THEN {i} ELSE {})
        /\ UpdateBlocks({}, FreedByClean(U, junk) \cup IF last THEN Owned(inode[i]) ELSE {})
        /\ UNCHANGED status
    BY <1>1, <1>3, <1>6 DEF DeleteLink
  <2>2. WellFormed(inode[p], p) /\ inode[p] \in InodeType /\ inode[p].type = DIRECTORY
    BY <1>2, <1>3 DEF TreeInv, Shape, IsDirectory
  <2>3. PICK k \in LiveIn(inode[p]) :
          /\ C \in InodeType /\ Len(C.entry) = C.size
          /\ C.type = inode[p].type /\ C.nlink = inode[p].nlink /\ C.reuse = inode[p].reuse
          /\ C.size = CleanSize(U)
          /\ C.size = 1 \/ C.size \in LiveIn(C)
          /\ inode[p].entry[k].inum = i
          /\ LiveIn(C) = LiveIn(inode[p]) \ {k}
          /\ \A j \in LiveIn(inode[p]) \ {k} : C.entry[j] = inode[p].entry[j]
    <3>1. Len(inode[p].entry) = inode[p].size
      BY <2>2 DEF WellFormed
    <3> QED BY <1>3, <2>1, <2>2, <3>1, RemovedEntries
  <2>4. /\ T \in InodeType /\ T.entry = <<>> /\ T.nlink = inode[i].nlink - 1
        /\ T.type = (IF last THEN FREE ELSE REGULAR) /\ T.reuse = inode[i].reuse
    <3>1. inode[i].entry = <<>> /\ inode[i].nlink - 1 \in Int
      BY <1>0, <1>3, InodeFields DEF TreeInv, Shape, IsDirectory
    <3>2. CASE last
      <4> DEFINE t == Truncated(inode[i])
      <4>1. t \in InodeType /\ t.entry = <<>> /\ t.reuse = inode[i].reuse
        BY <1>3, TruncatedType
      <4> HIDE DEF t
      <4>2. T = [t EXCEPT !.nlink = 0, !.type = FREE]
        BY <3>2 DEF Unlinked, t
      <4> HIDE DEF T
      <4>3. /\ T \in InodeType /\ T.type = FREE /\ T.nlink = 0 /\ T.entry = t.entry
            /\ T.reuse = t.reuse
        BY <4>1, <4>2, FreedType
      <4> QED BY <3>2, <4>1, <4>3
    <3>3. CASE ~last
      <4>1. T = [inode[i] EXCEPT !.nlink = inode[i].nlink - 1]
        BY <3>3 DEF Unlinked
      <4> QED BY <1>3, <3>1, <3>3, <4>1 DEF InodeType
    <3> QED BY <3>2, <3>3
  <2>5. FreedByClean(U, junk) \subseteq Blocks
    <3>1. U \in InodeType
      BY <1>3, <2>1, <2>2, UnregisteredEntries
    <3>2. CleanSize(U) \in Nat
      BY <2>3, InodeFields
    <3> QED BY <1>1, <3>1, <3>2, FreedByCleanOwned, OwnedType
  <2>6. free_block_list' \in SUBSET Blocks /\ fresh' \in BOOLEAN
    <3>1. Owned(inode[i]) \subseteq Blocks
      BY <1>3, OwnedType
    <3> HIDE DEF U
    <3>2. FreedByClean(U, junk) \cup (IF last THEN Owned(inode[i]) ELSE {}) \in SUBSET Blocks
      BY <2>5, <3>1
    <3> QED BY <2>1, <3>2, UpdateBlocksType DEF TreeInv
  <2> HIDE DEF U, C, T
  <2>7. inode'[p] = C /\ inode'[i] = T /\ \A j \in Inodes \ {p, i} : inode'[j] = inode[j]
    BY <1>3, <2>1
  <2>8. k \in Named(p)
    <3>1. i # inode[p].entry[2].inum
      BY <1>0, <1>2, <1>3, <2>2, EntriesInUse DEF WellFormed
    <3> QED BY <1>2, <1>3, <2>3, <3>1, NotADot
  <2>9. WellFormed(C, p)
    BY <2>2, <2>3, <2>8, RemovedWellFormed DEF Named
  <2>10. TypeOK'
    <3>1. inode' \in [Inodes -> InodeType] /\ free_inode_list' \in SUBSET Inodes
      BY <1>3, <2>1, <2>3, <2>4 DEF TreeInv, TypeOK
    <3> QED BY <2>1, <2>6, <3>1 DEF TreeInv, TypeOK
  <2>11. Shape'
    BY <1>0, <1>3, <2>2, <2>3, <2>4, <2>7, <2>9 DEF TreeInv, Shape, IsDirectory
  <2>12. FreeInodesFree'
    <3>1. \A j \in Inodes : inode'[j].type # FREE => inode[j].type # FREE /\ (j = i => ~last)
      BY <1>0, <1>3, <2>2, <2>4, <2>7
    <3> QED BY <2>1, <3>1 DEF TreeInv, FreeInodesFree, Used
  <2>13. UnlinkStep(p, k, i)
    <3>1. Loses(p, k, i)
      BY <2>2, <2>3, <2>7, <2>8 DEF Loses, Named
    <3>2. \A j \in Inodes \ {p, i} : Kept(j)
      BY <2>7 DEF Kept
    <3>3. inode'[i].nlink = inode[i].nlink - 1 /\ SameLinks(Inodes \ {i})
      BY <2>3, <2>4, <2>7 DEF SameLinks
    <3> QED BY <1>3, <2>4, <2>7, <3>1, <3>2, <3>3 DEF UnlinkStep
  <2>14. k \in Nat
    BY <1>3, <2>2, LiveFacts DEF TreeInv, Shape, IsDirectory
  <2>15. UsesKept
    BY <1>3, <2>2, <2>3, <2>4, <2>7 DEF UsesKept
  <2> QED BY <1>3, <2>10, <2>11, <2>12, <2>13, <2>14, <2>15 DEF Effect, TreeStep
<1> QED BY <1>4, <1>5, <1>6

LEMMA RmDirEffect ==
  ASSUME TreeInv, NEW p \in Inodes, NEW n \in Names, RmDir(p, n)
  PROVE  Effect
<1>0. REGULAR # DIRECTORY /\ REGULAR # FREE /\ DIRECTORY # FREE
  BY DEF REGULAR, DIRECTORY, FREE
<1> DEFINE i == Lookup(p, n)
<1>1. PICK junk \in BOOLEAN : DeleteDir(i, p, junk)
  BY DEF RmDir
<1>2. i # Nil /\ IsDirectory(p) /\ i = SearchDirectory(inode[p], n)
  BY DEF RmDir, Lookup
<1> HIDE DEF i
<1>3. CASE Refuse
  BY <1>3, RefuseEffect DEF Refuse
<1>4. CASE Halt("aborted") \/ Halt("stale")
  BY <1>4, HaltEffect DEF Stops
<1>5. CASE ~Refuse /\ ~Halt("aborted") /\ ~Halt("stale")
  <2> DEFINE U == Unregistered(inode[p], i)
             C == Cleaned(U)
             P == [C EXCEPT !.nlink = @ - 1]
             T == [inode[i] EXCEPT !.type = FREE, !.size = 0, !.nlink = 0, !.entry = <<>>]
  <2>1. /\ i # Root /\ IsDirectory(i) /\ inode[i].size = 2 /\ EntriesOf(inode[p], i) # {}
        /\ inode' = WithoutDir(i, p)
        /\ UpdateBlocks({}, FreedByClean(U, junk))
        /\ UNCHANGED <<free_inode_list, status>>
    BY <1>1, <1>5 DEF DeleteDir
  <2>2. /\ inode \in [Inodes -> InodeType] /\ i \in Inodes /\ i # p
        /\ inode[i].type = DIRECTORY /\ inode[p].type = DIRECTORY
        /\ WellFormed(inode[i], i) /\ WellFormed(inode[p], p)
    BY <1>2, <2>1, LookupResult DEF TreeInv, TypeOK, Shape, Used, IsDirectory
  <2>3. LiveIn(inode[i]) = {1, 2} /\ Named(i) = {}
    <3>1. Len(inode[i].entry) = 2 /\ {1, 2} \subseteq LiveIn(inode[i])
      BY <2>1, <2>2 DEF WellFormed
    <3> QED BY <3>1 DEF LiveIn, Named
  <2>4. inode[i].entry[2].inum = p
    <3>1. PICK k \in Named(p) : inode[p].entry[k].inum = i
      BY <1>2, LookupResult
    <3> QED BY <1>2, <2>1, <3>1 DEF TreeInv, Children_OK
  <2>5. Above(i) = {p}
    <3>1. inode[i].entry[1].name = Dot /\ inode[i].entry[2].name = DotDot /\ Dot # DotDot
      BY <2>2, NamesAssumption DEF WellFormed
    <3> QED BY <2>4, <3>1 DEF Above
  <2>6. PICK k \in LiveIn(inode[p]) :
          /\ C \in InodeType /\ Len(C.entry) = C.size
          /\ C.type = inode[p].type /\ C.nlink = inode[p].nlink /\ C.reuse = inode[p].reuse
          /\ C.size = CleanSize(U)
          /\ C.size = 1 \/ C.size \in LiveIn(C)
          /\ inode[p].entry[k].inum = i
          /\ LiveIn(C) = LiveIn(inode[p]) \ {k}
          /\ \A j \in LiveIn(inode[p]) \ {k} : C.entry[j] = inode[p].entry[j]
    <3>1. Len(inode[p].entry) = inode[p].size /\ inode[p] \in InodeType
      BY <2>2 DEF WellFormed
    <3> QED BY <2>1, <2>2, <3>1, RemovedEntries
  <2>7. FreedByClean(U, junk) \in SUBSET Blocks
    <3>1. U \in InodeType
      BY <2>1, <2>2, UnregisteredEntries
    <3>2. CleanSize(U) \in Nat
      BY <2>6, InodeFields
    <3> QED BY <1>1, <3>1, <3>2, FreedByCleanOwned, OwnedType
  <2>8. free_block_list' \in SUBSET Blocks /\ fresh' \in BOOLEAN
    <3> HIDE DEF U
    <3> QED BY <2>1, <2>7, UpdateBlocksType DEF TreeInv
  <2> HIDE DEF U
  <2>9. /\ inode' \in [Inodes -> {inode'[j] : j \in Inodes}]
        /\ inode'[p] = P /\ inode'[i] = T
        /\ \A j \in Inodes \ {p, i} : inode'[j] = inode[j]
    <3> DEFINE gone == [inode EXCEPT ![i] = T, ![p] = C]
    <3>1. inode' = [j \in Inodes |-> IF j \in Above(i) THEN [gone[j] EXCEPT !.nlink = @ - 1] ELSE gone[j]]
      BY <2>1 DEF WithoutDir, U
    <3>2. gone[p] = C /\ gone[i] = T /\ \A j \in Inodes \ {p, i} : gone[j] = inode[j]
      BY <2>2
    <3> HIDE DEF gone, C, T
    <3> QED BY <2>2, <2>5, <3>1, <3>2
  <2>10. /\ P \in InodeType /\ P.type = C.type /\ P.entry = C.entry /\ P.size = C.size
         /\ P.nlink = C.nlink - 1 /\ P.reuse = C.reuse
    <3> HIDE DEF C
    <3>1. C.nlink - 1 \in Int
      BY <2>6, InodeFields
    <3> QED BY <2>6, <3>1 DEF InodeType
  <2>11. T \in InodeType /\ T.type = FREE /\ T.entry = <<>> /\ T.reuse = inode[i].reuse
    <3>1. inode[i] \in InodeType
      BY <2>2
    <3> QED BY <3>1, VacatedType
  <2> HIDE DEF C, P, T
  <2>12. k \in Named(p)
    <3>1. i # inode[p].entry[2].inum
      BY <1>2, <2>1, <2>2, <2>3 DEF TreeInv, Parents_OK
    <3> QED BY <1>2, <2>2, <2>6, <3>1, NotADot
  <2>13. WellFormed(P, p)
    <3>1. WellFormed(C, p)
      BY <2>2, <2>6, <2>12, RemovedWellFormed DEF Named
    <3> QED BY <2>10, <3>1 DEF WellFormed, LiveIn
  <2>14. TypeOK'
    <3>1. inode' \in [Inodes -> InodeType]
      BY <2>2, <2>9, <2>10, <2>11
    <3> QED BY <2>1, <2>8, <3>1 DEF TreeInv, TypeOK
  <2>15. Shape'
    BY <1>0, <2>2, <2>6, <2>9, <2>10, <2>11, <2>13 DEF TreeInv, Shape, IsDirectory
  <2>16. FreeInodesFree'
    <3>1. \A j \in Inodes : inode'[j].type # FREE => inode[j].type # FREE
      BY <1>0, <2>2, <2>9, <2>11
    <3> QED BY <2>1, <3>1 DEF TreeInv, FreeInodesFree, Used
  <2>17. RmDirStep(p, k, i)
    <3>1. Loses(p, k, i)
      BY <2>2, <2>6, <2>9, <2>10, <2>12 DEF Loses, Named, LiveIn
    <3>2. \A j \in Inodes \ {p, i} : Kept(j)
      BY <2>9 DEF Kept
    <3>3. inode'[p].nlink = inode[p].nlink - 1 /\ SameLinks(Inodes \ {p, i})
      BY <2>6, <2>9, <2>10 DEF SameLinks
    <3> QED BY <2>1, <2>2, <2>3, <2>9, <2>11, <3>1, <3>2, <3>3 DEF RmDirStep
  <2>18. k \in Nat
    BY <2>2, LiveFacts DEF TreeInv, Shape, IsDirectory
  <2>19. UsesKept
    BY <2>2, <2>6, <2>9, <2>10, <2>11 DEF UsesKept
  <2> QED BY <2>2, <2>14, <2>15, <2>16, <2>17, <2>18, <2>19 DEF Effect, TreeStep
<1> QED BY <1>3, <1>4, <1>5

-----------------------------------------------------------------------------
(* The theorems.                                                           *)

LEMMA NextEffect ==
  ASSUME TreeInv, [Next]_vars
  PROVE  Effect
<1>1. CASE UNCHANGED vars
  BY <1>1, RefuseEffect
<1>2. CASE Directories
  <2>1. PICK p \in Inodes, n \in Names :
          Create(p, n) \/ MkDir(p, n) \/ RmDir(p, n) \/ Unlink(p, n) \/ \E i \in Inodes : Link(i, p, n)
    BY <1>2 DEF Directories
  <2> QED BY <2>1, CreateEffect, MkDirEffect, RmDirEffect, UnlinkEffect, LinkEffect
<1>3. CASE Files
  <2>1. PICK i \in Inodes, pos \in Positions, size \in Lengths :
          \E r \in 1 .. inode[i].reuse : Read(i, r, pos, size) \/ Write(i, r, pos, size)
    BY <1>3 DEF Files
  <2>2. pos \in Nat /\ size \in Nat
    BY BoundsAssumption
  <2> QED BY <2>1, <2>2, ReadEffect, WriteEffect DEF Read, Write
<1> QED BY <1>1, <1>2, <1>3 DEF Next

\* mkyfs leaves a disk that satisfies the invariant.
LEMMA InitTree ==
  ASSUME Init
  PROVE  TreeInv
<1>0. DIRECTORY # FREE
  BY DEF DIRECTORY, FREE
<1>1. PICK b \in Blocks :
        /\ inode = [i \in Inodes |->
             IF i = Root THEN [CreatedDirectory(FreeInode, Root, Root, b) EXCEPT !.nlink = 2]
             ELSE FreeInode]
        /\ free_block_list = Blocks \ {b}
  BY DEF Init
<1> DEFINE R == [CreatedDirectory(FreeInode, Root, Root, b) EXCEPT !.nlink = 2]
<1>2. FreeInode \in InodeType /\ FreeInode.type = FREE /\ FreeInode.entry = <<>>
  BY FreeInodeType
<1>3. /\ R \in InodeType /\ WellFormed(R, Root) /\ LiveIn(R) = {1, 2} /\ R.type = DIRECTORY
      /\ R.nlink = 2 /\ R.entry[1].inum = Root /\ R.entry[2].inum = Root
  <2> DEFINE c == CreatedDirectory(FreeInode, Root, Root, b)
  <2>1. /\ c \in InodeType /\ WellFormed(c, Root) /\ LiveIn(c) = {1, 2} /\ c.type = DIRECTORY
        /\ c.entry[2].inum = Root
    BY <1>2, RootAssumption, CreatedWellFormed
  <2> HIDE DEF c
  <2>2. R = [c EXCEPT !.nlink = 2]
    BY DEF c
  <2> HIDE DEF R
  <2>3. /\ R \in InodeType /\ R.type = DIRECTORY /\ R.nlink = 2 /\ R.entry = c.entry
        /\ R.size = c.size
    BY <2>1, <2>2 DEF InodeType
  <2>4. WellFormed(R, Root) /\ LiveIn(R) = {1, 2}
    BY <2>1, <2>3 DEF WellFormed, LiveIn
  <2>5. R.entry[1].inum = Root
    BY <2>4 DEF WellFormed
  <2> QED BY <2>1, <2>3, <2>4, <2>5
<1> HIDE DEF R
<1>4. inode[Root] = R /\ \A i \in Inodes \ {Root} : inode[i] = FreeInode
  BY <1>1, RootAssumption DEF R
<1>5. inode \in [Inodes -> InodeType]
  BY <1>1, <1>2, <1>3 DEF R
<1>6. TypeOK
  BY <1>1, <1>5 DEF Init, TypeOK
<1>7. Shape
  BY <1>0, <1>2, <1>3, <1>4 DEF Shape, IsDirectory
<1>8. Used = {Root} /\ \A i \in Inodes : IsDirectory(i) => i = Root
  BY <1>0, <1>2, <1>3, <1>4, RootAssumption DEF Used, IsDirectory
<1>9. Named(Root) = {}
  BY <1>3, <1>4 DEF Named
<1>10. Children_OK
  BY <1>8, <1>9 DEF Children_OK
<1>11. Parents_OK
  BY <1>3, <1>4, <1>8 DEF Parents_OK, IsDirectory
<1>12. Reached
  BY <1>8 DEF Reached
<1>13. Counted
  <2>1. ASSUME NEW i \in Inodes PROVE Links(i) = LivePairs(inode, i)
    <3>1. LinksIn(inode, i) = LivePairs(inode, i)
      BY <1>5, <1>7, LinkPairs DEF Shape, IsDirectory
    <3> QED BY <3>1 DEF Links, LinksIn, Used
  <2>2. LivePairs(inode, Root) = {<<Root, 1>>, <<Root, 2>>}
    <3>1. ASSUME NEW l \in LivePairs(inode, Root) PROVE l \in {<<Root, 1>>, <<Root, 2>>}
      <4>1. l = <<l[1], l[2]>> /\ l[1] \in Inodes /\ l[2] \in LiveIn(inode[l[1]])
            /\ inode[l[1]].type = DIRECTORY
        BY DEF LivePairs
      <4> QED BY <1>3, <1>4, <1>8, <4>1 DEF IsDirectory
    <3>2. <<Root, 1>> \in LivePairs(inode, Root) /\ <<Root, 2>> \in LivePairs(inode, Root)
      BY <1>3, <1>4, RootAssumption DEF LivePairs
    <3> QED BY <3>1, <3>2
  <2>3. ASSUME NEW i \in Inodes \ {Root} PROVE LivePairs(inode, i) = {}
    BY <1>3, <1>4, <1>8 DEF LivePairs, IsDirectory
  <2>4. IsFiniteSet({<<Root, 1>>, <<Root, 2>>}) /\ Cardinality({<<Root, 1>>, <<Root, 2>>}) = 2
    <3>1. <<Root, 1>> # <<Root, 2>>
      OBVIOUS
    <3>2. {<<Root, 1>>, <<Root, 2>>} = {<<Root, 1>>} \cup {<<Root, 2>>} /\ <<Root, 2>> \notin {<<Root, 1>>}
      BY <3>1
    <3> DEFINE S == {<<Root, 1>>}
               x == <<Root, 2>>
    <3>3. IsFiniteSet(S) /\ Cardinality(S) = 1
      BY FS_Singleton
    <3>4. x \notin S /\ {<<Root, 1>>, <<Root, 2>>} = S \cup {x}
      BY <3>2
    <3> HIDE DEF S, x
    <3>5. IsFiniteSet(S \cup {x}) /\ Cardinality(S \cup {x}) = 2
      BY <3>3, <3>4, FS_AddElement
    <3> QED BY <3>4, <3>5
  <2>5. IsFiniteSet({}) /\ Cardinality({}) = 0
    BY FS_EmptySet
  <2> QED BY <1>3, <1>4, <1>8, <2>1, <2>2, <2>3, <2>4, <2>5, RootAssumption DEF Counted
<1>14. FreeInodesFree
  BY <1>8 DEF Init, FreeInodesFree
<1> QED BY <1>6, <1>7, <1>10, <1>11, <1>12, <1>13, <1>14 DEF TreeInv

\* The invariant is inductive.
LEMMA NextTree ==
  ASSUME TreeInv, [Next]_vars
  PROVE  TreeInv'
BY NextEffect, TreeStepPreserves DEF Effect

\* What every handler of yfs.c:595-1177 keeps: directories well formed, each
\* named once with a ".." that agrees, all reached from the root, all links
\* counted.
THEOREM TreeInvariant == Spec => []TreeInv
<1>1. Init => TreeInv
  BY InitTree
<1>2. TreeInv /\ [Next]_vars => TreeInv'
  BY NextTree
<1> QED BY <1>1, <1>2, PTL DEF Spec

\* Every variable keeps its type.
THEOREM Typing == Spec => []TypeOK
<1>1. TreeInv => TypeOK
  BY DEF TreeInv
<1> QED BY <1>1, TreeInvariant, PTL

\* nlink counts the entries that name an inode, after any sequence of calls:
\* DeleteLink (yfs.c:1163) frees an inode exactly when its last name goes.
THEOREM LinkCountsCorrect == Spec => []LinkCounts
<1>1. TreeInv => LinkCounts
  BY DEF TreeInv, Counted, LinkCounts, Used
<1> QED BY <1>1, TreeInvariant, PTL

\* The list of free inodes, from which CreateFile takes one (yfs.c:637), never
\* holds an inode in use.
THEOREM FreeInodesAreFree == Spec => []FreeInodesFree
<1>1. TreeInv => FreeInodesFree
  BY DEF TreeInv
<1> QED BY <1>1, TreeInvariant, PTL

\* Two directories are not each in the other.
LEMMA NoCycle ==
  ASSUME TreeInv, NEW d \in Inodes, IsDirectory(d), NEW k \in Named(d), NEW c,
         c = inode[d].entry[k].inum, IsDirectory(c)
  PROVE  inode[d].entry[2].inum # c
<1> SUFFICES ASSUME inode[d].entry[2].inum = c PROVE FALSE
  OBVIOUS
<1>1. c \in Used \ {Root, d} /\ inode[c].entry[2].inum = d
  <2>1. Children_OK
    BY DEF TreeInv
  <2> QED BY <2>1, ChildFacts DEF IsDirectory
<1>2. d # Root /\ d \in Used /\ Root \in Used
  BY <1>1, RootAssumption DEF TreeInv, Parents_OK, IsDirectory, Used, DIRECTORY, FREE
<1> DEFINE S == Used \ {c, d}
<1>3. ASSUME NEW e \in S, IsDirectory(e), NEW m \in Named(e)
      PROVE  inode[e].entry[m].inum \in S
  <2> DEFINE x == inode[e].entry[m].inum
  <2>1. e \in Inodes /\ e \notin {c, d}
    BY DEF Used
  <2>2. x \in Used /\ (IsDirectory(x) => inode[x].entry[2].inum = e)
    BY <1>3, <2>1 DEF TreeInv, Children_OK
  <2> HIDE DEF x
  <2>3. x # c /\ x # d
    BY <1>1, <2>1, <2>2
  <2> QED BY <2>2, <2>3 DEF x
<1>4. S = Used
  BY <1>1, <1>2, <1>3 DEF TreeInv, Reached
<1> QED BY <1>2, <1>4

LEMMA TreeOfInvariant ==
  ASSUME TreeInv
  PROVE  Tree
<1>1. \A d \in Used : d \in Inodes /\ Live(d) = LiveIn(inode[d])
  BY DEF Used, Live, LiveIn
<1>2. ASSUME NEW d \in Used, IsDirectory(d)
      PROVE  WellFormed(inode[d], d) /\ inode[d] \in InodeType
  BY <1>1, <1>2 DEF TreeInv, Shape, TypeOK
<1>3. ASSUME NEW d \in Used, IsDirectory(d)
      PROVE  /\ Len(inode[d].entry) = inode[d].size /\ {1, 2} \subseteq Live(d)
             /\ inode[d].entry[1] = [inum |-> d, name |-> Dot]
             /\ inode[d].entry[2].name = DotDot
             /\ \A j, k \in Live(d) : inode[d].entry[j].name = inode[d].entry[k].name => j = k
  BY <1>1, <1>2, <1>3 DEF WellFormed
<1>4. ASSUME NEW d \in Used, IsDirectory(d), NEW c \in Children(d)
      PROVE  /\ c \in Used
             /\ IsDirectory(c) =>
                  /\ inode[c].entry[2].inum = d
                  /\ Cardinality({ k \in Live(d) : inode[d].entry[k].inum = c }) = 1
  <2>1. PICK m \in Named(d) : c = inode[d].entry[m].inum
    BY <1>1 DEF Children, Named
  <2>2. /\ d \in Inodes /\ c \in Used \ {Root, d}
        /\ IsDirectory(c) =>
             /\ inode[c].entry[2].inum = d
             /\ \A j \in Named(d) : inode[d].entry[j].inum = c => j = m
    BY <1>1, <1>4, <2>1 DEF TreeInv, Children_OK
  <2>3. ASSUME IsDirectory(c)
        PROVE  Cardinality({ k \in Live(d) : inode[d].entry[k].inum = c }) = 1
    <3>0. inode[d].entry[1].inum = d
      <4>1. WellFormed(inode[d], d)
        BY <1>2, <1>4
      <4> QED BY <4>1 DEF WellFormed
    <3>1. inode[d].entry[2].inum # c
      BY <1>4, <2>1, <2>2, <2>3, NoCycle
    <3>2. { k \in Live(d) : inode[d].entry[k].inum = c } = {m}
      BY <1>1, <2>1, <2>2, <2>3, <3>0, <3>1 DEF Named
    <3> QED BY <3>2, FS_Singleton
  <2> QED BY <2>2, <2>3
<1>5. ASSUME NEW S \in SUBSET Used, Root \in S,
             \A d \in S : IsDirectory(d) => Children(d) \subseteq S
      PROVE  S = Used
  <2>1. ASSUME NEW d \in S, IsDirectory(d), NEW k \in Named(d)
        PROVE  inode[d].entry[k].inum \in S
    <3>1. inode[d].entry[k].inum \in Children(d)
      BY <1>1 DEF Children, Named
    <3> QED BY <1>5, <2>1, <3>1
  <2> QED BY <1>5, <2>1 DEF TreeInv, Reached
<1>6. \A d \in Used : IsDirectory(d) =>
        /\ Len(inode[d].entry) = inode[d].size /\ {1, 2} \subseteq Live(d)
        /\ inode[d].entry[1] = [inum |-> d, name |-> Dot]
        /\ inode[d].entry[2].name = DotDot
  BY <1>3
<1>7. \A d \in Used : IsDirectory(d) =>
        /\ \A j, k \in Live(d) : inode[d].entry[j].name = inode[d].entry[k].name => j = k
        /\ \A c \in Children(d) : c \in Used
        /\ \A c \in Children(d) : IsDirectory(c) =>
             /\ inode[c].entry[2].inum = d
             /\ Cardinality({ k \in Live(d) : inode[d].entry[k].inum = c }) = 1
  <2>1. ASSUME NEW d \in Used, IsDirectory(d)
        PROVE  \A j, k \in Live(d) : inode[d].entry[j].name = inode[d].entry[k].name => j = k
    BY <1>3, <2>1
  <2> QED BY <1>4, <2>1
<1>8. \A S \in SUBSET Used :
        Root \in S /\ (\A d \in S : IsDirectory(d) => Children(d) \subseteq S) => S = Used
  BY <1>5
<1> QED BY <1>6, <1>7, <1>8 DEF Tree

\* The directories form a tree, whatever handlers entered, cleared, reused and
\* dropped entries of them.
THEOREM TreeCorrect == Spec => []Tree
<1>1. TreeInv => Tree
  BY TreeOfInvariant
<1> QED BY <1>1, TreeInvariant, PTL

\* DeleteDir's test for an empty directory, size > 2 (yfs.c:1027), is right.
THEOREM EmptyTestCorrect == Spec => []EmptyIsSmall
<1>1. ASSUME TreeInv PROVE EmptyIsSmall
  <2>1. ASSUME NEW d \in Used, IsDirectory(d)
        PROVE  inode[d].size > 2 <=> Children(d) # {}
    <3>1. /\ d \in Inodes /\ inode[d] \in InodeType /\ WellFormed(inode[d], d)
          /\ Live(d) = LiveIn(inode[d])
      BY <1>1, <2>1 DEF TreeInv, TypeOK, Shape, Used, Live, LiveIn
    <3>2. inode[d].size \in Nat /\ Len(inode[d].entry) = inode[d].size
      BY <3>1, InodeFields DEF WellFormed
    <3>3. inode[d].size > 2 => inode[d].size \in Live(d) \ {1, 2}
      BY <3>1, <3>2 DEF WellFormed
    <3>4. \A k \in Live(d) \ {1, 2} : k \in Nat /\ k > 2 /\ k <= inode[d].size
      BY <3>2 DEF Live
    <3>5. Children(d) # {} <=> Live(d) \ {1, 2} # {}
      BY DEF Children
    <3> QED BY <3>2, <3>3, <3>4, <3>5
  <2> QED BY <2>1 DEF EmptyIsSmall
<1> QED BY <1>1, TreeInvariant, PTL

\* An inode number and a reuse count name one file for ever: what ReadFile and
\* WriteFile test (yfs.c:695, 821) tells a descriptor from a later file.
THEOREM IncarnationsDistinct == Spec => Incarnations
<1>1. ASSUME TreeInv, [Next]_vars
      PROVE  [\A i \in Inodes :
                \/ inode'[i].reuse = inode[i].reuse /\ inode'[i].type \in {inode[i].type, FREE}
                \/ inode'[i].reuse = inode[i].reuse + 1 /\ inode[i].type = FREE]_vars
  BY <1>1, NextEffect DEF Effect, UsesKept, Incarnated
<1> QED BY <1>1, TreeInvariant, PTL DEF Spec, Incarnations
=============================================================================
