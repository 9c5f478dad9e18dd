-------------------------------- MODULE Path --------------------------------
(***************************************************************************)
(* ParsePath of path.c: the components that a pathname stands for.  A      *)
(* pathname is a sequence of characters, and so is a name; the three       *)
(* characters that matter to the parser are the slash, the dot, and any    *)
(* other.                                                                  *)
(***************************************************************************)
EXTENDS Integers, Sequences, FiniteSets

CONSTANTS Slash, Period  \* the characters '/' and '.'
        , Letters        \* the other characters
        , NameLength     \* DIRNAMELEN
        , PathLength     \* bound: the longest pathname that is compared

ASSUME LengthsAssumption == NameLength \in Nat /\ PathLength \in Nat

Characters == {Slash, Period} \cup Letters

RootName == <<Slash>>
DotName  == <<Period>>

\* SetDirectoryName: the characters from start up to end, as many as fit.
SetDirectoryName(path, start, end) ==
  SubSeq(path, start, IF end - start > NameLength THEN start + NameLength - 1 ELSE end - 1)

\* The loop has read the characters before the k-th one: found says that the
\* last of them was a slash, start is where the component it is in begins.
ParseCharacter(path, state, k) ==
  IF ~state.found /\ path[k] = Slash
  THEN [state EXCEPT !.components = Append(@, SetDirectoryName(path, state.start, k)),
                     !.found = TRUE]
  ELSE IF state.found /\ path[k] # Slash
       THEN [state EXCEPT !.found = FALSE, !.start = k]
       ELSE state

\* The loop over a pathname.  A slash in front is a component of its own.
ParseCharacters(path) ==
  LET rooted == path # <<>> /\ path[1] = Slash
      first  == IF rooted THEN [components |-> <<RootName>>, found |-> TRUE, start |-> 2]
                ELSE [components |-> <<>>, found |-> FALSE, start |-> 1]
      after[k \in 0 .. Len(path)] ==
        IF k = 0 THEN first ELSE ParseCharacter(path, after[k - 1], k)
  IN after[Len(path)]

\* Mutant of ParsePath: nothing stands for the slash at the end.
ParsePath_NoDot(path) ==
  LET last == ParseCharacters(path)
  IN IF last.found THEN last.components
     ELSE Append(last.components, SetDirectoryName(path, last.start, Len(path) + 1))

\* After a slash at the end the last component is ".".
ParsePath(path) ==
  LET last == ParseCharacters(path)
  IN Append(last.components,
            IF last.found THEN DotName ELSE SetDirectoryName(path, last.start, Len(path) + 1))

(***************************************************************************)
(* The reference: a name for each longest run of characters without a      *)
(* slash, whatever number of slashes separates them, and "." after a slash *)
(* at the end (path.c:8-37).                                               *)
(***************************************************************************)
RunsOf(path) ==
  { r \in (1 .. Len(path)) \X (1 .. Len(path)) :
      /\ r[1] <= r[2] /\ \A k \in r[1] .. r[2] : path[k] # Slash
      /\ r[1] = 1 \/ path[r[1] - 1] = Slash
      /\ r[2] = Len(path) \/ path[r[2] + 1] = Slash }

\* As many characters of run r as fit.
NameOf(path, r) ==
  SubSeq(path, r[1], IF r[2] - r[1] < NameLength THEN r[2] ELSE r[1] + NameLength - 1)

\* The place of run r among the runs of its pathname.
Place(runs, r) == Cardinality({ s \in runs : s[1] < r[1] }) + 1

NamesIn(path) ==
  LET runs == RunsOf(path)
  IN [n \in 1 .. Cardinality(runs) |-> NameOf(path, CHOOSE r \in runs : Place(runs, r) = n)]
     \o (IF path[Len(path)] = Slash THEN <<DotName>> ELSE <<>>)

Pathnames == UNION { [1 .. n -> Characters] : n \in 1 .. PathLength }
=============================================================================
