----------------------------- MODULE Namespace ------------------------------
(***************************************************************************)
(* What the file server promises about names, without inodes, entries,     *)
(* link counts or blocks: a tree of directories.  Every step enters or     *)
(* removes one name.  A file exists as long as it has a name; a directory  *)
(* is removed only when it is empty.                                       *)
(***************************************************************************)
EXTENDS FiniteSets

CONSTANTS Inodes  \* files and directories
        , Names   \* what they can be called
        , Root

VARIABLES kind  \* "directory", "file" or "none" of each inode
        , tree  \* the entries: <<directory, name, what it stands for>>

nvars == <<kind, tree>>

EntryOf(d, n) == { e \in tree : e[1] = d /\ e[2] = n }

NamesOf(i) == { e \in tree : e[3] = i }

Init == kind = [i \in Inodes |-> IF i = Root THEN "directory" ELSE "none"] /\ tree = {}

\* A new file, or directory, under a name that is not in use.
Make(d, n, i, as) ==
  /\ kind[d] = "directory" /\ EntryOf(d, n) = {} /\ kind[i] = "none"
  /\ kind' = [kind EXCEPT ![i] = as]
  /\ tree' = tree \cup {<<d, n, i>>}

\* A further name for a file.
MakeLink(d, n, i) ==
  /\ kind[d] = "directory" /\ EntryOf(d, n) = {} /\ kind[i] = "file"
  /\ tree' = tree \cup {<<d, n, i>>}
  /\ UNCHANGED kind

\* A file loses a name, and with the last one it is gone.
RemoveName(e) ==
  /\ kind[e[3]] = "file"
  /\ tree' = tree \ {e}
  /\ kind' = IF NamesOf(e[3]) = {e} THEN [kind EXCEPT ![e[3]] = "none"] ELSE kind

RemoveDirectory(e) ==
  /\ kind[e[3]] = "directory" /\ ~\E f \in tree : f[1] = e[3]
  /\ tree' = tree \ {e}
  /\ kind' = [kind EXCEPT ![e[3]] = "none"]

Next ==
  \/ \E d, i \in Inodes, n \in Names :
       Make(d, n, i, "file") \/ Make(d, n, i, "directory") \/ MakeLink(d, n, i)
  \/ \E e \in tree : RemoveName(e) \/ RemoveDirectory(e)

Spec == Init /\ [][Next]_nvars
=============================================================================
