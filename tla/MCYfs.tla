------------------------------- MODULE MCYfs -------------------------------
(***************************************************************************)
(* YfsServer for TLC.  The names of files, the data blocks and the inodes  *)
(* other than the root are interchangeable: no operation orders them.      *)
(* BlockSymmetry serves where the names are too many to permute.           *)
(***************************************************************************)
EXTENDS YfsServer, TLC

BlockSymmetry == Permutations(Blocks)

Symmetry == BlockSymmetry \cup Permutations(Inodes \ {Root}) \cup Permutations(Names)
=============================================================================
