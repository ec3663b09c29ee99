----------------------------- MODULE MCDIPFiles -----------------------------
(***************************************************************************)
(* Small instances of DIPFiles: one file more than there are places, so    *)
(* that files are evicted, and three places, so that an entry is unlinked  *)
(* from the middle of a list.                                              *)
(***************************************************************************)
EXTENDS DIPFiles
CONSTANTS f1, f2, f3, f4
Symmetry == Permutations(Files \ {NullFile})
=============================================================================
