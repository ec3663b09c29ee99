----------------------------- MODULE MCFilePool -----------------------------
(***************************************************************************)
(* A small instance of FilePool.  Ages grow for ever: those past the       *)
(* timeout are alike, so the states after MaxAge are not explored.         *)
(***************************************************************************)
EXTENDS FilePool
CONSTANTS f1, f2, f3, f4, MaxAge
AgesBounded == \A i \in DOMAIN open : open[i].age <= MaxAge
=============================================================================
