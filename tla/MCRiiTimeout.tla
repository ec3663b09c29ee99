---------------------------- MODULE MCRiiTimeout ----------------------------
(* A small instance of RiiTimeout. *)
EXTENDS RiiTimeout
CONSTANTS c1, c2
=============================================================================
