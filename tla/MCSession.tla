----------------------------- MODULE MCSession ------------------------------
(***************************************************************************)
(* A small instance of Session: file f is in two versions, g in another,   *)
(* and o is listed but on the deletion list as well.  The card and the     *)
(* servers have little to do with each other: with more than one server    *)
(* the list of files is empty.                                             *)
(***************************************************************************)
EXTENDS Session
CONSTANTS f, g, o
MCEntries ==
  <<[version |-> 1, file |-> f], [version |-> 2, file |-> o],
    [version |-> 3, file |-> g], [version |-> 4, file |-> f]>>
CardOrServers == fs.servers > 1 => released = 0
=============================================================================
