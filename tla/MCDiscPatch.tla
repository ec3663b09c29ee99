---------------------------- MODULE MCDiscPatch ----------------------------
(***************************************************************************)
(* Small instances of DiscPatch: a disc with files x and y next to each    *)
(* other and a name z that is free, external files g and h, and missing,   *)
(* which is not there.                                                     *)
(***************************************************************************)
EXTENDS DiscPatch

CONSTANTS x, y, z, g, h, missing, sd, usb

MCDisc == x :> [offset |-> 2, size |-> 3] @@ y :> [offset |-> 6, size |-> 3]
MCFileSize == g :> 1 @@ h :> 4 @@ missing :> 0
TwoFileSystems == [f \in Files |-> IF f = h THEN usb ELSE sd]

Element == [kind |-> "file", disc |-> x, external |-> g, offset |-> 0, fileoffset |-> 0,
            length |-> 0, resize |-> TRUE, create |-> FALSE, stat |-> FALSE]
ShiftElement(n, s) == [kind |-> "shift", disc |-> n, source |-> s]

(* Elements that replace files, from their start or from within; those that
   leave the size of the file alone fit it, and one does not begin at a word. *)
ResizeElements ==
  {[Element EXCEPT !.external = h, !.offset = o] : o \in {0, 2}}
  \union {[Element EXCEPT !.offset = 2], [Element EXCEPT !.disc = y, !.external = h]}
InPlaceElements ==
  {[Element EXCEPT !.resize = FALSE, !.offset = o] : o \in {1, 2}}
  \union {[Element EXCEPT !.resize = FALSE, !.disc = y]}
PartElement == [Element EXCEPT !.external = h, !.length = 3]
CreateElements ==
  {[Element EXCEPT !.disc = z, !.external = f, !.create = c, !.length = l] :
     f \in {h, missing}, c \in BOOLEAN, l \in {0, 2}}
FolderElements ==
  {[Element EXCEPT !.disc = n, !.external = h, !.create = TRUE, !.length = 2, !.stat = TRUE] :
     n \in {x, z}}
(* A file that is created for nothing, and one that moves to where it lies. *)
EmptyElements ==
  {[Element EXCEPT !.disc = z, !.external = missing, !.create = TRUE],
   [Element EXCEPT !.external = missing, !.length = 2],
   [Element EXCEPT !.disc = y, !.external = h]}
WholeElements == {[Element EXCEPT !.external = f] : f \in {g, h, missing}}

OverlayElements == ResizeElements \union InPlaceElements \union {PartElement, ShiftElement(x, y)}
NamesElements == WholeElements \union CreateElements \union FolderElements
                 \union {ShiftElement(n, s) : n \in {x, z}, s \in {y, z}}
AllElements == OverlayElements \union NamesElements \union EmptyElements
AllPatches == SeqOf(OverlayElements, 3) \union SeqOf(NamesElements, 2) \union SeqOf(EmptyElements, 3)
=============================================================================
