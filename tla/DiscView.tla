------------------------------ MODULE DiscView ------------------------------
(***************************************************************************)
(* What the launcher's patches promise the game: the files of the disc as  *)
(* it will read them.  Each <file> element of the enabled patches overlays *)
(* one file of the disc with data of an external file, and a <shift>       *)
(* element makes one name stand for another file.                          *)
(*                                                                         *)
(* DiscPatch is the detailed specification: the file table the launcher    *)
(* edits, the tables of the DIP module and the reads it serves.            *)
(***************************************************************************)
EXTENDS Integers, Sequences

CONSTANTS
  Names,       \* paths on the disc
  Present,     \* the external files that exist
  ExternalData(_, _, _),   \* the bytes an external file has, from and length
  LengthOf(_), \* of an element
  WordSize,    \* the bytes that offsets are rounded down to multiples of
  None,        \* the content of a name that is not there
  Unreadable   \* and of one whose external file cannot be read

VARIABLES
  todo,        \* the <file> and <shift> elements yet to come, see DiscPatch
  shiftfiles,  \* files move whether or not they grow
  content,     \* [Names -> bytes or None]
  place,       \* where each name's data is; names with one place share it
  occupied,    \* the names part of whose data is an external file's
  crowded      \* and those with more patches than a read looks at

Data(e) == ExternalData(e.external, e.fileoffset, LengthOf(e))
End(e) == e.offset + LengthOf(e)
Supplied(e) == e.external \in Present /\ Len(Data(e)) = LengthOf(e)   \* its file holds its data
Resized(old, e) == IF e.resize THEN End(e) ELSE Len(old)

Overlaid(old, e) ==
  [i \in 1..Resized(old, e) |->
     IF e.offset < i /\ i <= End(e) THEN Data(e)[i - e.offset] ELSE old[i]]

(* Old bytes that the element leaves alone are promised only if its data begin
   at a word, and the file stays where it is, or moves with no element having
   patched it before. *)
OldContentKept(n, e) ==
  /\ e.offset % WordSize = 0 /\ e.offset <= Len(content[n])
  /\ IF End(e) > Len(content[n]) /\ e.resize THEN n \notin occupied ELSE ~shiftfiles
Replaced(n, e) == e.offset = 0 /\ LengthOf(e) >= Resized(content[n], e)

(* The other files are not disturbed, but for names that stand for this one.
   An empty file may lie where this one moves to; it cannot be read then, if
   this one cannot be. *)
OthersKept(n) ==
  \A m \in Names \ {n} :
    /\ place'[m] = place[m]
    /\ place[m] # place[n] =>
         \/ content'[m] = content[m]
         \/ content[m] = <<>> /\ place[m] = place'[n] /\ content'[m] = Unreadable

(* A file that moves goes where no other file has data. *)
OwnPlace(n) ==
  place'[n] # place[n] =>
    \A m \in Names \ {n} : content[m] \notin {None, <<>>} => place'[n] # place[m]

Patch(e) ==
  LET n == e.disc IN
  /\ content[n] # None
  /\ OthersKept(n) /\ OwnPlace(n)
  /\ content[n] # Unreadable =>
       IF e.external \in Present
       THEN Supplied(e) /\ n \notin crowded' /\ (Replaced(n, e) \/ OldContentKept(n, e)) =>
              content'[n] = Overlaid(content[n], e)
       ELSE content'[n] \in {content[n], Unreadable}

Create(e) ==
  /\ content[e.disc] = None /\ e.create
  /\ OthersKept(e.disc) /\ OwnPlace(e.disc)
  /\ (Supplied(e) /\ e.offset = 0 /\ e.resize) => content'[e.disc] = Data(e)

(* A file that is not there and is not to be created. *)
Skip(e) == content[e.disc] = None /\ ~e.create /\ UNCHANGED <<content, place>>

(* A name that is not there, or has no source, stays what it is. *)
Rename(n, source) ==
  IF None \in {content[n], content[source]} THEN UNCHANGED <<content, place>>
  ELSE /\ content' = [content EXCEPT ![n] = content[source]]
       /\ place' = [place EXCEPT ![n] = place[source]]

Apply(e) ==
  \/ e.kind = "file" /\ (Patch(e) \/ Create(e) \/ Skip(e))
  \/ e.kind = "shift" /\ Rename(e.disc, e.source)

(* The elements are applied in their order; the game's reads, the search for a
   common filesystem and the partitions change nothing. *)
ApplyNext == todo # <<>> /\ todo' = Tail(todo) /\ Apply(Head(todo))

Spec == [][ApplyNext]_<<todo, content, place>>
=============================================================================
