----------------------------- MODULE DiscPatch -----------------------------
(***************************************************************************)
(* Patching the disc: the launcher (launcher/source/riivolution.cpp) edits *)
(* the disc's file table for each <file> and <shift> element of the patches*)
(* that are enabled and tells the DIP module (dipmodule/source/dip.cpp)    *)
(* about files, patches and shifts; the DIP module answers the game's reads*)
(* from those tables and from the drive.                                   *)
(*                                                                         *)
(* A file that outgrows its place is moved behind the last file of the     *)
(* disc, to offsets the drive does not have.  A shift leads reads of such  *)
(* a place back to where the file was; a patch lays data of an external    *)
(* file over what was read.  Offsets count bytes; the tables of both       *)
(* programs keep them as 4-byte words.                                     *)
(***************************************************************************)
EXTENDS Integers, Sequences, SequencesExt, FiniteSetsExt

CONSTANTS
  Names,       \* paths on the disc, of the files there and those to create
  Disc,        \* the file table on the disc: [names -> [offset, size]]
  DiscSize,    \* bytes the drive can read
  Elements,    \* <file> and <shift> elements of patches
  Patches,     \* what the enabled patches can hold: sequences of elements
  Files,       \* external files
  FileSize,    \* [Files -> size]
  Present,     \* the external files that exist
  FileSystems,
  FileSystemOf, \* [Files -> FileSystems]
  MaxFound,    \* MAX_FOUND: patches looked at for one read
  Align,       \* what RVL_GetShiftOffset rounds up to (0x40 bytes)
  WordSize,    \* bytes in a word (4)
  HighWord,    \* the first offset whose upper 32 bits are not zero
  Partitions,
  GamePartition, \* the game's partition
  None, Unreadable

Closed == "closed"    \* CurrentPartition and PatchPartition are 0
Absent == [offset |-> -1, size |-> 0]   \* a name without a node

(* What a byte read from the game's partition can be, see Byte below. *)
Bytes == [source : Files \union {"disc", "junk"}, at : Int]

(* A <file> element, also one that comes of a <folder>, and a <shift> element. *)
FileElements ==
  [kind : {"file"}, disc : Names, external : Files, offset : Nat, fileoffset : Nat,
   length : Nat, resize : BOOLEAN, create : BOOLEAN, stat : BOOLEAN]
ShiftElements == [kind : {"shift"}, disc : Names, source : Names]

ASSUME DiscPatchAssumption ==
  /\ DOMAIN Disc \subseteq Names /\ DOMAIN Disc # {} /\ IsFiniteSet(DOMAIN Disc)
  /\ Disc \in [DOMAIN Disc -> [offset : Nat, size : Nat]]
  /\ DiscSize \in Nat /\ HighWord \in Nat
  /\ Elements \subseteq FileElements \union ShiftElements /\ Patches \subseteq Seq(Elements)
  /\ FileSize \in [Files -> Nat] /\ FileSystemOf \in [Files -> FileSystems]
  /\ Present \subseteq Files
  /\ GamePartition \in Partitions /\ Closed \notin Partitions
  /\ MaxFound \in Nat \ {0} /\ Align \in Nat \ {0}
  /\ WordSize \in Nat \ {0} /\ Align % WordSize = 0
  /\ \A n \in DOMAIN Disc : Disc[n].offset % WordSize = 0
  /\ None \notin FileSystems \union Seq(Bytes) /\ Unreadable \notin {None} \union Seq(Bytes)

VARIABLES
  shiftfiles,  \* BOOLEAN: files move whether or not they grow
  stage,       \* where the launcher is: "menu", "patch", "files", "game"
  todo,        \* the elements it has not come to
  fst,         \* [Names -> node]
  shift,       \* the next offset for a file that moves
  commonFs,    \* the only filesystem the patches use, or None
  defaultFs,   \* the file module's default filesystem
  dip          \* the DIP module's files, patches and shifts, its clusters,
               \* shiftBase, current (partition) and patchPartition

vars == <<shiftfiles, stage, todo, fst, shift, commonFs, defaultFs, dip>>

RoundDown(n) == (n \div Align) * Align   \* mutant
RoundUp(n) == ((n + Align - 1) \div Align) * Align
DiscEnd(table) ==
  LET last == CHOOSE n \in DOMAIN table : \A m \in DOMAIN table : table[m].offset <= table[n].offset
  IN  table[last].offset + table[last].size

(* Launcher_ReadDisc has opened the game's partition. *)
Init ==
  /\ shiftfiles \in BOOLEAN
  /\ stage = "menu" /\ todo \in Patches
  /\ fst = [n \in Names |-> IF n \in DOMAIN Disc THEN Disc[n] ELSE Absent]
  /\ shift = 0 /\ commonFs = None
  /\ defaultFs \in FileSystems
  /\ dip = [files |-> <<>>, patches |-> <<>>, shifts |-> <<>>, clusters |-> FALSE,
            shiftBase |-> DiscSize, current |-> GamePartition, patchPartition |-> Closed]

-----------------------------------------------------------------------------
(* The ioctls of the DIP module that fill its tables.                       *)

(* SetShiftBase has no return of its own and goes on to SetClusters, whose
   argument is the upper half of the offset. *)
SetShiftBase(d, base) == [d EXCEPT !.shiftBase = base, !.clusters = base >= HighWord]
SetClusters(d) == [d EXCEPT !.clusters = TRUE]

(* AddFile keeps the path of the file, or in cluster mode its identifier, which
   a file that does not exist has none of. *)
FileAccepted(d, f, identified) == d.clusters => f \in Present \/ identified
AddFile(d, f) == [d EXCEPT !.files = Append(@, [file |-> f, byId |-> d.clusters])]

(* What is left of an offset that is kept in words, as the two tables keep theirs. *)
InWords(offset) == (offset \div WordSize) * WordSize

(* Mutant: the two offsets are swapped. *)
ShiftSwapped(d, original, offset, length) ==
  [d EXCEPT !.shifts = Append(@, [offset |-> InWords(original), length |-> length,
                                  original |-> InWords(offset)])]
AddShift(d, original, offset, length) ==
  [d EXCEPT !.shifts = Append(@, [offset |-> InWords(offset), length |-> length,
                                  original |-> InWords(original)])]

(* The file offset the launcher sends is not looked at.  Mutant: the partition
   the patch is for is not noted. *)
AddPatchAnywhere(d, file, offset, fileoffset, length) ==
  [d EXCEPT !.patches = Append(@, [offset |-> InWords(offset), length |-> length, file |-> file])]
AddPatch(d, file, offset, fileoffset, length) ==
  [d EXCEPT !.patches = Append(@, [offset |-> InWords(offset), length |-> length, file |-> file]),
            !.patchPartition = d.current]

-----------------------------------------------------------------------------
(* The reads the DIP module serves.                                         *)

Byte(source, at) == [source |-> source, at |-> at]
Junk == Byte("junk", 0)   \* what a read that was not served leaves behind
DriveByte(at) == IF at \in 0..(DiscSize - 1) THEN Byte("disc", at) ELSE Junk

(* FindPatch: the entries a read meets, at most MaxFound of them. *)
Meets(entry, pos, len) ==
  LET offset == pos - entry.offset
  IN  offset = 0 \/ (offset < 0 /\ offset + len > 0) \/ (offset > 0 /\ offset < entry.length)
FindPatch(entries, pos, len) ==
  {i \in DOMAIN entries :
     /\ Meets(entries[i], pos, len)
     /\ Cardinality({j \in 1..(i - 1) : Meets(entries[j], pos, len)}) < MaxFound}

(* The offset a read is forwarded with: the last shift that is met decides. *)
Forwarded(pos, len) ==
  LET met == FindPatch(dip.shifts, pos, len)
  IN  IF met = {} THEN pos
      ELSE pos - dip.shifts[Max(met)].offset + dip.shifts[Max(met)].original

(* The part of a read that a patch covers: begin, length and where in its file
   it begins.  Mutant: a patch that starts before the read is read from its start. *)
PartFromStart(patch, pos, len) ==
  LET offset == patch.offset - pos
      length == IF offset < 0 THEN patch.length + offset ELSE patch.length
      begin == IF offset < 0 THEN 0 ELSE offset
  IN  [begin |-> begin, from |-> 0, file |-> patch.file,
       length |-> IF length < len - begin THEN length ELSE len - begin]
Part(patch, pos, len) ==
  LET offset == patch.offset - pos
  IN  [PartFromStart(patch, pos, len) EXCEPT !.from = IF offset < 0 THEN -offset ELSE 0]

(* ReadFile on an entry of the file table: by name, or by its identifier on the
   default filesystem.  (DIPFiles has the pool of files it keeps open.)  It
   gives the bytes the file has, and leaves the rest of the buffer alone. *)
CanRead(id) ==
  LET entry == dip.files[id]
  IN  /\ entry.file \in Present /\ entry.byId = dip.clusters
      /\ entry.byId => FileSystemOf[entry.file] = defaultFs
Held(f, from, length) == IF from + length <= FileSize[f] THEN length ELSE FileSize[f] - from
FileBytes(f, from, length) == [i \in 1..Held(f, from, length) |-> Byte(f, from + i)]

(* Whether the drive is asked, given the parts: not if one covers the whole
   read, and behind the disc only if a shift leads back. *)
Forwards(parts, pos, len) ==
  \/ parts = {}
  \/ /\ \A p \in parts : ~(p.begin = 0 /\ p.length = len)
     /\ pos < dip.shiftBase \/ FindPatch(dip.shifts, pos, len) # {}

(* What a read of the game's partition leaves in the buffer: what the drive
   gave, and over it the parts of the patches, one after the other. *)
ReadPatched(pos, len) ==
  LET met == FindPatch(dip.patches, pos, len)
      part == [i \in met |-> Part(dip.patches[i], pos, len)]
      asked == Forwards({part[i] : i \in met}, pos, len)
      at == Forwarded(pos, len)
      File(p) == dip.files[p.file].file
      Over(k) == {i \in met :
                    part[i].begin < k /\ k <= part[i].begin + Held(File(part[i]), part[i].from, part[i].length)}
      Laid(p, k) == Byte(File(p), p.from + k - p.begin)
  IN  IF \E i \in met : ~CanRead(part[i].file) THEN Unreadable
      ELSE [k \in 1..len |-> IF Over(k) # {} THEN Laid(part[Max(Over(k))], k)
                             ELSE IF asked THEN DriveByte(at + k - 1) ELSE Junk]

Read(pos, len) ==
  IF dip.current # dip.patchPartition THEN [k \in 1..len |-> DriveByte(pos + k - 1)]
  ELSE ReadPatched(pos, len)

-----------------------------------------------------------------------------
(* The launcher.                                                            *)

(* Launcher_RVL reads the file table; the moved files go behind the last one. *)
SetFST ==
  /\ stage = "menu" /\ stage' = "patch"
  /\ shift' = RoundUp(DiscEnd(Disc))
  /\ dip' = SetShiftBase(dip, shift')
  /\ UNCHANGED <<shiftfiles, todo, fst, commonFs, defaultFs>>

IsFileElement(e) == e.kind = "file"

(* UsedFilesystems.size() == 1.  Mutant: any number. *)
IsUsed(fs, used) == fs \in used
IsCommon(fs, used) == used = {fs}

(* RVL_Patch begins with the search for a common filesystem. *)
FindCommonFilesystem ==
  LET used == {FileSystemOf[e.external] : e \in {x \in ToSet(todo) : IsFileElement(x)}}
  IN  /\ stage = "patch" /\ stage' = "files"
      /\ \/ \E fs \in used :
              /\ IsCommon(fs, used)
              /\ commonFs' = fs /\ defaultFs' = fs /\ dip' = SetClusters(dip)
         \/ Cardinality(used) # 1 /\ UNCHANGED <<commonFs, defaultFs, dip>>
      /\ UNCHANGED <<shiftfiles, todo, fst, shift>>

(* file->Length: asked of the file when the element does not say it. *)
LengthOf(e) == IF e.length = 0 /\ ~e.stat THEN FileSize[e.external] - e.fileoffset ELSE e.length

(* RVL_CreateNode: the node, and the next offset. *)
Created(e) == [offset |-> shift, size |-> e.length]
AfterCreate(e) == RoundUp(shift + e.length)

(* The node after ResizeFST and ShiftFST, and whether the DIP module is told. *)
Moved(node, next, size) == [offset |-> next, size |-> size]

(* RVL_Patch of one <file> element, from the node (found or created) on; next
   is where the next file that moves goes. *)
PatchNode(e, node, next) ==
  LET end == e.offset + LengthOf(e)
      grows == e.resize /\ end > node.size
      size == IF e.resize THEN end ELSE node.size
      moves == grows \/ shiftfiles
      patched == IF moves THEN Moved(node, next, size) ELSE [node EXCEPT !.size = size]
      withFile == AddFile(dip, e.external)
      withShift == IF grows /\ e.offset > 0
                   THEN AddShift(withFile, node.offset, patched.offset, node.size)
                   ELSE withFile
  IN  /\ fst' = [fst EXCEPT ![e.disc] = patched]
      /\ shift' = IF moves THEN RoundUp(next + size) ELSE next
      /\ dip' = AddPatch(withShift, Len(withFile.files), patched.offset + e.offset,
                         e.fileoffset, LengthOf(e))

(* The file's length, or its table entry, is not to be had: the element is
   given up, and a node that was created for it stays. *)
GivesUp(e) ==
  e.external \notin Present /\ ~e.stat /\ (e.length = 0 \/ ~FileAccepted(dip, e.external, FALSE))

PatchFile ==
  /\ stage = "files" /\ todo # <<>> /\ IsFileElement(Head(todo))
  /\ todo' = Tail(todo)
  /\ LET e == Head(todo)
         found == fst[e.disc] # Absent
         node == IF found THEN fst[e.disc] ELSE Created(e)
         next == IF found THEN shift ELSE AfterCreate(e)
     IN  CASE ~found /\ ~e.create -> UNCHANGED <<fst, shift, dip>>
           [] (found \/ e.create) /\ GivesUp(e) ->
                fst' = [fst EXCEPT ![e.disc] = node] /\ shift' = next /\ UNCHANGED dip
           [] OTHER -> PatchNode(e, node, next)
  /\ UNCHANGED <<shiftfiles, stage, commonFs, defaultFs>>

(* A <shift> element: the name gets the node of the source. *)
PatchShift ==
  /\ stage = "files" /\ todo # <<>> /\ ~IsFileElement(Head(todo))
  /\ todo' = Tail(todo)
  /\ LET e == Head(todo)
         known == fst[e.disc] # Absent /\ fst[e.source] # Absent
     IN  fst' = IF known THEN [fst EXCEPT ![e.disc] = fst[e.source]] ELSE fst
  /\ UNCHANGED <<shiftfiles, stage, shift, commonFs, defaultFs, dip>>

Launch ==
  /\ stage = "files" /\ todo = <<>> /\ stage' = "game"
  /\ UNCHANGED <<shiftfiles, todo, fst, shift, commonFs, defaultFs, dip>>

(* The game opens and closes partitions; the drive may refuse. *)
OpenPartition(p) ==
  /\ stage = "game"
  /\ \E opened \in {p, Closed} : dip' = [dip EXCEPT !.current = opened]
  /\ UNCHANGED <<shiftfiles, stage, todo, fst, shift, commonFs, defaultFs>>

ClosePartition ==
  /\ stage = "game"
  /\ dip' = [dip EXCEPT !.current = Closed]
  /\ UNCHANGED <<shiftfiles, stage, todo, fst, shift, commonFs, defaultFs>>

Next ==
  \/ SetFST \/ FindCommonFilesystem \/ PatchFile \/ PatchShift \/ Launch
  \/ \E p \in Partitions : OpenPartition(p)
  \/ ClosePartition

Spec == Init /\ [][Next]_vars

-----------------------------------------------------------------------------
(* What must hold.                                                          *)

Node == [offset : Int, size : Nat]
Entry == [offset : Nat, length : Nat]

(* Every patch is of a file of the table, and what the launcher hands out
   lies behind the disc. *)
TypeOK ==
  /\ stage \in {"menu", "patch", "files", "game"}
  /\ fst \in [Names -> Node]
  /\ shift \in Nat /\ (stage # "menu" => shift >= DiscEnd(Disc))
  /\ commonFs \in FileSystems \union {None} /\ defaultFs \in FileSystems
  /\ \A i \in DOMAIN dip.patches : dip.patches[i].file \in DOMAIN dip.files
  /\ {dip.current, dip.patchPartition} \subseteq Partitions \union {Closed}

(* The content of a name: what a read of the whole file gives. *)
Content(n) == IF fst[n] = Absent THEN None ELSE ReadPatched(fst[n].offset, fst[n].size)
Occupied(n) == FindPatch(dip.patches, fst[n].offset, fst[n].size) # {}
(* More patches than FindPatch gives lie under the name. *)
MetBy(n) == {i \in DOMAIN dip.patches : Meets(dip.patches[i], fst[n].offset, RoundUp(fst[n].size))}
Crowded(n) == Cardinality(MetBy(n)) > MaxFound

(* The patched disc is the one the elements ask for: through every sequence of
   elements that move, cut, create and rename files, the game reads each file
   as the original with the external data laid over it, up to MAX_FOUND patches
   a file, and no element disturbs another file. *)
View == INSTANCE DiscView WITH
  ExternalData <- FileBytes,
  content <- [n \in Names |-> Content(n)],
  place <- [n \in Names |-> fst[n].offset],
  occupied <- {n \in Names : Occupied(n)},
  crowded <- {n \in Names : Crowded(n)}
(* RVL_Patch and the DIP module's reads implement the disc of DiscView. *)
ViewSpec == View!Spec

(* A file read piece by piece, at whichever words the pieces begin and wherever
   they end, however they meet patches and shifts, is the file read at once;
   reads are rounded up and may go past its end.  Files with more patches than
   a read looks at are left out. *)
PiecesAgree ==
  \A n \in Names : fst[n] # Absent /\ ~Crowded(n) =>
    LET whole == Content(n)
        rounded == RoundUp(fst[n].size)
    IN  whole # Unreadable =>
          \A from \in 0..(fst[n].size - 1), len \in 1..rounded :
            from % WordSize = 0 /\ from + len <= rounded =>
              LET piece == ReadPatched(fst[n].offset + from, len)
              IN  \A k \in 1..len : from + k <= fst[n].size => piece[k] = whole[from + k]

(* The patches are those of the game's partition: in another one, or with none
   open, the offsets they lie at read as the disc has them. *)
OtherPartitionsUntouched ==
  dip.current # GamePartition =>
    \A n \in DOMAIN Disc :
      Read(Disc[n].offset, Disc[n].size) =
        [k \in 1..Disc[n].size |-> DriveByte(Disc[n].offset + k - 1)]

(* A file is kept by identifier, which has no filesystem in it, only if it is on
   the filesystem that the patches have in common. *)
ClustersOnCommonFilesystem ==
  \A i \in DOMAIN dip.files :
    dip.files[i].byId => commonFs = FileSystemOf[dip.files[i].file]
=============================================================================
