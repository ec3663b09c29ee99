-------------------------- MODULE DiscPatch_proofs --------------------------
(***************************************************************************)
(* Proofs about DiscPatch, for any disc, elements and external files: the  *)
(* tables keep their shape, the other partitions are untouched, files are  *)
(* kept by identifier only on a filesystem the patches have in common, a   *)
(* file read in pieces is the file read at once, and the game sees the disc*)
(* of DiscView.                                                            *)
(*                                                                         *)
(* PatchFile is handled by the three ways it can go (Skipped, GivenUp,     *)
(* Patched); PatchedTables says once what a patched element leaves in the  *)
(* DIP module's tables.  Each invariant has one lemma for PatchFile and one*)
(* for Next.                                                               *)
(*                                                                         *)
(* LayoutInv says where the nodes, the shifts and the patches lie.  With   *)
(* it, ByteAt is what a read leaves at one offset of a file, whichever read*)
(* it is part of (ReadBytes): PiecesRead is that two reads agree on it, and*)
(* PatchesView follows it through every step for every byte of every file. *)
(***************************************************************************)
EXTENDS DiscPatch, TLAPS, FiniteSetTheorems, WellFoundedInduction

(* The offset behind the disc's files, from which on files that move are put. *)
Base == RoundUp(DiscEnd(Disc))

FileEntries == [file : Files, byId : BOOLEAN]
PatchEntries == [offset : Int, length : Int, file : Int]
ShiftEntries == [offset : Int, length : Int, original : Int]
Tables ==
  [files : Seq(FileEntries), patches : Seq(PatchEntries), shifts : Seq(ShiftEntries),
   clusters : BOOLEAN, shiftBase : Int,
   current : Partitions \union {Closed}, patchPartition : Partitions \union {Closed}]

(* The shape of the state, for any elements, also those whose offset lies
   behind the end of their file. *)
ShapeInv ==
  /\ shiftfiles \in BOOLEAN /\ stage \in {"menu", "patch", "files", "game"}
  /\ todo \in Seq(Elements)
  /\ fst \in [Names -> [offset : Int, size : Int]]
  /\ shift \in Int
  /\ commonFs \in FileSystems \union {None} /\ defaultFs \in FileSystems
  /\ dip \in Tables
  /\ \A i \in 1..Len(dip.patches) : dip.patches[i].file \in 1..Len(dip.files)

(* PatchFile, in the terms of the element. *)
NodeOf(e) == IF fst[e.disc] # Absent THEN fst[e.disc] ELSE Created(e)
NextOf(e) == IF fst[e.disc] # Absent THEN shift ELSE AfterCreate(e)
Grows(e) == e.resize /\ e.offset + LengthOf(e) > NodeOf(e).size
Moves(e) == Grows(e) \/ shiftfiles
SizeOf(e) == IF e.resize THEN e.offset + LengthOf(e) ELSE NodeOf(e).size
PlaceOf(e) == IF Moves(e) THEN NextOf(e) ELSE NodeOf(e).offset
NewNode(e) == [offset |-> PlaceOf(e), size |-> SizeOf(e)]
NewFile(e) == [file |-> e.external, byId |-> dip.clusters]
NewPatch(e) ==
  [offset |-> InWords(PlaceOf(e) + e.offset), length |-> LengthOf(e), file |-> Len(dip.files) + 1]
NewShift(e) ==
  [offset |-> InWords(PlaceOf(e)), length |-> NodeOf(e).size, original |-> InWords(NodeOf(e).offset)]

(* The three ways a <file> element can go. *)
Skipped(e) == fst[e.disc] = Absent /\ ~e.create /\ UNCHANGED <<fst, shift, dip>>
GivenUp(e) ==
  /\ fst[e.disc] # Absent \/ e.create
  /\ GivesUp(e)
  /\ fst' = [fst EXCEPT ![e.disc] = NodeOf(e)] /\ shift' = NextOf(e) /\ UNCHANGED dip
Patched(e) ==
  /\ fst[e.disc] # Absent \/ e.create
  /\ ~GivesUp(e)
  /\ fst' = [fst EXCEPT ![e.disc] = NewNode(e)]
  /\ shift' = IF Moves(e) THEN RoundUp(NextOf(e) + SizeOf(e)) ELSE NextOf(e)
  /\ dip' = [dip EXCEPT
               !.files = Append(dip.files, NewFile(e)),
               !.patches = Append(dip.patches, NewPatch(e)),
               !.shifts = IF Grows(e) /\ e.offset > 0 THEN Append(dip.shifts, NewShift(e))
                          ELSE dip.shifts,
               !.patchPartition = dip.current]
-----------------------------------------------------------------------------
(* What is assumed of the constants. *)
LEMMA Constants ==
  /\ Disc \in [DOMAIN Disc -> [offset : Nat, size : Nat]]
  /\ DOMAIN Disc \subseteq Names /\ DOMAIN Disc # {} /\ IsFiniteSet(DOMAIN Disc)
  /\ DiscSize \in Nat /\ HighWord \in Nat /\ MaxFound \in Nat \ {0} /\ Align \in Nat \ {0}
  /\ WordSize \in Nat \ {0} /\ Align % WordSize = 0
  /\ \A n \in DOMAIN Disc : Disc[n].offset % WordSize = 0
  /\ Elements \subseteq FileElements \union ShiftElements /\ Patches \subseteq Seq(Elements)
  /\ FileSize \in [Files -> Nat] /\ FileSystemOf \in [Files -> FileSystems]
  /\ Present \subseteq Files
  /\ GamePartition \in Partitions /\ Closed \notin Partitions /\ None \notin FileSystems
BY DiscPatchAssumption

(* Rounded offsets are integers. *)
LEMMA RoundUpInt == \A n \in Int : RoundUp(n) \in Int
BY Constants DEF RoundUp

LEMMA InWordsInt == \A n \in Int : InWords(n) \in Int
BY Constants DEF InWords

(* The element that is next, and its kind. *)
LEMMA NextElement ==
  ASSUME ShapeInv, todo # <<>>
  PROVE  /\ Head(todo) \in Elements /\ Tail(todo) \in Seq(Elements)
         /\ IF IsFileElement(Head(todo)) THEN Head(todo) \in FileElements
            ELSE Head(todo) \in ShiftElements
<1>1. Head(todo) \in Elements /\ Tail(todo) \in Seq(Elements)
  BY DEF ShapeInv
<1> QED BY <1>1, Constants DEF FileElements, ShiftElements, IsFileElement

(* PatchFile is one of the three ways. *)
LEMMA PatchFileIs ==
  ASSUME ShapeInv, PatchFile
  PROVE  /\ stage = "files" /\ todo # <<>> /\ todo' = Tail(todo)
         /\ Head(todo) \in FileElements
         /\ UNCHANGED <<shiftfiles, stage, commonFs, defaultFs>>
         /\ Skipped(Head(todo)) \/ GivenUp(Head(todo)) \/ Patched(Head(todo))
<1> DEFINE e == Head(todo)
<1>1. /\ stage = "files" /\ todo # <<>> /\ todo' = Tail(todo) /\ IsFileElement(e)
      /\ UNCHANGED <<shiftfiles, stage, commonFs, defaultFs>>
  BY DEF PatchFile
<1>2. e \in FileElements
  BY <1>1, NextElement
<1>3. CASE fst[e.disc] = Absent /\ ~e.create
  BY <1>1, <1>2, <1>3 DEF PatchFile, Skipped
<1>4. CASE (fst[e.disc] # Absent \/ e.create) /\ GivesUp(e)
  BY <1>1, <1>2, <1>4 DEF PatchFile, GivenUp, NodeOf, NextOf
<1>5. CASE (fst[e.disc] # Absent \/ e.create) /\ ~GivesUp(e)
  <2>1. PatchNode(e, NodeOf(e), NextOf(e))
    BY <1>1, <1>2, <1>5 DEF PatchFile, NodeOf, NextOf
  <2>2. e \in FileElements /\ NodeOf(e) \in [offset : Int, size : Int]
    BY <1>2 DEF NodeOf, Created, ShapeInv, FileElements
  <2>3. /\ fst' = [fst EXCEPT ![e.disc] = NewNode(e)]
        /\ shift' = IF Moves(e) THEN RoundUp(NextOf(e) + SizeOf(e)) ELSE NextOf(e)
    <3>1. [NodeOf(e) EXCEPT !.size = SizeOf(e)] = [offset |-> NodeOf(e).offset, size |-> SizeOf(e)]
      BY <2>2
    <3>2. /\ fst' = [fst EXCEPT ![e.disc] =
                       IF Moves(e) THEN Moved(NodeOf(e), NextOf(e), SizeOf(e))
                       ELSE [NodeOf(e) EXCEPT !.size = SizeOf(e)]]
          /\ shift' = IF Moves(e) THEN RoundUp(NextOf(e) + SizeOf(e)) ELSE NextOf(e)
      BY <2>1 DEF PatchNode, SizeOf, Moves, Grows
    <3> QED BY <3>1, <3>2 DEF NewNode, PlaceOf, Moved
  <2>4. dip' = [dip EXCEPT
               !.files = Append(dip.files, NewFile(e)),
               !.patches = Append(dip.patches, NewPatch(e)),
               !.shifts = IF Grows(e) /\ e.offset > 0 THEN Append(dip.shifts, NewShift(e))
                          ELSE dip.shifts,
               !.patchPartition = dip.current]
    <3>1. dip \in Tables /\ Len(Append(dip.files, NewFile(e))) = Len(dip.files) + 1
      BY DEF ShapeInv, Tables
    <3> QED BY <2>1, <2>2, <3>1
         DEF PatchNode, NewNode, PlaceOf, SizeOf, Moves, Grows, Moved, NewPatch, NewShift, NewFile,
             AddFile, AddPatch, AddShift, Tables
  <2> QED BY <1>1, <1>2, <1>5, <2>3, <2>4 DEF Patched
<1> QED BY <1>1, <1>2, <1>3, <1>4, <1>5

(* What Patched leaves in the tables, one by one. *)
LEMMA PatchedTables ==
  ASSUME ShapeInv, NEW e \in FileElements, Patched(e)
  PROVE  /\ dip'.files = Append(dip.files, NewFile(e))
         /\ dip'.patches = Append(dip.patches, NewPatch(e))
         /\ dip'.shifts = IF Grows(e) /\ e.offset > 0 THEN Append(dip.shifts, NewShift(e))
                          ELSE dip.shifts
         /\ dip'.clusters = dip.clusters /\ dip'.shiftBase = dip.shiftBase
         /\ dip'.current = dip.current /\ dip'.patchPartition = dip.current
         /\ NodeOf(e) \in [offset : Int, size : Int]
         /\ LengthOf(e) \in Int /\ SizeOf(e) \in Int /\ NextOf(e) \in Int /\ PlaceOf(e) \in Int
         /\ NewFile(e) \in FileEntries /\ NewPatch(e) \in PatchEntries /\ NewShift(e) \in ShiftEntries
         /\ dip' \in Tables
<1>1. dip \in Tables
  BY DEF ShapeInv
<1>2. LengthOf(e) \in Int
  BY Constants DEF LengthOf, FileElements
<1>3. NodeOf(e) \in [offset : Int, size : Int] /\ NextOf(e) \in Int
  BY RoundUpInt DEF ShapeInv, NodeOf, NextOf, Created, AfterCreate, FileElements
<1>4. SizeOf(e) \in Int /\ PlaceOf(e) \in Int
  BY <1>2, <1>3 DEF SizeOf, PlaceOf, FileElements
<1>5. NewFile(e) \in FileEntries
  BY <1>1 DEF NewFile, FileElements, FileEntries, Tables
<1>6. NewPatch(e) \in PatchEntries
  <2>1. Len(dip.files) \in Nat
    BY <1>1 DEF Tables
  <2>2. InWords(PlaceOf(e) + e.offset) \in Int
    BY <1>4, InWordsInt DEF FileElements
  <2> QED BY <1>2, <2>1, <2>2 DEF NewPatch, PatchEntries
<1>7. NewShift(e) \in ShiftEntries
  BY <1>3, <1>4, InWordsInt DEF NewShift, ShiftEntries
<1>8. /\ dip'.files = Append(dip.files, NewFile(e))
      /\ dip'.patches = Append(dip.patches, NewPatch(e))
      /\ dip'.shifts = IF Grows(e) /\ e.offset > 0 THEN Append(dip.shifts, NewShift(e))
                        ELSE dip.shifts
      /\ dip'.clusters = dip.clusters /\ dip'.shiftBase = dip.shiftBase
      /\ dip'.current = dip.current /\ dip'.patchPartition = dip.current
  BY <1>1 DEF Patched, Tables
<1>9. dip' \in Tables
  <2>1. dip'.files \in Seq(FileEntries)
    BY <1>1, <1>5, <1>8 DEF Tables
  <2>2. dip'.patches \in Seq(PatchEntries)
    BY <1>1, <1>6, <1>8 DEF Tables
  <2>3. dip'.shifts \in Seq(ShiftEntries)
    BY <1>1, <1>7, <1>8 DEF Tables
  <2>4. dip' = [files |-> dip'.files, patches |-> dip'.patches, shifts |-> dip'.shifts,
                clusters |-> dip'.clusters, shiftBase |-> dip'.shiftBase,
                current |-> dip'.current, patchPartition |-> dip'.patchPartition]
    BY <1>1 DEF Patched, Tables
  <2> QED BY <1>1, <1>8, <2>1, <2>2, <2>3, <2>4 DEF Tables
<1> QED BY <1>2, <1>3, <1>4, <1>5, <1>6, <1>7, <1>8, <1>9

(* One of finitely many has the greatest value. *)
LEMMA Greatest ==
  ASSUME NEW S, IsFiniteSet(S), S # {}, NEW f, \A y \in S : f[y] \in Int
  PROVE  \E x \in S : \A y \in S : f[y] <= f[x]
<1> DEFINE Has(T) == \E x \in T : \A y \in T : f[y] <= f[x]
           R == StrictSubsetOrdering(S)
           Bad == {T \in SUBSET S : T # {} /\ ~Has(T)}
<1> SUFFICES ASSUME ~Has(S) PROVE FALSE
  OBVIOUS
<1>1. IsWellFoundedOn(R, SUBSET S)
  BY FS_StrictSubsetOrderingWellFounded, FS_FiniteSubsetsOfFinite
<1>2. Bad \subseteq SUBSET S /\ Bad # {}
  OBVIOUS
<1> HIDE DEF R
<1>3. PICK T \in Bad : \A U \in Bad : ~(<<U, T>> \in R)
  <2> HIDE DEF Bad
  <2> QED BY <1>1, <1>2, WFMin
<1>4. PICK x \in T : TRUE
  BY <1>3
<1>5. CASE T \ {x} = {}
  <2>1. \A y \in T : y = x /\ f[y] <= f[x]
    BY <1>3, <1>4, <1>5
  <2> QED BY <1>3, <1>4, <2>1
<1>6. CASE T \ {x} # {}
  <2>1. <<T \ {x}, T>> \in R
    BY <1>3, <1>4 DEF R, StrictSubsetOrdering
  <2>2. Has(T \ {x})
    BY <1>3, <1>6, <2>1
  <2>3. PICK z \in T \ {x} : \A y \in T \ {x} : f[y] <= f[z]
    BY <2>2
  <2>4. \A y \in T : f[y] \in Int
    BY <1>3
  <2>5. CASE f[x] <= f[z]
    <3>1. \A y \in T : f[y] <= f[z]
      BY <2>3, <2>5
    <3> QED BY <1>3, <2>3, <3>1
  <2>6. CASE f[z] <= f[x]
    <3>1. \A y \in T : f[y] <= f[x]
      BY <1>4, <2>3, <2>4, <2>6
    <3> QED BY <1>3, <1>4, <3>1
  <2> QED BY <1>4, <2>3, <2>4, <2>5, <2>6
<1> QED BY <1>5, <1>6

(* The file that ends the disc is there, however many there are. *)
LEMMA DiscEndIs ==
  /\ DiscEnd(Disc) \in Nat /\ Base \in Int
  /\ \E m \in DOMAIN Disc : DiscEnd(Disc) = Disc[m].offset + Disc[m].size
<1> DEFINE last == CHOOSE n \in DOMAIN Disc : \A m \in DOMAIN Disc : Disc[m].offset <= Disc[n].offset
<1>1. DOMAIN Disc # {} /\ IsFiniteSet(DOMAIN Disc) /\ Disc \in [DOMAIN Disc -> [offset : Nat, size : Nat]]
  BY Constants
<1>2. \E n \in DOMAIN Disc : \A m \in DOMAIN Disc : Disc[m].offset <= Disc[n].offset
  <2> DEFINE f == [n \in DOMAIN Disc |-> Disc[n].offset]
  <2>1. \A n \in DOMAIN Disc : f[n] \in Int
    BY <1>1
  <2>2. \E n \in DOMAIN Disc : \A m \in DOMAIN Disc : f[m] <= f[n]
    <3> HIDE DEF f
    <3> QED BY <1>1, <2>1, Greatest
  <2> QED BY <2>2
<1>3. last \in DOMAIN Disc
  BY <1>2
<1>4. DiscEnd(Disc) = Disc[last].offset + Disc[last].size
  BY DEF DiscEnd
<1> HIDE DEF last
<1>5. DiscEnd(Disc) \in Nat
  BY <1>1, <1>3, <1>4
<1> QED BY <1>3, <1>4, <1>5, RoundUpInt DEF Base

(* SetFST is the only step that asks for the shift base. *)
LEMMA SetFSTIs ==
  ASSUME ShapeInv, SetFST
  PROVE  /\ stage = "menu" /\ stage' = "patch" /\ shift' = Base
         /\ dip' = [dip EXCEPT !.shiftBase = Base, !.clusters = Base >= HighWord]
         /\ dip' \in Tables
         /\ dip'.files = dip.files /\ dip'.patches = dip.patches /\ dip'.shifts = dip.shifts
         /\ dip'.clusters = (Base >= HighWord) /\ dip'.shiftBase = Base
         /\ dip'.current = dip.current /\ dip'.patchPartition = dip.patchPartition
         /\ UNCHANGED <<shiftfiles, todo, fst, commonFs, defaultFs>>
<1>1. dip \in Tables
  BY DEF ShapeInv
<1>2. /\ stage = "menu" /\ stage' = "patch" /\ shift' = Base
      /\ dip' = [dip EXCEPT !.shiftBase = Base, !.clusters = Base >= HighWord]
      /\ UNCHANGED <<shiftfiles, todo, fst, commonFs, defaultFs>>
  BY DEF SetFST, SetShiftBase, Base
<1>3. (Base >= HighWord) \in BOOLEAN
  OBVIOUS
<1>4. dip' \in Tables
  BY <1>1, <1>2, <1>3, DiscEndIs DEF Tables
<1>5. /\ dip'.files = dip.files /\ dip'.patches = dip.patches /\ dip'.shifts = dip.shifts
      /\ dip'.clusters = (Base >= HighWord) /\ dip'.shiftBase = Base
      /\ dip'.current = dip.current /\ dip'.patchPartition = dip.patchPartition
  <2> HIDE DEF Base
  <2> QED BY <1>1, <1>2 DEF Tables
<1> QED BY <1>2, <1>4, <1>5

(* The filesystems of the external files of some elements. *)
UsedBy(s) == {FileSystemOf[e.external] : e \in {x \in ToSet(s) : IsFileElement(x)}}

(* They are filesystems, those of each element. *)
LEMMA UsedByIs ==
  ASSUME NEW s \in Seq(Elements)
  PROVE  /\ UsedBy(s) \subseteq FileSystems
         /\ \A i \in 1..Len(s) : IsFileElement(s[i]) => FileSystemOf[s[i].external] \in UsedBy(s)
<1>1. ToSet(s) \subseteq Elements
  BY DEF ToSet
<1>2. \A e \in ToSet(s) : IsFileElement(e) => e \in FileElements
  BY <1>1, Constants DEF IsFileElement, ShiftElements
<1>3. UsedBy(s) \subseteq FileSystems
  <2>1. \A e \in ToSet(s) : IsFileElement(e) => FileSystemOf[e.external] \in FileSystems
    BY <1>2, Constants DEF FileElements
  <2> QED BY <2>1 DEF UsedBy
<1>4. \A i \in 1..Len(s) : s[i] \in ToSet(s)
  BY DEF ToSet
<1> QED BY <1>3, <1>4 DEF UsedBy

(* FindCommonFilesystem finds the only filesystem in use, or changes nothing. *)
LEMMA FindCommonIs ==
  ASSUME ShapeInv, FindCommonFilesystem
  PROVE  /\ stage = "patch" /\ stage' = "files" /\ UNCHANGED <<shiftfiles, todo, fst, shift>>
         /\ \/ /\ commonFs' \in FileSystems /\ defaultFs' = commonFs' /\ UsedBy(todo) = {commonFs'}
               /\ dip' = [dip EXCEPT !.clusters = TRUE] /\ dip'.clusters = TRUE
            \/ UNCHANGED <<commonFs, defaultFs, dip>>
         /\ dip' \in Tables
         /\ dip'.files = dip.files /\ dip'.patches = dip.patches /\ dip'.shifts = dip.shifts
         /\ dip'.shiftBase = dip.shiftBase
         /\ dip'.current = dip.current /\ dip'.patchPartition = dip.patchPartition
<1>1. dip \in Tables /\ todo \in Seq(Elements)
  BY DEF ShapeInv
<1>2. /\ stage = "patch" /\ stage' = "files" /\ UNCHANGED <<shiftfiles, todo, fst, shift>>
      /\ \/ \E f \in UsedBy(todo) : UsedBy(todo) = {f} /\ commonFs' = f /\ defaultFs' = f
                                    /\ dip' = [dip EXCEPT !.clusters = TRUE]
         \/ UNCHANGED <<commonFs, defaultFs, dip>>
  BY DEF FindCommonFilesystem, UsedBy, IsCommon, SetClusters
<1>3. CASE UNCHANGED <<commonFs, defaultFs, dip>>
  BY <1>1, <1>2, <1>3
<1>4. CASE \E f \in UsedBy(todo) : UsedBy(todo) = {f} /\ commonFs' = f /\ defaultFs' = f
                                    /\ dip' = [dip EXCEPT !.clusters = TRUE]
  <2>1. PICK f \in UsedBy(todo) : UsedBy(todo) = {f} /\ commonFs' = f /\ defaultFs' = f
                                    /\ dip' = [dip EXCEPT !.clusters = TRUE]
    BY <1>4
  <2>2. f \in FileSystems
    BY <1>1, UsedByIs
  <2>3. /\ dip' \in Tables /\ dip'.clusters = TRUE
        /\ dip'.files = dip.files /\ dip'.patches = dip.patches /\ dip'.shifts = dip.shifts
        /\ dip'.shiftBase = dip.shiftBase
        /\ dip'.current = dip.current /\ dip'.patchPartition = dip.patchPartition
    BY <1>1, <2>1 DEF Tables
  <2> QED BY <1>2, <2>1, <2>2, <2>3
<1> QED BY <1>2, <1>3, <1>4

(* PatchShift gives a name the node of another, if both are there. *)
LEMMA PatchShiftIs ==
  ASSUME ShapeInv, PatchShift
  PROVE  /\ stage = "files" /\ todo # <<>> /\ todo' = Tail(todo) /\ Head(todo) \in ShiftElements
         /\ UNCHANGED <<shiftfiles, stage, shift, commonFs, defaultFs, dip>>
         /\ \/ /\ Absent \in {fst[Head(todo).disc], fst[Head(todo).source]}
               /\ fst' = fst
            \/ /\ fst[Head(todo).disc] # Absent /\ fst[Head(todo).source] # Absent
               /\ fst' = [fst EXCEPT ![Head(todo).disc] = fst[Head(todo).source]]
<1>1. /\ stage = "files" /\ todo # <<>> /\ todo' = Tail(todo) /\ ~IsFileElement(Head(todo))
      /\ UNCHANGED <<shiftfiles, stage, shift, commonFs, defaultFs, dip>>
  BY DEF PatchShift
<1>2. Head(todo) \in ShiftElements
  BY <1>1, NextElement
<1> QED BY <1>1, <1>2 DEF PatchShift

(* The game's partitions, and the launch: the tables stay. *)
LEMMA GameIs ==
  ASSUME ShapeInv, Launch \/ (\E p \in Partitions : OpenPartition(p)) \/ ClosePartition
  PROVE  /\ stage \in {"files", "game"} /\ stage' = "game"
         /\ UNCHANGED <<shiftfiles, todo, fst, shift, commonFs, defaultFs>>
         /\ dip' \in Tables
         /\ dip'.files = dip.files /\ dip'.patches = dip.patches /\ dip'.shifts = dip.shifts
         /\ dip'.clusters = dip.clusters /\ dip'.shiftBase = dip.shiftBase
         /\ dip'.patchPartition = dip.patchPartition
<1>1. dip \in Tables
  BY DEF ShapeInv
<1>2. CASE Launch
  BY <1>1, <1>2 DEF Launch
<1>3. CASE \E p \in Partitions : OpenPartition(p)
  BY <1>1, <1>3 DEF OpenPartition, Tables
<1>4. CASE ClosePartition
  BY <1>1, <1>4 DEF ClosePartition, Tables
<1> QED BY <1>2, <1>3, <1>4

(* The shape, at the start, through a <file> element and through every step. *)
LEMMA ShapeInit == Init => ShapeInv
<1> SUFFICES ASSUME Init PROVE ShapeInv
  OBVIOUS
<1>1. todo \in Seq(Elements)
  BY Constants DEF Init
<1>2. fst \in [Names -> [offset : Int, size : Int]]
  BY Constants DEF Init, Absent
<1>3. dip \in Tables /\ Len(dip.patches) = 0
  <2>1. <<>> \in Seq(FileEntries) /\ <<>> \in Seq(PatchEntries) /\ <<>> \in Seq(ShiftEntries)
    OBVIOUS
  <2> QED BY <2>1, Constants DEF Init, Tables
<1> QED BY <1>1, <1>2, <1>3 DEF Init, ShapeInv

LEMMA ShapePatchFile ==
  ASSUME ShapeInv, PatchFile
  PROVE  ShapeInv'
<1> DEFINE e == Head(todo)
<1>1. /\ e \in FileElements /\ todo' \in Seq(Elements)
      /\ UNCHANGED <<shiftfiles, stage, commonFs, defaultFs>>
      /\ Skipped(e) \/ GivenUp(e) \/ Patched(e)
  BY PatchFileIs, NextElement
<1> HIDE DEF e
<1>2. /\ NodeOf(e) \in [offset : Int, size : Int] /\ NextOf(e) \in Int
  BY <1>1, RoundUpInt DEF ShapeInv, NodeOf, NextOf, Created, AfterCreate, FileElements
<1>3. CASE Skipped(e)
  BY <1>1, <1>3 DEF Skipped, ShapeInv
<1>4. CASE GivenUp(e)
  BY <1>1, <1>2, <1>4 DEF GivenUp, ShapeInv
<1>5. CASE Patched(e)
  <2>1. fst' \in [Names -> [offset : Int, size : Int]]
    <3>1. PlaceOf(e) \in Int /\ SizeOf(e) \in Int
      BY <1>1, <1>5, PatchedTables
    <3>2. NewNode(e) \in [offset : Int, size : Int]
      BY <3>1 DEF NewNode
    <3> QED BY <1>5, <3>2 DEF Patched, ShapeInv
  <2>2. shift' \in Int
    <3>1. NextOf(e) \in Int /\ SizeOf(e) \in Int
      BY <1>1, <1>5, PatchedTables
    <3>2. RoundUp(NextOf(e) + SizeOf(e)) \in Int
      BY <3>1, RoundUpInt
    <3> QED BY <1>5, <3>1, <3>2 DEF Patched
  <2>3. /\ dip' \in Tables /\ dip'.files = Append(dip.files, NewFile(e))
        /\ dip'.patches = Append(dip.patches, NewPatch(e))
    BY <1>1, <1>5, PatchedTables
  <2>4. /\ dip.files \in Seq(FileEntries) /\ dip.patches \in Seq(PatchEntries)
        /\ NewFile(e) \in FileEntries /\ NewPatch(e) \in PatchEntries
    BY <1>1, <1>5, PatchedTables DEF ShapeInv, Tables
  <2>5. Len(dip'.files) = Len(dip.files) + 1 /\ Len(dip'.patches) = Len(dip.patches) + 1
        /\ Len(dip.files) \in Nat /\ Len(dip.patches) \in Nat
    BY <2>3, <2>4
  <2>6. \A i \in 1..Len(dip'.patches) : dip'.patches[i].file \in 1..Len(dip'.files)
    <3>1. SUFFICES ASSUME NEW i \in 1..Len(dip'.patches) PROVE dip'.patches[i].file \in 1..Len(dip'.files)
      OBVIOUS
    <3>2. CASE i \in 1..Len(dip.patches)
      <4>1. dip'.patches[i] = dip.patches[i]
        BY <2>3, <2>4, <3>2
      <4> QED BY <2>5, <3>2, <4>1 DEF ShapeInv
    <3>3. CASE i = Len(dip.patches) + 1
      <4>1. dip'.patches[i] = NewPatch(e)
        BY <2>3, <2>4, <3>3
      <4> QED BY <2>5, <4>1 DEF NewPatch
    <3> QED BY <2>5, <3>1, <3>2, <3>3
  <2> QED BY <1>1, <2>1, <2>2, <2>3, <2>6 DEF ShapeInv
<1> QED BY <1>1, <1>3, <1>4, <1>5

LEMMA ShapeNext == ShapeInv /\ [Next]_vars => ShapeInv'
<1> SUFFICES ASSUME ShapeInv, [Next]_vars PROVE ShapeInv'
  OBVIOUS
<1>1. CASE SetFST
  BY <1>1, SetFSTIs, DiscEndIs DEF ShapeInv
<1>2. CASE FindCommonFilesystem
  BY <1>2, FindCommonIs DEF ShapeInv
<1>3. CASE PatchFile
  BY <1>3, ShapePatchFile
<1>4. CASE PatchShift
  <2>1. fst' \in [Names -> [offset : Int, size : Int]]
    BY <1>4, PatchShiftIs DEF ShapeInv, ShiftElements
  <2> QED BY <1>4, <2>1, PatchShiftIs, NextElement DEF ShapeInv
<1>5. CASE Launch \/ (\E p \in Partitions : OpenPartition(p)) \/ ClosePartition
  BY <1>5, GameIs DEF ShapeInv
<1>6. CASE UNCHANGED vars
  BY <1>6 DEF vars, ShapeInv
<1> QED BY <1>1, <1>2, <1>3, <1>4, <1>5, <1>6 DEF Next

(* Patches are noted for the game's partition, which is open until the game
   runs; with none noted there are no patches and no shifts. *)
PartitionInv ==
  /\ stage \in {"menu", "patch", "files"} => dip.current = GamePartition
  /\ stage \in {"menu", "patch"} => dip.patchPartition = Closed
  /\ IF dip.patchPartition = Closed THEN dip.patches = <<>> /\ dip.shifts = <<>>
     ELSE dip.patchPartition = GamePartition

(* Only the game opens partitions, after the last patch. *)
LEMMA PartitionNext == ShapeInv /\ PartitionInv /\ [Next]_vars => PartitionInv'
<1> SUFFICES ASSUME ShapeInv, PartitionInv, [Next]_vars PROVE PartitionInv'
  OBVIOUS
<1>1. CASE SetFST
  BY <1>1, SetFSTIs DEF PartitionInv
<1>2. CASE FindCommonFilesystem
  BY <1>2, FindCommonIs DEF PartitionInv
<1>3. CASE PatchFile
  <2> DEFINE e == Head(todo)
  <2>1. /\ e \in FileElements /\ stage = "files" /\ stage' = stage
        /\ Skipped(e) \/ GivenUp(e) \/ Patched(e)
    BY <1>3, PatchFileIs
  <2>2. CASE Skipped(e) \/ GivenUp(e)
    BY <2>1, <2>2 DEF Skipped, GivenUp, PartitionInv
  <2>3. CASE Patched(e)
    <3>1. dip'.current = dip.current /\ dip'.patchPartition = dip.current
      BY <2>1, <2>3, PatchedTables
    <3> QED BY <2>1, <3>1, Constants DEF PartitionInv
  <2> QED BY <2>1, <2>2, <2>3
<1>4. CASE PatchShift
  BY <1>4, PatchShiftIs DEF PartitionInv
<1>5. CASE Launch \/ (\E p \in Partitions : OpenPartition(p)) \/ ClosePartition
  BY <1>5, GameIs DEF PartitionInv
<1>6. CASE UNCHANGED vars
  BY <1>6, SMTT(60) DEF vars, PartitionInv
<1> QED BY <1>1, <1>2, <1>3, <1>4, <1>5, <1>6 DEF Next

(* No patch and no shift: reads go to the drive. *)
LEMMA ReadUnpatched ==
  ASSUME dip.patches = <<>>, dip.shifts = <<>>, NEW pos, NEW len
  PROVE  ReadPatched(pos, len) = [k \in 1..len |-> DriveByte(pos + k - 1)]
<1>1. FindPatch(dip.patches, pos, len) = {} /\ FindPatch(dip.shifts, pos, len) = {}
  BY DEF FindPatch
<1> QED BY <1>1, Zenon DEF ReadPatched, Forwards, Forwarded

(* In another partition than the game's, or with none open, the game reads the
   disc as it is, wherever the patches lie. *)
THEOREM OthersUntouched == Spec => []OtherPartitionsUntouched
<1>1. Init => PartitionInv
  BY DEF Init, PartitionInv
<1>2. PartitionInv => OtherPartitionsUntouched
  <2> SUFFICES ASSUME PartitionInv, dip.current # GamePartition, NEW n \in DOMAIN Disc
               PROVE  Read(Disc[n].offset, Disc[n].size) =
                        [k \in 1..Disc[n].size |-> DriveByte(Disc[n].offset + k - 1)]
    BY DEF OtherPartitionsUntouched
  <2>1. CASE dip.current # dip.patchPartition
    BY <2>1 DEF Read
  <2>2. CASE dip.current = dip.patchPartition
    <3>1. dip.patches = <<>> /\ dip.shifts = <<>>
      BY <2>2 DEF PartitionInv
    <3> QED BY <2>2, <3>1, ReadUnpatched DEF Read
  <2> QED BY <2>1, <2>2
<1> QED BY <1>1, <1>2, ShapeInit, ShapeNext, PartitionNext, PTL DEF Spec

(* The files of the disc end below the offset that SetShiftBase mistakes for a
   request for clusters. *)
BelowHighWord == Base < HighWord

(* Clusters are used once a filesystem was found that all external files of
   the elements are on, and it is the default then. *)
ClustersInv ==
  /\ stage \in {"menu", "patch"} => ~dip.clusters /\ dip.files = <<>> /\ dip.patches = <<>>
  /\ stage \in {"files", "game"} /\ dip.clusters =>
       commonFs # None /\ defaultFs = commonFs /\ UsedBy(todo) \subseteq {commonFs}
  /\ \A i \in 1..Len(dip.files) :
       /\ dip.files[i].byId = dip.clusters
       /\ dip.clusters => FileSystemOf[dip.files[i].file] = defaultFs

(* A file is added as the table is kept, and is on the filesystem they share. *)
LEMMA ClustersPatchFile ==
  ASSUME ShapeInv, ClustersInv, PatchFile
  PROVE  ClustersInv'
<1> DEFINE e == Head(todo)
<1>1. /\ e \in FileElements /\ todo # <<>> /\ todo' = Tail(todo) /\ stage = "files"
      /\ UNCHANGED <<shiftfiles, stage, commonFs, defaultFs>>
      /\ Skipped(e) \/ GivenUp(e) \/ Patched(e)
  BY PatchFileIs
<1>2. UsedBy(todo') \subseteq UsedBy(todo)
  <2>1. \A i \in 1..Len(Tail(todo)) : Tail(todo)[i] = todo[i + 1] /\ i + 1 \in 1..Len(todo)
    BY <1>1 DEF ShapeInv
  <2>2. ToSet(Tail(todo)) \subseteq ToSet(todo)
    BY <1>1, <2>1 DEF ToSet, ShapeInv
  <2> QED BY <1>1, <2>2 DEF UsedBy
<1>3. FileSystemOf[e.external] \in UsedBy(todo)
  <2>1. e = todo[1] /\ 1 \in 1..Len(todo) /\ IsFileElement(e) /\ todo \in Seq(Elements)
    BY <1>1 DEF ShapeInv, IsFileElement, FileElements
  <2> HIDE DEF e
  <2> QED BY <2>1, UsedByIs
<1>4. CASE Skipped(e) \/ GivenUp(e)
  BY <1>1, <1>2, <1>4 DEF Skipped, GivenUp, ClustersInv
<1>5. CASE Patched(e)
  <2>1. /\ dip'.files = Append(dip.files, NewFile(e)) /\ dip'.clusters = dip.clusters
        /\ dip.files \in Seq(FileEntries) /\ NewFile(e) \in FileEntries
    BY <1>1, <1>5, PatchedTables DEF ShapeInv, Tables
  <2>2. ASSUME NEW i \in 1..Len(dip'.files)
        PROVE  /\ dip'.files[i].byId = dip.clusters
               /\ dip.clusters => FileSystemOf[dip'.files[i].file] = defaultFs
    <3>1. CASE i \in 1..Len(dip.files)
      <4>1. dip'.files[i] = dip.files[i]
        BY <2>1, <3>1
      <4> QED BY <3>1, <4>1 DEF ClustersInv
    <3>2. CASE i = Len(dip.files) + 1
      <4>1. dip'.files[i] = NewFile(e)
        BY <2>1, <3>2
      <4> QED BY <1>1, <1>3, <4>1 DEF ClustersInv, NewFile
    <3> QED BY <2>1, <3>1, <3>2
  <2> QED BY <1>1, <1>2, <2>1, <2>2 DEF ClustersInv
<1> QED BY <1>1, <1>4, <1>5

(* Clusters come of the common filesystem alone when the files end below HighWord. *)
LEMMA ClustersNext ==
  ASSUME BelowHighWord, ShapeInv, ClustersInv, [Next]_vars
  PROVE  ClustersInv'
<1>1. CASE SetFST
  <2>1. ~(Base >= HighWord)
    <3> DEFINE b == Base
    <3>1. b \in Int /\ HighWord \in Int /\ b < HighWord
      BY DiscEndIs, Constants DEF BelowHighWord
    <3> HIDE DEF b
    <3>2. ~(b >= HighWord)
      BY <3>1
    <3> QED BY <3>2 DEF b
  <2> HIDE DEF Base
  <2>2. dip'.clusters = (Base >= HighWord)
    BY <1>1, SetFSTIs
  <2>3. ~dip'.clusters
    BY <2>1, <2>2, Zenon
  <2>4. stage = "menu" /\ stage' = "patch" /\ dip'.files = dip.files /\ dip'.patches = dip.patches
    BY <1>1, SetFSTIs
  <2>5. dip'.files = <<>> /\ dip'.patches = <<>>
    BY <2>4 DEF ClustersInv
  <2>6. \A i \in 1..Len(dip'.files) : FALSE
    BY <2>5
  <2>7. stage' \notin {"files", "game"}
    BY <2>4
  <2> QED BY <2>3, <2>5, <2>6, <2>7 DEF ClustersInv
<1>2. CASE FindCommonFilesystem
  <2>1. /\ stage = "patch" /\ stage' = "files" /\ UNCHANGED todo /\ dip'.files = dip.files
        /\ \/ /\ commonFs' \in FileSystems /\ defaultFs' = commonFs' /\ UsedBy(todo) = {commonFs'}
           \/ UNCHANGED <<commonFs, defaultFs, dip>>
    BY <1>2, FindCommonIs
  <2>2. ~dip.clusters /\ dip'.files = <<>>
    BY <2>1 DEF ClustersInv
  <2>3. \A i \in 1..Len(dip'.files) : FALSE
    BY <2>2
  <2>4. dip'.clusters => commonFs' # None /\ defaultFs' = commonFs' /\ UsedBy(todo') \subseteq {commonFs'}
    BY <2>1, <2>2, Constants
  <2>5. stage' \notin {"menu", "patch"}
    BY <2>1
  <2> QED BY <2>3, <2>4, <2>5 DEF ClustersInv
<1>3. CASE PatchFile
  BY <1>3, ClustersPatchFile
<1>4. CASE PatchShift
  <2>1. /\ todo # <<>> /\ todo' = Tail(todo) /\ stage = "files"
        /\ UNCHANGED <<stage, commonFs, defaultFs, dip>>
    BY <1>4, PatchShiftIs
  <2>2. \A i \in 1..Len(Tail(todo)) : Tail(todo)[i] = todo[i + 1] /\ i + 1 \in 1..Len(todo)
    BY <2>1 DEF ShapeInv
  <2>3. ToSet(Tail(todo)) \subseteq ToSet(todo)
    BY <2>1, <2>2 DEF ToSet, ShapeInv
  <2>4. UsedBy(todo') \subseteq UsedBy(todo)
    BY <2>1, <2>3 DEF UsedBy
  <2> QED BY <2>1, <2>4 DEF ClustersInv
<1>5. CASE Launch \/ (\E p \in Partitions : OpenPartition(p)) \/ ClosePartition
  BY <1>5, GameIs DEF ClustersInv
<1>6. CASE UNCHANGED vars
  BY <1>6 DEF vars, ClustersInv
<1> QED BY <1>1, <1>2, <1>3, <1>4, <1>5, <1>6 DEF Next

(* A file is kept by identifier only on the filesystem that the patches have in
   common, on every disc whose files end below 4 GiB: HighWord is the first
   offset at which SetShiftBase's fall-through reads something but zero. *)
THEOREM ClustersOnCommon ==
  ASSUME BelowHighWord
  PROVE  Spec => []ClustersOnCommonFilesystem
<1>1. Init => ClustersInv
  BY DEF Init, ClustersInv
<1>2. ShapeInv /\ ClustersInv /\ [Next]_vars => ClustersInv'
  BY ClustersNext
<1>3. ShapeInv /\ ClustersInv => ClustersOnCommonFilesystem
  <2> SUFFICES ASSUME ShapeInv, ClustersInv, NEW i \in 1..Len(dip.files), dip.files[i].byId
               PROVE  commonFs = FileSystemOf[dip.files[i].file]
    <3>1. ShapeInv => dip.files \in Seq(FileEntries)
      BY DEF ShapeInv, Tables
    <3>2. ShapeInv => DOMAIN dip.files = 1..Len(dip.files)
      BY <3>1
    <3> QED BY <3>2 DEF ClustersOnCommonFilesystem
  <2>1. stage \in {"files", "game"}
    <3>1. dip.files # <<>>
      OBVIOUS
    <3> QED BY <3>1 DEF ShapeInv, ClustersInv
  <2> QED BY <2>1 DEF ClustersInv
<1> QED BY <1>1, <1>2, <1>3, ShapeInit, ShapeNext, PTL DEF Spec

-----------------------------------------------------------------------------
(* Rounding. *)
Aligned(a) == \E q \in Int : a = q * Align

(* Of Align numbers in a row only one is a multiple of Align. *)
LEMMA Multiples ==
  ASSUME NEW p \in Int, NEW q \in Int, NEW n \in Int,
         n <= p * Align, p * Align < n + Align, n <= q * Align, q * Align < n + Align
  PROVE  p = q
<1>1. Align \in Nat /\ Align > 0
  BY Constants
<1>2. ASSUME NEW i \in Int, NEW j \in Int, i < j PROVE i * Align + Align <= j * Align
  <2>1. i + 1 <= j /\ (i + 1) * Align = i * Align + Align
    BY <1>1, <1>2
  <2>2. (i + 1) * Align <= j * Align
    <3>1. (j - (i + 1)) * Align >= 0
      BY <1>1, <2>1
    <3>2. (j - (i + 1)) * Align = j * Align - (i + 1) * Align
      BY <1>1
    <3>3. j * Align \in Int /\ (i + 1) * Align \in Int
      BY <1>1
    <3> QED BY <3>1, <3>2, <3>3
  <2> QED BY <2>1, <2>2
<1>3. p * Align \in Int /\ q * Align \in Int
  BY <1>1
<1>4. ~(p < q)
  BY <1>1, <1>2, <1>3
<1>5. ~(q < p)
  BY <1>1, <1>2, <1>3
<1> QED BY <1>4, <1>5

(* RoundUp gives the first multiple from n on. *)
LEMMA RoundUpIs ==
  ASSUME NEW n \in Int
  PROVE  /\ RoundUp(n) \in Int /\ n <= RoundUp(n) /\ RoundUp(n) < n + Align
         /\ Aligned(RoundUp(n))
         /\ n \in Nat => RoundUp(n) \in Nat
<1> DEFINE y == n + Align - 1
           q == y \div Align
<1>1. Align \in Nat /\ Align > 0 /\ y \in Int
  BY Constants
<1>2. q \in Int /\ q * Align <= y /\ y < q * Align + Align
  <2> HIDE DEF y
  <2> QED BY <1>1
<1>3. RoundUp(n) = q * Align
  BY DEF RoundUp
<1> HIDE DEF q
<1>4. q * Align \in Int
  BY <1>1, <1>2
<1> QED BY <1>1, <1>2, <1>3, <1>4 DEF Aligned

(* There is no other. *)
LEMMA RoundUpOnce ==
  ASSUME NEW n \in Int, NEW a, Aligned(a), n <= a, a < n + Align
  PROVE  RoundUp(n) = a
<1>1. PICK p \in Int : a = p * Align
  BY DEF Aligned
<1>2. PICK q \in Int : RoundUp(n) = q * Align
  BY RoundUpIs DEF Aligned
<1>3. n <= q * Align /\ q * Align < n + Align
  BY <1>2, RoundUpIs
<1> QED BY <1>1, <1>2, <1>3, Multiples

(* From an aligned offset on. *)
LEMMA RoundUpFrom ==
  ASSUME NEW a \in Int, Aligned(a), NEW n \in Int
  PROVE  RoundUp(a + n) = a + RoundUp(n)
<1>1. PICK p \in Int : a = p * Align
  BY DEF Aligned
<1>2. PICK q \in Int : RoundUp(n) = q * Align
  BY RoundUpIs DEF Aligned
<1>3. a + RoundUp(n) = (p + q) * Align
  BY <1>1, <1>2, Constants
<1>4. Aligned(a + RoundUp(n))
  BY <1>3 DEF Aligned
<1>5. a + n <= a + RoundUp(n) /\ a + RoundUp(n) < a + n + Align
  BY RoundUpIs, Constants
<1> QED BY <1>4, <1>5, RoundUpOnce

(* Rounding keeps the order. *)
LEMMA RoundUpRises ==
  ASSUME NEW m \in Int, NEW n \in Int, m <= n
  PROVE  RoundUp(m) <= RoundUp(n)
<1>1. /\ RoundUp(m) \in Int /\ RoundUp(n) \in Int /\ Align \in Int
      /\ m <= RoundUp(m) /\ RoundUp(m) < m + Align /\ n <= RoundUp(n)
  BY RoundUpIs, Constants
<1>2. CASE RoundUp(n) < m + Align
  <2>1. Aligned(RoundUp(n)) /\ m <= RoundUp(n)
    BY <1>1, RoundUpIs
  <2>2. RoundUp(m) = RoundUp(n)
    BY <1>2, <2>1, RoundUpOnce
  <2> QED BY <1>1, <2>2
<1>3. CASE RoundUp(n) >= m + Align
  BY <1>1, <1>3
<1> QED BY <1>1, <1>2, <1>3

(* Offsets that are whole words are kept as they are. *)
Whole(a) == \E m \in Int : a = m * WordSize

LEMMA InWordsWhole ==
  ASSUME NEW a \in Int, Whole(a)
  PROVE  InWords(a) = a
<1>1. PICK m \in Int : a = m * WordSize
  BY DEF Whole
<1>2. WordSize \in Int /\ WordSize > 0
  BY Constants
<1> DEFINE d == a \div WordSize
<1>3. d \in Int /\ d * WordSize <= a /\ a < d * WordSize + WordSize
  BY <1>2
<1> HIDE DEF d
<1>4. ASSUME NEW i \in Int, NEW j \in Int, i < j PROVE i * WordSize + WordSize <= j * WordSize
  <2>1. (j - (i + 1)) * WordSize >= 0
    BY <1>2, <1>4
  <2>2. (j - (i + 1)) * WordSize = j * WordSize - (i * WordSize + WordSize)
    BY <1>2
  <2>3. j * WordSize \in Int /\ i * WordSize \in Int
    BY <1>2
  <2> QED BY <1>2, <2>1, <2>2, <2>3
<1>5. m * WordSize \in Int /\ d * WordSize \in Int
  BY <1>2, <1>3
<1>6. ~(m < d)
  BY <1>1, <1>2, <1>3, <1>4, <1>5
<1>7. ~(d < m)
  BY <1>1, <1>2, <1>3, <1>4, <1>5
<1>8. d = m
  BY <1>3, <1>6, <1>7
<1> QED BY <1>1, <1>8 DEF InWords, d

(* Numbers that leave no rest are, and sums of those that are. *)
LEMMA WholeIs ==
  ASSUME NEW a \in Int, a % WordSize = 0
  PROVE  Whole(a)
<1>1. WordSize \in Int /\ WordSize > 0
  BY Constants
<1>2. a = (a \div WordSize) * WordSize + (a % WordSize) /\ a \div WordSize \in Int
  BY <1>1
<1>3. a = (a \div WordSize) * WordSize
  BY <1>1, <1>2
<1> QED BY <1>2, <1>3 DEF Whole

LEMMA WholeSum ==
  ASSUME NEW a \in Int, NEW b \in Int, Whole(a), Whole(b)
  PROVE  Whole(a + b)
<1>1. PICK m \in Int : a = m * WordSize
  BY DEF Whole
<1>2. PICK n \in Int : b = n * WordSize
  BY DEF Whole
<1>3. a + b = (m + n) * WordSize /\ m + n \in Int
  BY <1>1, <1>2, Constants
<1> QED BY <1>3 DEF Whole

(* So are the offsets that files move to. *)
LEMMA WholeAligned ==
  ASSUME NEW a \in Int, Aligned(a)
  PROVE  Whole(a)
<1>1. PICK q \in Int : a = q * Align
  BY DEF Aligned
<1>2. PICK m \in Int : Align = m * WordSize
  BY Constants, WholeIs DEF Whole
<1>3. a = (q * m) * WordSize /\ q * m \in Int
  BY <1>1, <1>2, Constants
<1> QED BY <1>3 DEF Whole

(* The moved files begin behind the disc's last one. *)
LEMMA BaseIs ==
  Base \in Nat /\ DiscEnd(Disc) \in Nat /\ DiscEnd(Disc) <= Base /\ Aligned(Base)
BY DiscEndIs, RoundUpIs DEF Base
-----------------------------------------------------------------------------
(* A file whose length is asked for is at least as long as the place in it
   that the element's data begins at. *)
OffsetsInFiles ==
  \A e \in Elements : IsFileElement(e) /\ e.length = 0 /\ ~e.stat => e.fileoffset <= FileSize[e.external]

(* Sizes and offsets are no less than zero, and the files that move go behind
   the disc's. *)
SizesInv ==
  /\ \A n \in Names : fst[n] = Absent \/ fst[n].offset >= 0
  /\ \A n \in Names : fst[n].size >= 0
  /\ shift >= 0 /\ (stage # "menu" => shift >= Base)

(* The numbers of an element that is patched. *)
LEMMA SizesOf ==
  ASSUME OffsetsInFiles, ShapeInv, SizesInv, NEW e \in FileElements, e \in Elements
  PROVE  /\ e.disc \in Names /\ e.offset \in Nat /\ e.length \in Nat /\ LengthOf(e) \in Nat
         /\ shift \in Nat /\ fst[e.disc] \in [offset : Int, size : Int]
         /\ NodeOf(e).offset \in Nat /\ NodeOf(e).size \in Nat
         /\ NextOf(e) \in Nat /\ shift <= NextOf(e)
         /\ SizeOf(e) \in Nat /\ PlaceOf(e) \in Nat
<1>1. LengthOf(e) \in Nat
  <2>1. CASE e.length = 0 /\ ~e.stat
    <3>1. e.fileoffset <= FileSize[e.external] /\ e.fileoffset \in Nat /\ FileSize[e.external] \in Nat
      BY <2>1, Constants DEF OffsetsInFiles, IsFileElement, FileElements
    <3> QED BY <2>1, <3>1 DEF LengthOf
  <2>2. CASE ~(e.length = 0 /\ ~e.stat)
    BY <2>2 DEF LengthOf, FileElements
  <2> QED BY <2>1, <2>2
<1>2. e.disc \in Names /\ e.offset \in Nat /\ e.length \in Nat
  BY DEF FileElements
<1>3. shift \in Nat /\ fst[e.disc] \in [offset : Int, size : Int]
  BY <1>2 DEF SizesInv, ShapeInv
<1>4. NodeOf(e).offset \in Nat /\ NodeOf(e).size \in Nat
  BY <1>2, <1>3 DEF SizesInv, NodeOf, Created
<1>5. NextOf(e) \in Nat /\ shift <= NextOf(e)
  <2>1. shift + e.length \in Int /\ shift <= shift + e.length
    BY <1>2, <1>3
  <2>2. RoundUp(shift + e.length) \in Int /\ shift <= RoundUp(shift + e.length)
    BY <1>3, <2>1, RoundUpIs
  <2> QED BY <1>3, <2>2 DEF NextOf, AfterCreate
<1>6. SizeOf(e) \in Nat /\ PlaceOf(e) \in Nat
  BY <1>1, <1>2, <1>4, <1>5 DEF SizeOf, PlaceOf
<1> QED BY <1>1, <1>2, <1>3, <1>4, <1>5, <1>6

(* No element makes a size negative or moves the next offset back. *)
LEMMA SizesPatchFile ==
  ASSUME OffsetsInFiles, ShapeInv, SizesInv, PatchFile
  PROVE  SizesInv' /\ shift <= shift'
<1> DEFINE e == Head(todo)
<1>1. /\ e \in FileElements /\ stage = "files" /\ todo # <<>> /\ stage' = stage
      /\ Skipped(e) \/ GivenUp(e) \/ Patched(e)
  BY PatchFileIs
<1>2. e \in Elements
  BY <1>1, NextElement
<1> HIDE DEF e
<1>3. /\ e.disc \in Names /\ shift \in Nat
      /\ NodeOf(e).offset \in Nat /\ NodeOf(e).size \in Nat
      /\ NextOf(e) \in Nat /\ shift <= NextOf(e)
      /\ SizeOf(e) \in Nat /\ PlaceOf(e) \in Nat
  BY <1>1, <1>2, SizesOf
<1>4. CASE Skipped(e)
  BY <1>1, <1>3, <1>4 DEF Skipped, SizesInv
<1>5. CASE GivenUp(e)
  <2>1. fst' = [fst EXCEPT ![e.disc] = NodeOf(e)] /\ shift' = NextOf(e)
    BY <1>5 DEF GivenUp
  <2>2. \A n \in Names : fst'[n] = IF n = e.disc THEN NodeOf(e) ELSE fst[n]
    BY <2>1 DEF ShapeInv
  <2> QED BY <1>1, <1>3, <2>1, <2>2, BaseIs DEF SizesInv
<1>6. CASE Patched(e)
  <2>1. /\ fst' = [fst EXCEPT ![e.disc] = NewNode(e)]
        /\ shift' = IF Moves(e) THEN RoundUp(NextOf(e) + SizeOf(e)) ELSE NextOf(e)
    BY <1>6 DEF Patched
  <2>2. \A n \in Names : fst'[n] = IF n = e.disc THEN NewNode(e) ELSE fst[n]
    BY <2>1 DEF ShapeInv
  <2>3. NextOf(e) + SizeOf(e) \in Int /\ NextOf(e) <= NextOf(e) + SizeOf(e)
    BY <1>3
  <2>4. RoundUp(NextOf(e) + SizeOf(e)) \in Int /\ NextOf(e) <= RoundUp(NextOf(e) + SizeOf(e))
    BY <1>3, <2>3, RoundUpIs
  <2>5. NextOf(e) <= shift' /\ shift' \in Int
    BY <1>3, <2>1, <2>4
  <2>6. shift <= shift' /\ (stage # "menu" => shift' >= Base)
    BY <1>3, <2>5, BaseIs DEF SizesInv
  <2>7. NewNode(e).offset >= 0 /\ NewNode(e).size >= 0
    BY <1>3 DEF NewNode
  <2> QED BY <1>1, <1>3, <2>2, <2>5, <2>6, <2>7 DEF SizesInv
<1> QED BY <1>1, <1>4, <1>5, <1>6

(* Nor does any other step. *)
LEMMA SizesNext ==
  ASSUME OffsetsInFiles, ShapeInv, SizesInv, [Next]_vars
  PROVE  SizesInv'
<1>1. CASE SetFST
  BY <1>1, SetFSTIs, BaseIs DEF SizesInv
<1>2. CASE FindCommonFilesystem
  BY <1>2, FindCommonIs DEF SizesInv
<1>3. CASE PatchFile
  BY <1>3, SizesPatchFile
<1>4. CASE PatchShift
  BY <1>4, PatchShiftIs DEF SizesInv, ShapeInv, ShiftElements
<1>5. CASE Launch \/ (\E p \in Partitions : OpenPartition(p)) \/ ClosePartition
  BY <1>5, GameIs DEF SizesInv
<1>6. CASE UNCHANGED vars
  BY <1>6 DEF vars, SizesInv
<1> QED BY <1>1, <1>2, <1>3, <1>4, <1>5, <1>6 DEF Next

(* The disc's sizes and offsets are natural numbers. *)
LEMMA SizesInit == Init => SizesInv
<1> SUFFICES ASSUME Init PROVE SizesInv
  OBVIOUS
<1>1. \A n \in DOMAIN Disc : Disc[n].offset \in Nat /\ Disc[n].size \in Nat
  BY Constants
<1>2. \A n \in Names : fst[n] = IF n \in DOMAIN Disc THEN Disc[n] ELSE Absent
  BY DEF Init
<1> QED BY <1>1, <1>2 DEF Init, SizesInv, Absent

(* The file table, the next offset and the DIP module's tables keep their
   shape, every patch is of a file of the table, and what the launcher hands
   out lies behind the disc, for any disc and any patches whose data begin
   inside their files. *)
THEOREM PatchTyped ==
  ASSUME OffsetsInFiles
  PROVE  Spec => []TypeOK
<1>1. ShapeInv /\ SizesInv /\ [Next]_vars => SizesInv'
  BY SizesNext
<1>2. ShapeInv /\ SizesInv => TypeOK
  <2> SUFFICES ASSUME ShapeInv, SizesInv PROVE TypeOK
    OBVIOUS
  <2>1. fst \in [Names -> Node]
    <3>1. \A n \in Names : fst[n] \in [offset : Int, size : Int] /\ fst[n].size >= 0
      BY DEF ShapeInv, SizesInv
    <3>2. \A n \in Names : fst[n] \in Node
      BY <3>1 DEF Node
    <3> QED BY <3>2 DEF ShapeInv
  <2>2. shift \in Nat /\ (stage # "menu" => shift >= DiscEnd(Disc))
    BY BaseIs DEF ShapeInv, SizesInv
  <2>3. \A i \in DOMAIN dip.patches : dip.patches[i].file \in DOMAIN dip.files
    BY DEF ShapeInv, Tables
  <2>4. {dip.current, dip.patchPartition} \subseteq Partitions \union {Closed}
    BY DEF ShapeInv, Tables
  <2> QED BY <2>1, <2>2, <2>3, <2>4 DEF TypeOK, ShapeInv
<1> QED BY <1>1, <1>2, ShapeInit, ShapeNext, SizesInit, PTL DEF Spec

-----------------------------------------------------------------------------
(* Where files lie. *)
There(n) == fst[n] # Absent
Apart(a, b) == a.offset + a.size <= b.offset \/ b.offset + b.size <= a.offset

(* Files of the disc do not overlap, and a read of one, rounded up, does not
   go past the rounded end of the last one. *)
LaidOut ==
  /\ \A n \in DOMAIN Disc : Disc[n].offset + RoundUp(Disc[n].size) <= Base
  /\ \A n, m \in DOMAIN Disc : Disc[n].offset = Disc[m].offset \/ Apart(Disc[n], Disc[m])

(* An element begins at a word within the file it patches or at its end, one
   that leaves the size of the file alone ends within it, and its external
   file, if it exists, holds the data. *)
Fits ==
  stage = "files" /\ todo # <<>> /\ IsFileElement(Head(todo)) =>
    LET e == Head(todo)
    IN  There(e.disc) \/ e.create =>
          /\ e.offset % WordSize = 0 /\ e.offset <= NodeOf(e).size
          /\ ~e.resize => e.offset + LengthOf(e) <= NodeOf(e).size
          /\ e.external \in Present => LengthOf(e) <= FileSize[e.external]

(* A node is where a file of the disc was, and no longer than that one, or
   behind the disc, and then below the next offset. *)
OnDisc(node) == \E m \in DOMAIN Disc : node.offset = Disc[m].offset /\ node.size <= Disc[m].size
PlacedBy(node, end) ==
  node.offset >= Base /\ Aligned(node.offset) /\ node.offset + RoundUp(node.size) <= end
Placed(node, end) == IF node.offset < Base THEN OnDisc(node) ELSE PlacedBy(node, end)

NodesInv ==
  /\ Aligned(shift)
  /\ stage # "menu" => dip.shiftBase = Base
  /\ \A n \in Names : There(n) => IF stage = "menu" THEN OnDisc(fst[n]) ELSE Placed(fst[n], shift)
ApartInv ==
  \A n, m \in Names : There(n) /\ There(m) => fst[n].offset = fst[m].offset \/ Apart(fst[n], fst[m])

(* A shift is of the start of a place behind the disc; no place has two, and a
   rounded read of another place does not come near it. *)
ShiftBehind(s, end) == s.offset >= Base /\ s.length > 0 /\ s.offset + s.length <= end
ShiftClear(s, node) ==
  \/ node.offset = s.offset
  \/ s.offset + s.length <= node.offset
  \/ node.offset + RoundUp(node.size) <= s.offset
ShiftsInv ==
  /\ \A i \in 1..Len(dip.shifts) : ShiftBehind(dip.shifts[i], shift)
  /\ \A i, j \in 1..Len(dip.shifts) : dip.shifts[i].offset = dip.shifts[j].offset => i = j
  /\ \A i \in 1..Len(dip.shifts), n \in Names : There(n) => ShiftClear(dip.shifts[i], fst[n])

(* What of a file with a shift lies behind the shift is covered by patches. *)
Covers(p, x) == p.offset <= x /\ x < p.offset + p.length
Covered(x) == \E i \in 1..Len(dip.patches) : Covers(dip.patches[i], x)
CoversInv ==
  /\ \A i \in 1..Len(dip.patches) :
       dip.patches[i].length >= 0 /\ dip.patches[i].offset + dip.patches[i].length <= shift
  /\ \A i \in 1..Len(dip.shifts), n \in Names :
       There(n) /\ fst[n].offset = dip.shifts[i].offset =>
         \A x \in Int : dip.shifts[i].offset + dip.shifts[i].length <= x /\ x < fst[n].offset + fst[n].size
                          => Covered(x)

(* The external files that exist hold what the patches take from them. *)
SuppliedInv ==
  \A i \in 1..Len(dip.patches) :
    LET f == dip.files[dip.patches[i].file].file
    IN  f \in Present => dip.patches[i].length <= FileSize[f]

LayoutInv ==
  /\ ShapeInv /\ PartitionInv /\ SizesInv /\ NodesInv /\ ApartInv /\ ShiftsInv /\ CoversInv
  /\ SuppliedInv

(* A name gets a node that lies behind all there is, or one that lies where
   there is one and is no longer. *)
Fresh(node) ==
  node.offset >= shift /\ Aligned(node.offset) /\ node.offset + RoundUp(node.size) <= shift'
Like(node) ==
  \E m \in Names : There(m) /\ node.offset = fst[m].offset /\ node.size <= fst[m].size
NodeSet(n, node) ==
  /\ stage = "files" /\ stage' = stage
  /\ fst' = [fst EXCEPT ![n] = node]
  /\ Aligned(shift') /\ shift <= shift'
  /\ Fresh(node) \/ Like(node)
-----------------------------------------------------------------------------
(* Natural numbers, for those that are there. *)
LEMMA NodeIs ==
  ASSUME ShapeInv, SizesInv, NEW n \in Names
  PROVE  /\ fst[n] \in [offset : Int, size : Int] /\ fst[n].size \in Nat
         /\ There(n) => fst[n].offset \in Nat
         /\ fst[n].offset >= 0 => There(n)
BY DEF ShapeInv, SizesInv, There, Absent

(* A file, read to its rounded end, ends before the next offset, and one of
   the disc before the first one. *)
LEMMA NodeEnds ==
  ASSUME LaidOut, NEW node \in [offset : Nat, size : Nat], NEW end \in Int, Base <= end, Placed(node, end)
  PROVE  /\ node.offset + RoundUp(node.size) <= end /\ node.offset + node.size <= end
         /\ RoundUp(node.size) \in Nat /\ node.size <= RoundUp(node.size)
         /\ node.offset < Base => node.offset + RoundUp(node.size) <= Base
<1>1. /\ RoundUp(node.size) \in Nat /\ node.size <= RoundUp(node.size) /\ Base \in Nat
      /\ node.offset \in Nat /\ node.size \in Nat
  BY RoundUpIs, BaseIs
<1>2. CASE node.offset < Base
  <2>1. PICK m \in DOMAIN Disc : node.offset = Disc[m].offset /\ node.size <= Disc[m].size
    BY <1>2 DEF Placed, OnDisc
  <2>2. Disc[m].offset \in Nat /\ Disc[m].size \in Nat /\ Disc[m].offset + RoundUp(Disc[m].size) <= Base
    BY Constants DEF LaidOut
  <2>3. RoundUp(Disc[m].size) \in Nat /\ RoundUp(node.size) <= RoundUp(Disc[m].size)
    BY <1>1, <2>1, <2>2, RoundUpIs, RoundUpRises
  <2>4. node.offset + RoundUp(node.size) <= Base
    BY <1>1, <2>1, <2>2, <2>3
  <2> QED BY <1>1, <2>4
<1>3. CASE node.offset >= Base
  <2>1. node.offset + RoundUp(node.size) <= end
    BY <1>1, <1>3 DEF Placed, PlacedBy
  <2> QED BY <1>1, <1>3, <2>1
<1> QED BY <1>1, <1>2, <1>3

(* Once the next offset is known, all nodes end before it. *)
LEMMA NodesEnd ==
  ASSUME LaidOut, ShapeInv, SizesInv, NodesInv, stage # "menu", NEW n \in Names, There(n)
  PROVE  /\ fst[n].offset \in Nat /\ fst[n].size \in Nat /\ shift \in Nat /\ Base \in Nat /\ Base <= shift
         /\ RoundUp(fst[n].size) \in Nat /\ fst[n].size <= RoundUp(fst[n].size)
         /\ fst[n].offset + RoundUp(fst[n].size) <= shift /\ fst[n].offset + fst[n].size <= shift
         /\ fst[n].offset < Base => fst[n].offset + RoundUp(fst[n].size) <= Base
<1>1. fst[n] \in [offset : Nat, size : Nat]
  <2>1. fst[n] \in [offset : Int, size : Int] /\ fst[n].size \in Nat /\ fst[n].offset \in Nat
    BY NodeIs
  <2> QED BY <2>1
<1>2. shift \in Nat /\ Base \in Nat /\ Base <= shift
  BY BaseIs DEF ShapeInv, SizesInv
<1>3. Placed(fst[n], shift)
  BY DEF NodesInv
<1> QED BY <1>1, <1>2, <1>3, NodeEnds

(* The node that a name gets is placed, and ends before the next offset. *)
LEMMA SetPlaced ==
  ASSUME LaidOut, ShapeInv, SizesInv, NodesInv, shift' \in Int,
         NEW n \in Names, NEW node \in [offset : Nat, size : Nat], NodeSet(n, node)
  PROVE  Placed(node, shift') /\ \A m \in Names : There(m) => Placed(fst[m], shift')
<1>1. /\ stage # "menu" /\ shift \in Nat /\ Base \in Nat /\ Base <= shift /\ shift <= shift'
  BY BaseIs DEF NodeSet, SizesInv, ShapeInv
<1>2. ASSUME NEW m \in Names, There(m) PROVE Placed(fst[m], shift')
  <2>1. Placed(fst[m], shift)
    BY <1>1, <1>2 DEF NodesInv
  <2>2. fst[m].offset \in Nat /\ fst[m].offset + RoundUp(fst[m].size) <= shift /\ RoundUp(fst[m].size) \in Nat
    BY <1>1, <1>2, NodesEnd
  <2> QED BY <1>1, <2>1, <2>2 DEF Placed, PlacedBy
<1>3. CASE Fresh(node)
  <2>1. node.offset >= shift /\ Aligned(node.offset) /\ node.offset + RoundUp(node.size) <= shift'
    BY <1>3 DEF Fresh
  <2> QED BY <1>1, <1>2, <2>1 DEF Placed, PlacedBy
<1>4. CASE Like(node)
  <2>1. PICK m \in Names : There(m) /\ node.offset = fst[m].offset /\ node.size <= fst[m].size
    BY <1>4 DEF Like
  <2>2. Placed(fst[m], shift') /\ fst[m].size \in Nat
    BY <1>1, <1>2, <2>1, NodesEnd
  <2>3. /\ RoundUp(node.size) \in Nat /\ RoundUp(fst[m].size) \in Nat
        /\ RoundUp(node.size) <= RoundUp(fst[m].size)
    BY <2>1, <2>2, RoundUpIs, RoundUpRises
  <2>4. CASE node.offset < Base
    <3>1. PICK d \in DOMAIN Disc : fst[m].offset = Disc[d].offset /\ fst[m].size <= Disc[d].size
      BY <2>1, <2>2, <2>4 DEF Placed, OnDisc
    <3>2. Disc[d].size \in Nat
      BY Constants
    <3>3. node.offset = Disc[d].offset /\ node.size <= Disc[d].size
      BY <2>1, <2>2, <3>1, <3>2
    <3>4. Placed(node, shift')
      BY <2>4, <3>3 DEF Placed, OnDisc
    <3> QED BY <1>2, <3>4
  <2>5. CASE ~(node.offset < Base)
    <3>1. Aligned(fst[m].offset) /\ fst[m].offset >= Base /\ fst[m].offset + RoundUp(fst[m].size) <= shift'
      BY <2>1, <2>2, <2>5 DEF Placed, PlacedBy
    <3>2. node.offset + RoundUp(node.size) <= shift'
      BY <1>1, <2>1, <2>3, <3>1
    <3>3. Placed(node, shift')
      BY <2>1, <2>5, <3>1, <3>2 DEF Placed, PlacedBy
    <3> QED BY <1>2, <3>3
  <2> QED BY <1>2, <2>4, <2>5
<1> QED BY <1>2, <1>3, <1>4 DEF NodeSet

(* Nodes stay placed. *)
LEMMA NodesSet ==
  ASSUME LaidOut, ShapeInv, SizesInv, NodesInv, shift' \in Int, dip'.shiftBase = dip.shiftBase,
         NEW n \in Names, NEW node \in [offset : Nat, size : Nat], NodeSet(n, node)
  PROVE  NodesInv'
<1>1. \A m \in Names : fst'[m] = IF m = n THEN node ELSE fst[m]
  BY DEF NodeSet, ShapeInv
<1>2. \A m \in Names : There(m)' => Placed(fst'[m], shift')
  BY <1>1, SetPlaced DEF There
<1>3. \A nd, end : Placed(nd, end)' = Placed(nd, end)
  BY DEF Placed, OnDisc, PlacedBy, Base
<1>4. Aligned(shift') /\ stage' # "menu" /\ dip'.shiftBase = Base
  BY DEF NodeSet, NodesInv
<1> QED BY <1>2, <1>4 DEF NodesInv, There, Placed, OnDisc, PlacedBy

(* Nodes stay apart. *)
LEMMA ApartSet ==
  ASSUME LaidOut, ShapeInv, SizesInv, NodesInv, ApartInv,
         NEW n \in Names, NEW node \in [offset : Nat, size : Nat], NodeSet(n, node)
  PROVE  ApartInv'
<1>1. \A m \in Names : fst'[m] = IF m = n THEN node ELSE fst[m]
  BY DEF NodeSet, ShapeInv
<1>2. stage # "menu"
  BY DEF NodeSet
<1>3. ASSUME NEW m \in Names, There(m)
      PROVE  node.offset = fst[m].offset \/ (Apart(node, fst[m]) /\ Apart(fst[m], node))
  <2>1. /\ fst[m].offset \in Nat /\ fst[m].size \in Nat /\ shift \in Nat
        /\ fst[m].offset + fst[m].size <= shift
    BY <1>2, <1>3, NodesEnd
  <2>2. CASE Fresh(node)
    BY <2>1, <2>2 DEF Fresh, Apart
  <2>3. CASE Like(node)
    <3>1. PICK k \in Names : There(k) /\ node.offset = fst[k].offset /\ node.size <= fst[k].size
      BY <2>3 DEF Like
    <3>2. fst[k].size \in Nat /\ fst[k].offset \in Nat
      BY <1>2, <3>1, NodesEnd
    <3>3. fst[k].offset = fst[m].offset \/ Apart(fst[k], fst[m])
      BY <1>3, <3>1 DEF ApartInv
    <3> QED BY <2>1, <3>1, <3>2, <3>3 DEF Apart
  <2> QED BY <2>2, <2>3 DEF NodeSet
<1>4. ASSUME NEW a \in Names, NEW b \in Names, There(a)', There(b)'
      PROVE  fst'[a].offset = fst'[b].offset \/ Apart(fst'[a], fst'[b])
  <2>1. a # n => There(a) /\ fst'[a] = fst[a]
    BY <1>1, <1>4 DEF There
  <2>2. b # n => There(b) /\ fst'[b] = fst[b]
    BY <1>1, <1>4 DEF There
  <2>3. CASE a = n /\ b = n
    BY <2>3
  <2>4. CASE a = n /\ b # n
    BY <1>1, <1>3, <2>2, <2>4
  <2>5. CASE a # n /\ b = n
    BY <1>1, <1>3, <2>1, <2>5
  <2>6. CASE a # n /\ b # n
    BY <2>1, <2>2, <2>6 DEF ApartInv
  <2> QED BY <2>3, <2>4, <2>5, <2>6
<1> QED BY <1>4 DEF ApartInv, Apart, There

(* The shifts there are: still behind the disc, and clear of every node. *)
LEMMA ShiftsClear ==
  ASSUME LaidOut, ShapeInv, SizesInv, NodesInv, ShiftsInv, shift' \in Int,
         NEW n \in Names, NEW node \in [offset : Nat, size : Nat], NodeSet(n, node),
         NEW i \in 1..Len(dip.shifts)
  PROVE  /\ dip.shifts[i] \in ShiftEntries /\ dip.shifts[i].offset < shift
         /\ ShiftBehind(dip.shifts[i], shift')
         /\ ShiftClear(dip.shifts[i], node)
         /\ \A m \in Names : There(m)' => ShiftClear(dip.shifts[i], fst'[m])
<1> DEFINE s == dip.shifts[i]
<1>1. s \in ShiftEntries
  BY DEF ShapeInv, Tables
<1>2. /\ ShiftBehind(s, shift)
      /\ \A m \in Names : There(m) => ShiftClear(s, fst[m])
  BY DEF ShiftsInv
<1> HIDE DEF s
<1>3. shift \in Nat /\ Base \in Nat /\ shift <= shift' /\ stage # "menu"
  BY BaseIs DEF ShapeInv, SizesInv, NodeSet
<1>4. s.offset \in Int /\ s.length \in Int /\ s.offset >= Base /\ s.length > 0 /\ s.offset + s.length <= shift
  BY <1>1, <1>2 DEF ShiftBehind, ShiftEntries
<1>5. s.offset < shift /\ s.offset + s.length <= shift'
  BY <1>3, <1>4
<1>6. s.offset >= Base /\ s.length > 0 /\ s.offset + s.length <= shift'
  BY <1>4, <1>5
<1>7. ShiftClear(s, node)
  <2>1. CASE Fresh(node)
    BY <1>3, <1>4, <2>1 DEF Fresh, ShiftClear
  <2>2. CASE Like(node)
    <3>1. PICK m \in Names : There(m) /\ node.offset = fst[m].offset /\ node.size <= fst[m].size
      BY <2>2 DEF Like
    <3>2. ShiftClear(s, fst[m]) /\ fst[m].size \in Nat /\ RoundUp(fst[m].size) \in Nat
      BY <1>2, <1>3, <3>1, NodesEnd
    <3>3. RoundUp(node.size) \in Nat /\ RoundUp(node.size) <= RoundUp(fst[m].size)
      BY <3>1, <3>2, RoundUpIs, RoundUpRises
    <3> QED BY <1>4, <3>1, <3>2, <3>3 DEF ShiftClear
  <2> QED BY <2>1, <2>2 DEF NodeSet
<1>8. \A m \in Names : fst'[m] = IF m = n THEN node ELSE fst[m]
  BY DEF NodeSet, ShapeInv
<1>9. ASSUME NEW m \in Names, There(m)' PROVE ShiftClear(s, fst'[m])
  <2>1. CASE m = n
    BY <1>7, <1>8, <2>1
  <2>2. CASE m # n
    <3>1. fst'[m] = fst[m] /\ There(m)
      BY <1>8, <1>9, <2>2 DEF There
    <3> QED BY <1>2, <3>1
  <2> QED BY <2>1, <2>2
<1>10. ShiftBehind(s, shift')
  BY <1>6 DEF ShiftBehind
<1> QED BY <1>1, <1>2, <1>5, <1>7, <1>9, <1>10 DEF s

(* With no shift more. *)
LEMMA ShiftsKept ==
  ASSUME LaidOut, ShapeInv, SizesInv, NodesInv, ShiftsInv, shift' \in Int, dip'.shifts = dip.shifts,
         NEW n \in Names, NEW node \in [offset : Nat, size : Nat], NodeSet(n, node)
  PROVE  ShiftsInv'
<1>1. \A i \in 1..Len(dip.shifts) : ShiftBehind(dip.shifts[i], shift')
  BY ShiftsClear
<1>2. \A i \in 1..Len(dip.shifts), m \in Names : There(m)' => ShiftClear(dip.shifts[i], fst'[m])
  BY ShiftsClear
<1>3. \A s, end : ShiftBehind(s, end)' = ShiftBehind(s, end)
  BY DEF ShiftBehind, Base
<1> QED BY <1>1, <1>2 DEF ShiftsInv, ShiftBehind, ShiftClear

(* With a shift of the start of a fresh place. *)
LEMMA ShiftAdded ==
  ASSUME LaidOut, ShapeInv, SizesInv, NodesInv, ShiftsInv, shift' \in Int,
         NEW n \in Names, NEW node \in [offset : Nat, size : Nat], NodeSet(n, node), Fresh(node),
         NEW s \in ShiftEntries, dip'.shifts = Append(dip.shifts, s),
         s.offset = node.offset, s.length > 0, s.offset + s.length <= shift'
  PROVE  ShiftsInv'
<1>1. /\ dip.shifts \in Seq(ShiftEntries) /\ Len(dip'.shifts) = Len(dip.shifts) + 1
      /\ \A i \in 1..Len(dip.shifts) : dip'.shifts[i] = dip.shifts[i]
      /\ dip'.shifts[Len(dip.shifts) + 1] = s /\ Len(dip.shifts) \in Nat
  BY DEF ShapeInv, Tables
<1>2. /\ shift \in Nat /\ Base \in Nat /\ Base <= shift /\ stage # "menu" /\ s.offset >= shift
      /\ s.offset \in Int /\ s.length \in Int
  BY BaseIs DEF ShapeInv, SizesInv, NodeSet, Fresh, ShiftEntries
<1>3. \A i \in 1..Len(dip.shifts) :
        /\ ShiftBehind(dip.shifts[i], shift') /\ dip.shifts[i].offset < shift
        /\ dip.shifts[i].offset \in Int
        /\ \A m \in Names : There(m)' => ShiftClear(dip.shifts[i], fst'[m])
  BY ShiftsClear DEF ShiftEntries
<1>4. ShiftBehind(s, shift')
  BY <1>2 DEF ShiftBehind
<1>5. ASSUME NEW m \in Names, There(m)' PROVE ShiftClear(s, fst'[m])
  <2>1. fst'[m] = IF m = n THEN node ELSE fst[m]
    BY DEF NodeSet, ShapeInv
  <2>2. CASE m = n
    BY <2>1, <2>2 DEF ShiftClear
  <2>3. CASE m # n
    <3>1. fst'[m] = fst[m] /\ There(m)
      BY <1>5, <2>1, <2>3 DEF There
    <3>2. fst[m].offset + RoundUp(fst[m].size) <= shift /\ fst[m].offset \in Nat /\ RoundUp(fst[m].size) \in Nat
      BY <1>2, <3>1, NodesEnd
    <3> QED BY <1>2, <3>1, <3>2 DEF ShiftClear
  <2> QED BY <2>2, <2>3
<1>6. ASSUME NEW i \in 1..Len(dip'.shifts)
      PROVE  /\ ShiftBehind(dip'.shifts[i], shift')
             /\ \A m \in Names : There(m)' => ShiftClear(dip'.shifts[i], fst'[m])
  <2>1. CASE i \in 1..Len(dip.shifts)
    BY <1>1, <1>3, <2>1
  <2>2. CASE i = Len(dip.shifts) + 1
    BY <1>1, <1>4, <1>5, <2>2
  <2> QED BY <1>1, <2>1, <2>2
<1>7. ASSUME NEW i \in 1..Len(dip'.shifts), NEW j \in 1..Len(dip'.shifts),
             dip'.shifts[i].offset = dip'.shifts[j].offset
      PROVE  i = j
  <2>1. CASE i \in 1..Len(dip.shifts) /\ j \in 1..Len(dip.shifts)
    BY <1>1, <1>7, <2>1 DEF ShiftsInv
  <2>2. CASE i \in 1..Len(dip.shifts) /\ j = Len(dip.shifts) + 1
    <3>1. dip.shifts[i].offset < shift /\ dip.shifts[i].offset \in Int /\ dip.shifts[i].offset = s.offset
      BY <1>1, <1>3, <1>7, <2>2
    <3> QED BY <1>2, <3>1
  <2>3. CASE j \in 1..Len(dip.shifts) /\ i = Len(dip.shifts) + 1
    <3>1. dip.shifts[j].offset < shift /\ dip.shifts[j].offset \in Int /\ dip.shifts[j].offset = s.offset
      BY <1>1, <1>3, <1>7, <2>3
    <3> QED BY <1>2, <3>1
  <2> QED BY <1>1, <2>1, <2>2, <2>3
<1> QED BY <1>6, <1>7 DEF ShiftsInv, ShiftBehind, ShiftClear

(* A patch more takes no cover away and covers what it is over. *)
LEMMA PatchMore ==
  ASSUME ShapeInv, NEW p \in PatchEntries, dip'.patches = Append(dip.patches, p)
  PROVE  /\ Len(dip.patches) \in Nat /\ Len(dip'.patches) = Len(dip.patches) + 1
         /\ \A i \in 1..Len(dip.patches) : dip'.patches[i] = dip.patches[i]
         /\ dip'.patches[Len(dip.patches) + 1] = p
         /\ \A x : Covered(x) \/ Covers(p, x) => Covered(x)'
<1>1. /\ Len(dip.patches) \in Nat /\ Len(dip'.patches) = Len(dip.patches) + 1
      /\ \A i \in 1..Len(dip.patches) : dip'.patches[i] = dip.patches[i]
      /\ dip'.patches[Len(dip.patches) + 1] = p
  BY DEF ShapeInv, Tables
<1>2. /\ \A i \in 1..Len(dip.patches) : i \in 1..Len(dip'.patches)
      /\ Len(dip.patches) + 1 \in 1..Len(dip'.patches)
  BY <1>1
<1>3. \A x : Covered(x) \/ Covers(p, x) => \E i \in 1..Len(dip'.patches) : Covers(dip'.patches[i], x)
  BY <1>1, <1>2 DEF Covered
<1>4. \A x : (\E i \in 1..Len(dip'.patches) : Covers(dip'.patches[i], x)) => Covered(x)'
  BY DEF Covered, Covers
<1> QED BY <1>1, <1>3, <1>4

(* What shifts leave of a place is covered as before; a new shift has to be
   met by what covers its place. *)
LEMMA CoversSet ==
  ASSUME LaidOut, ShapeInv, SizesInv, NodesInv, ShiftsInv, CoversInv, shift' \in Int,
         NEW n \in Names, NEW node \in [offset : Nat, size : Nat], NodeSet(n, node),
         \A x \in Int : Covered(x) => Covered(x)',
         \A i \in 1..Len(dip'.patches) :
           dip'.patches[i].length >= 0 /\ dip'.patches[i].offset + dip'.patches[i].length <= shift',
         \A i \in 1..Len(dip'.shifts) :
           \/ i \in 1..Len(dip.shifts) /\ dip'.shifts[i] = dip.shifts[i]
           \/ /\ Fresh(node) /\ dip'.shifts[i].offset = node.offset
              /\ \A x \in Int : dip'.shifts[i].offset + dip'.shifts[i].length <= x /\ x < node.offset + node.size
                                  => Covered(x)'
  PROVE  CoversInv'
<1>1. \A m \in Names : fst'[m] = IF m = n THEN node ELSE fst[m]
  BY DEF NodeSet, ShapeInv
<1>2. stage # "menu" /\ shift \in Int
  BY DEF NodeSet, ShapeInv
<1>3. ASSUME NEW i \in 1..Len(dip'.shifts), NEW m \in Names, There(m)',
             fst'[m].offset = dip'.shifts[i].offset,
             NEW x \in Int, dip'.shifts[i].offset + dip'.shifts[i].length <= x,
             x < fst'[m].offset + fst'[m].size
      PROVE  Covered(x)'
  <2>1. CASE i \in 1..Len(dip.shifts) /\ dip'.shifts[i] = dip.shifts[i]
    <3>1. dip.shifts[i].offset < shift /\ dip.shifts[i].offset \in Int
      BY <2>1, ShiftsClear DEF ShiftEntries
    <3>2. \E k \in Names : There(k) /\ fst[k].offset = dip.shifts[i].offset /\ x < fst[k].offset + fst[k].size
      <4>1. CASE m # n
        BY <1>1, <1>3, <2>1, <4>1 DEF There
      <4>2. CASE m = n /\ Like(node)
        <5>1. PICK k \in Names : There(k) /\ node.offset = fst[k].offset /\ node.size <= fst[k].size
          BY <4>2 DEF Like
        <5>2. fst[k].size \in Nat /\ fst[k].offset \in Nat
          BY <1>2, <5>1, NodesEnd
        <5>3. x < fst[k].offset + fst[k].size
          BY <1>1, <1>3, <4>2, <5>1, <5>2
        <5> QED BY <1>1, <1>3, <2>1, <4>2, <5>1, <5>3
      <4>3. CASE m = n /\ Fresh(node)
        <5>1. node.offset >= shift /\ node.offset = dip.shifts[i].offset
          BY <1>1, <1>3, <2>1, <4>3 DEF Fresh
        <5> QED BY <1>2, <3>1, <5>1
      <4> QED BY <4>1, <4>2, <4>3 DEF NodeSet
    <3>3. Covered(x)
      BY <1>3, <2>1, <3>2 DEF CoversInv
    <3> QED BY <3>3
  <2>2. CASE /\ Fresh(node) /\ dip'.shifts[i].offset = node.offset
             /\ \A y \in Int : dip'.shifts[i].offset + dip'.shifts[i].length <= y /\ y < node.offset + node.size
                                 => Covered(y)'
    <3>1. CASE m = n
      BY <1>1, <1>3, <2>2, <3>1
    <3>2. CASE m # n
      <4>1. There(m) /\ fst'[m] = fst[m]
        BY <1>1, <1>3, <3>2 DEF There
      <4>2. fst[m].offset \in Nat /\ fst[m].size \in Nat /\ fst[m].offset + fst[m].size <= shift
        BY <1>2, <4>1, NodesEnd
      <4>3. node.offset >= shift /\ fst[m].offset = node.offset
        BY <1>3, <2>2, <4>1 DEF Fresh
      <4>4. fst[m].size = 0
        BY <1>2, <4>2, <4>3
      <4>5. dip'.shifts[i].offset + dip'.shifts[i].length <= x /\ x < node.offset + node.size
        BY <1>3, <2>2, <4>1, <4>2, <4>3, <4>4
      <4> QED BY <2>2, <4>5
    <3> QED BY <3>1, <3>2
  <2> QED BY <2>1, <2>2
<1> QED BY <1>3 DEF CoversInv, Covered, Covers, There

(* The offset after a node that is created, and the room it leaves. *)
LEMMA CreatedIs ==
  ASSUME OffsetsInFiles, ShapeInv, SizesInv, NodesInv, NEW e \in FileElements, e \in Elements
  PROVE  /\ Aligned(shift) /\ Aligned(NextOf(e)) /\ shift <= NextOf(e) /\ shift \in Nat /\ NextOf(e) \in Nat
         /\ ~There(e.disc) => /\ NodeOf(e) = [offset |-> shift, size |-> e.length]
                              /\ shift + RoundUp(e.length) = NextOf(e)
<1>1. /\ shift \in Nat /\ NextOf(e) \in Nat /\ shift <= NextOf(e) /\ e.length \in Nat
      /\ Aligned(shift)
  BY SizesOf DEF NodesInv
<1>2. RoundUp(shift + e.length) = shift + RoundUp(e.length) /\ Aligned(RoundUp(shift + e.length))
  <2>1. shift + e.length \in Int /\ e.length \in Int /\ shift \in Int
    BY <1>1
  <2> QED BY <1>1, <2>1, RoundUpFrom, RoundUpIs
<1> QED BY <1>1, <1>2 DEF NextOf, NodeOf, AfterCreate, Created, There

(* An element that is patched: where its file goes, and its patch in it. *)
LEMMA PatchedSets ==
  ASSUME LaidOut, OffsetsInFiles, ShapeInv, SizesInv, NodesInv, Fits, stage = "files", stage' = stage,
         todo # <<>>, NEW e \in FileElements, e \in Elements, e = Head(todo), Patched(e)
  PROVE  /\ NewNode(e) \in [offset : Nat, size : Nat] /\ shift' \in Int /\ NodeSet(e.disc, NewNode(e))
         /\ IF Moves(e) \/ ~There(e.disc) THEN Fresh(NewNode(e))
            ELSE PlaceOf(e) = fst[e.disc].offset /\ SizeOf(e) <= fst[e.disc].size
         /\ LengthOf(e) \in Nat /\ e.offset \in Nat /\ NodeOf(e).size \in Nat
         /\ PlaceOf(e) + e.offset + LengthOf(e) <= PlaceOf(e) + SizeOf(e)
         /\ PlaceOf(e) + SizeOf(e) <= shift' /\ shift <= shift'
         /\ e.offset <= NodeOf(e).size
         /\ Grows(e) => SizeOf(e) = e.offset + LengthOf(e) /\ NodeOf(e).size < SizeOf(e)
         /\ ~Moves(e) => SizeOf(e) <= NodeOf(e).size
<1>1. /\ e.disc \in Names /\ e.offset \in Nat /\ LengthOf(e) \in Nat
      /\ shift \in Nat /\ NodeOf(e).offset \in Nat /\ NodeOf(e).size \in Nat
      /\ NextOf(e) \in Nat /\ shift <= NextOf(e)
      /\ SizeOf(e) \in Nat /\ PlaceOf(e) \in Nat /\ e.resize \in BOOLEAN
  BY SizesOf DEF FileElements
<1>2. /\ e.offset <= NodeOf(e).size
      /\ ~e.resize => e.offset + LengthOf(e) <= NodeOf(e).size
  BY DEF Fits, Patched, There, IsFileElement, FileElements
<1>3. /\ fst' = [fst EXCEPT ![e.disc] = NewNode(e)]
      /\ shift' = IF Moves(e) THEN RoundUp(NextOf(e) + SizeOf(e)) ELSE NextOf(e)
  BY DEF Patched
<1>4. /\ Aligned(shift) /\ Aligned(NextOf(e))
      /\ ~There(e.disc) => /\ NodeOf(e) = [offset |-> shift, size |-> e.length]
                           /\ shift + RoundUp(e.length) = NextOf(e)
  BY CreatedIs
<1>5. /\ SizeOf(e) = IF e.resize THEN e.offset + LengthOf(e) ELSE NodeOf(e).size
      /\ Grows(e) <=> e.resize /\ e.offset + LengthOf(e) > NodeOf(e).size
      /\ ~Moves(e) => ~Grows(e)
  BY DEF SizeOf, Grows, Moves
<1>6. /\ e.offset + LengthOf(e) <= SizeOf(e)
      /\ Grows(e) => SizeOf(e) = e.offset + LengthOf(e) /\ NodeOf(e).size < SizeOf(e)
      /\ ~Moves(e) => SizeOf(e) <= NodeOf(e).size
  BY <1>1, <1>2, <1>5
<1>7. NewNode(e) \in [offset : Nat, size : Nat] /\ NewNode(e).offset = PlaceOf(e) /\ NewNode(e).size = SizeOf(e)
  BY <1>1 DEF NewNode
<1>8. Aligned(shift') /\ NextOf(e) <= shift' /\ shift' \in Int
  <2>1. CASE Moves(e)
    <3>1. NextOf(e) + SizeOf(e) \in Int /\ NextOf(e) <= NextOf(e) + SizeOf(e)
      BY <1>1
    <3>2. RoundUp(NextOf(e) + SizeOf(e)) \in Int /\ NextOf(e) <= RoundUp(NextOf(e) + SizeOf(e))
          /\ Aligned(RoundUp(NextOf(e) + SizeOf(e)))
      BY <1>1, <3>1, RoundUpIs
    <3> QED BY <1>3, <2>1, <3>2
  <2>2. CASE ~Moves(e)
    BY <1>1, <1>3, <1>4, <2>2
  <2> QED BY <2>1, <2>2
<1>9. CASE Moves(e)
  <2>1. PlaceOf(e) = NextOf(e)
    BY <1>9 DEF PlaceOf
  <2>2. PlaceOf(e) + RoundUp(SizeOf(e)) = shift'
    BY <1>1, <1>3, <1>4, <1>9, <2>1, RoundUpFrom
  <2>3. SizeOf(e) <= RoundUp(SizeOf(e)) /\ RoundUp(SizeOf(e)) \in Int
    BY <1>1, RoundUpIs
  <2>4. Fresh(NewNode(e))
    BY <1>1, <1>4, <1>7, <1>8, <2>1, <2>2, <2>3 DEF Fresh
  <2>5. NodeSet(e.disc, NewNode(e))
    BY <1>1, <1>3, <1>8, <2>4 DEF NodeSet
  <2> QED BY <1>1, <1>2, <1>6, <1>7, <1>8, <1>9, <2>1, <2>2, <2>3, <2>4, <2>5, SMTT(60)
<1>10. CASE ~Moves(e) /\ There(e.disc)
  <2>1. NodeOf(e) = fst[e.disc] /\ PlaceOf(e) = fst[e.disc].offset /\ SizeOf(e) <= fst[e.disc].size
    BY <1>6, <1>10 DEF NodeOf, PlaceOf, There
  <2>2. Like(NewNode(e))
    BY <1>1, <1>7, <1>10, <2>1 DEF Like
  <2>3. NodeSet(e.disc, NewNode(e))
    BY <1>1, <1>3, <1>8, <2>2 DEF NodeSet
  <2>4. fst[e.disc].offset + fst[e.disc].size <= shift /\ fst[e.disc].size \in Nat
    BY <1>1, <1>10, NodesEnd
  <2> QED BY <1>1, <1>2, <1>6, <1>7, <1>8, <1>10, <2>1, <2>3, <2>4, SMTT(60)
<1>11. CASE ~Moves(e) /\ ~There(e.disc)
  <2>1. PlaceOf(e) = shift /\ NodeOf(e).size = e.length /\ shift' = NextOf(e) /\ e.length \in Nat
    BY <1>3, <1>4, <1>11 DEF PlaceOf, FileElements
  <2>2. RoundUp(SizeOf(e)) <= RoundUp(e.length) /\ RoundUp(SizeOf(e)) \in Int /\ RoundUp(e.length) \in Int
        /\ SizeOf(e) <= RoundUp(SizeOf(e))
    <3>1. SizeOf(e) \in Int /\ e.length \in Int /\ SizeOf(e) <= e.length
      BY <1>1, <1>6, <1>11, <2>1
    <3> QED BY <3>1, RoundUpIs, RoundUpRises
  <2>3. PlaceOf(e) + RoundUp(SizeOf(e)) <= shift'
    BY <1>1, <1>4, <1>11, <2>1, <2>2
  <2>4. Fresh(NewNode(e))
    BY <1>1, <1>4, <1>7, <2>1, <2>3 DEF Fresh
  <2>5. NodeSet(e.disc, NewNode(e))
    BY <1>1, <1>3, <1>8, <2>4 DEF NodeSet
  <2> QED BY <1>1, <1>2, <1>6, <1>7, <1>8, <1>11, <2>1, <2>2, <2>3, <2>4, <2>5, SMTT(60)
<1> QED BY <1>9, <1>10, <1>11

(* The patch and the shift of an element that begins at a word lie where the
   launcher means them to. *)
LEMMA PatchWords ==
  ASSUME LaidOut, OffsetsInFiles, ShapeInv, SizesInv, NodesInv, Fits, stage = "files", stage' = stage,
         todo # <<>>, NEW e \in FileElements, e \in Elements, e = Head(todo), Patched(e)
  PROVE  /\ NewPatch(e).offset = PlaceOf(e) + e.offset /\ NewPatch(e).length = LengthOf(e)
         /\ NewShift(e).offset = PlaceOf(e) /\ NewShift(e).length = NodeOf(e).size
         /\ NewShift(e).original = NodeOf(e).offset
<1>1. /\ e.disc \in Names /\ e.offset \in Nat /\ shift \in Nat
      /\ NodeOf(e).offset \in Nat /\ NextOf(e) \in Nat /\ PlaceOf(e) \in Nat
  BY SizesOf
<1>2. Whole(e.offset)
  <2>1. e.offset % WordSize = 0
    BY DEF Fits, Patched, There, IsFileElement, FileElements
  <2> QED BY <1>1, <2>1, WholeIs
<1>3. /\ Aligned(shift) /\ Aligned(NextOf(e))
      /\ ~There(e.disc) => NodeOf(e) = [offset |-> shift, size |-> e.length]
  BY <1>1, CreatedIs
<1>4. Whole(NodeOf(e).offset)
  <2>1. CASE ~There(e.disc)
    BY <1>1, <1>3, <2>1, WholeAligned
  <2>2. CASE There(e.disc)
    <3>1. NodeOf(e) = fst[e.disc] /\ Placed(fst[e.disc], shift)
      BY <1>1, <2>2 DEF NodeOf, There, NodesInv
    <3>2. CASE OnDisc(fst[e.disc])
      <4>1. PICK m \in DOMAIN Disc : NodeOf(e).offset = Disc[m].offset
        BY <3>1, <3>2 DEF OnDisc
      <4>2. NodeOf(e).offset % WordSize = 0
        BY <4>1, Constants
      <4> QED BY <1>1, <4>2, WholeIs
    <3>3. CASE PlacedBy(fst[e.disc], shift)
      BY <1>1, <3>1, <3>3, WholeAligned DEF PlacedBy
    <3> QED BY <3>1, <3>2, <3>3 DEF Placed
  <2> QED BY <2>1, <2>2
<1>5. Whole(PlaceOf(e))
  BY <1>1, <1>3, <1>4, WholeAligned DEF PlaceOf
<1>6. /\ InWords(PlaceOf(e) + e.offset) = PlaceOf(e) + e.offset
      /\ InWords(PlaceOf(e)) = PlaceOf(e) /\ InWords(NodeOf(e).offset) = NodeOf(e).offset
  <2>1. PlaceOf(e) \in Int /\ e.offset \in Int /\ NodeOf(e).offset \in Int
    BY <1>1, <1>4, <1>5 DEF FileElements
  <2>2. Whole(e.offset)
    BY <1>2, <2>1, WholeIs
  <2>3. PlaceOf(e) + e.offset \in Int
    BY <2>1
  <2>4. Whole(PlaceOf(e) + e.offset)
    BY <1>5, <2>1, <2>2, WholeSum, Zenon
  <2> QED BY <1>4, <1>5, <2>1, <2>3, <2>4, InWordsWhole, Zenon
<1> QED BY <1>6 DEF NewPatch, NewShift

(* A node that was created for an element that is given up. *)
LEMMA GivenUpSets ==
  ASSUME LaidOut, OffsetsInFiles, ShapeInv, SizesInv, NodesInv, stage = "files", stage' = stage,
         NEW e \in FileElements, e \in Elements, GivenUp(e)
  PROVE  NodeOf(e) \in [offset : Nat, size : Nat] /\ shift' \in Int /\ NodeSet(e.disc, NodeOf(e))
         /\ shift <= shift'
<1>1. /\ e.disc \in Names /\ shift \in Nat /\ NodeOf(e).offset \in Nat /\ NodeOf(e).size \in Nat
      /\ fst[e.disc] \in [offset : Int, size : Int] /\ e.length \in Nat
  BY SizesOf
<1>2. /\ Aligned(shift) /\ Aligned(NextOf(e)) /\ shift <= NextOf(e) /\ NextOf(e) \in Nat
      /\ ~There(e.disc) => /\ NodeOf(e) = [offset |-> shift, size |-> e.length]
                           /\ shift + RoundUp(e.length) = NextOf(e)
  BY CreatedIs
<1>3. fst' = [fst EXCEPT ![e.disc] = NodeOf(e)] /\ shift' = NextOf(e)
  BY DEF GivenUp
<1>4. CASE There(e.disc)
  <2>1. NodeOf(e) = fst[e.disc]
    BY <1>4 DEF NodeOf, There
  <2>2. NodeOf(e) \in [offset : Nat, size : Nat] /\ Like(NodeOf(e))
    BY <1>1, <1>4, <2>1 DEF Like
  <2> QED BY <1>1, <1>2, <1>3, <2>2 DEF NodeSet
<1>5. CASE ~There(e.disc)
  <2>1. NodeOf(e) = [offset |-> shift, size |-> e.length] /\ shift + RoundUp(e.length) = NextOf(e)
    BY <1>2, <1>5
  <2>2. RoundUp(e.length) \in Int
    BY <1>1, RoundUpIs
  <2>3. NodeOf(e) \in [offset : Nat, size : Nat] /\ Fresh(NodeOf(e))
    BY <1>1, <1>2, <1>3, <2>1, <2>2 DEF Fresh
  <2> QED BY <1>1, <1>2, <1>3, <2>3 DEF NodeSet
<1> QED BY <1>4, <1>5

(* Before the first element there is nothing in the tables. *)
LEMMA NoneBefore ==
  ASSUME PartitionInv, stage \in {"menu", "patch"}
  PROVE  dip.patches = <<>> /\ dip.shifts = <<>>
BY DEF PartitionInv

(* The layout stays when the nodes and the tables do. *)
LEMMA LayoutKept ==
  ASSUME NodesInv, ApartInv, ShiftsInv, CoversInv, UNCHANGED <<fst, shift>>,
         dip'.patches = dip.patches, dip'.shifts = dip.shifts, dip'.shiftBase = dip.shiftBase,
         stage = "menu" <=> stage' = "menu"
  PROVE  NodesInv' /\ ApartInv' /\ ShiftsInv' /\ CoversInv'
<1>1. NodesInv'
  BY DEF NodesInv, There, Placed, PlacedBy, OnDisc, Base
<1>2. ApartInv'
  BY DEF ApartInv, There, Apart
<1>3. ShiftsInv'
  BY DEF ShiftsInv, There, ShiftBehind, ShiftClear, Base
<1>4. \A x : Covered(x)' = Covered(x)
  BY DEF Covered, Covers
<1>5. CoversInv'
  BY <1>4 DEF CoversInv, There
<1> QED BY <1>1, <1>2, <1>3, <1>5

(* A node is set and the tables stay. *)
LEMMA LayoutSet ==
  ASSUME LaidOut, LayoutInv, shift' \in Int, UNCHANGED dip,
         NEW n \in Names, NEW node \in [offset : Nat, size : Nat], NodeSet(n, node)
  PROVE  NodesInv' /\ ApartInv' /\ ShiftsInv' /\ CoversInv'
<1>1. ShapeInv /\ SizesInv /\ NodesInv /\ ApartInv /\ ShiftsInv /\ CoversInv
  BY DEF LayoutInv
<1>2. /\ dip'.shiftBase = dip.shiftBase /\ dip'.shifts = dip.shifts /\ dip'.patches = dip.patches
      /\ \A x \in Int : Covered(x) => Covered(x)'
  BY DEF Covered, Covers
<1>3. \A i \in 1..Len(dip'.patches) :
        dip'.patches[i].length >= 0 /\ dip'.patches[i].offset + dip'.patches[i].length <= shift'
  <2>1. shift <= shift' /\ shift \in Int
    BY <1>1 DEF NodeSet, ShapeInv
  <2> SUFFICES ASSUME NEW i \in 1..Len(dip.patches)
               PROVE  dip.patches[i].length >= 0 /\ dip.patches[i].offset + dip.patches[i].length <= shift'
    BY <1>2
  <2>2. dip.patches[i] \in PatchEntries
    BY <1>1 DEF ShapeInv, Tables
  <2>3. dip.patches[i].length >= 0 /\ dip.patches[i].offset + dip.patches[i].length <= shift
    BY <1>1 DEF CoversInv
  <2> QED BY <2>1, <2>2, <2>3 DEF PatchEntries
<1>4. CoversInv'
  BY <1>1, <1>2, <1>3, CoversSet
<1> QED BY <1>1, <1>2, <1>4, NodesSet, ApartSet, ShiftsKept

(* The layout through an element that is patched. *)
LEMMA LayoutPatched ==
  ASSUME LaidOut, OffsetsInFiles, LayoutInv, Fits, stage = "files", stage' = stage,
         todo # <<>>, NEW e \in FileElements, e \in Elements, e = Head(todo), Patched(e)
  PROVE  NodesInv' /\ ApartInv' /\ ShiftsInv' /\ CoversInv'
<1> DEFINE p == NewPatch(e)
           s == NewShift(e)
           node == NewNode(e)
<1>1. ShapeInv /\ SizesInv /\ NodesInv /\ ApartInv /\ ShiftsInv /\ CoversInv
  BY DEF LayoutInv
<1>2. /\ node \in [offset : Nat, size : Nat] /\ shift' \in Int /\ NodeSet(e.disc, node)
      /\ IF Moves(e) \/ ~There(e.disc) THEN Fresh(node)
         ELSE PlaceOf(e) = fst[e.disc].offset /\ SizeOf(e) <= fst[e.disc].size
      /\ LengthOf(e) \in Nat /\ e.offset \in Nat /\ NodeOf(e).size \in Nat
      /\ PlaceOf(e) + e.offset + LengthOf(e) <= PlaceOf(e) + SizeOf(e)
      /\ PlaceOf(e) + SizeOf(e) <= shift' /\ shift <= shift'
      /\ e.offset <= NodeOf(e).size
      /\ Grows(e) => SizeOf(e) = e.offset + LengthOf(e) /\ NodeOf(e).size < SizeOf(e)
  BY <1>1, PatchedSets
<1>3. e.disc \in Names /\ shift \in Int
  BY <1>1 DEF FileElements, ShapeInv
<1>4. /\ dip'.patches = Append(dip.patches, p)
      /\ dip'.shifts = IF Grows(e) /\ e.offset > 0 THEN Append(dip.shifts, s) ELSE dip.shifts
      /\ dip'.shiftBase = dip.shiftBase
      /\ p \in PatchEntries /\ s \in ShiftEntries
      /\ PlaceOf(e) \in Int /\ SizeOf(e) \in Int
  BY <1>1, PatchedTables
<1>5. /\ p.offset = PlaceOf(e) + e.offset /\ p.length = LengthOf(e)
      /\ s.offset = PlaceOf(e) /\ s.length = NodeOf(e).size
      /\ node.offset = PlaceOf(e) /\ node.size = SizeOf(e)
  BY <1>1, PatchWords DEF NewNode
<1> HIDE DEF p, s, node
<1>6. /\ Len(dip.patches) \in Nat /\ Len(dip'.patches) = Len(dip.patches) + 1
      /\ \A i \in 1..Len(dip.patches) : dip'.patches[i] = dip.patches[i]
      /\ dip'.patches[Len(dip.patches) + 1] = p
      /\ \A x : Covered(x) \/ Covers(p, x) => Covered(x)'
  BY <1>1, <1>4, PatchMore
<1>7. ASSUME NEW i \in 1..Len(dip'.patches)
      PROVE  dip'.patches[i].length >= 0 /\ dip'.patches[i].offset + dip'.patches[i].length <= shift'
  <2>1. CASE i \in 1..Len(dip.patches)
    <3>1. dip.patches[i] \in PatchEntries
      BY <1>1, <2>1 DEF ShapeInv, Tables
    <3>2. dip.patches[i].length >= 0 /\ dip.patches[i].offset + dip.patches[i].length <= shift
      BY <1>1, <2>1 DEF CoversInv
    <3>3. dip'.patches[i] = dip.patches[i] /\ shift <= shift' /\ shift' \in Int
      BY <1>2, <1>6, <2>1
    <3> QED BY <1>3, <3>1, <3>2, <3>3 DEF PatchEntries
  <2>2. CASE i = Len(dip.patches) + 1
    <3>1. PlaceOf(e) + e.offset + LengthOf(e) <= shift'
      BY <1>2, <1>4
    <3> QED BY <1>2, <1>5, <1>6, <2>2, <3>1, SMTT(60)
  <2> QED BY <1>6, <2>1, <2>2
<1>8. CASE Grows(e) /\ e.offset > 0
  <2>1. Fresh(node)
    BY <1>2, <1>8 DEF Moves
  <2>2. s.length > 0 /\ s.offset + s.length <= shift' /\ dip'.shifts = Append(dip.shifts, s)
    BY <1>2, <1>4, <1>5, <1>8, SMTT(60)
  <2>3. ShiftsInv'
    BY <1>1, <1>2, <1>3, <1>4, <1>5, <2>1, <2>2, ShiftAdded
  <2>4. \A x \in Int : s.offset + s.length <= x /\ x < node.offset + node.size => Covered(x)'
    <3> SUFFICES ASSUME NEW x \in Int, s.offset + s.length <= x, x < node.offset + node.size
                 PROVE  Covers(p, x)
      BY <1>6
    <3>1. p.offset <= x
      BY <1>2, <1>4, <1>5
    <3>2. x < p.offset + p.length
      BY <1>2, <1>4, <1>5, <1>8
    <3> QED BY <3>1, <3>2 DEF Covers
  <2>5. ASSUME NEW i \in 1..Len(dip'.shifts)
        PROVE  \/ i \in 1..Len(dip.shifts) /\ dip'.shifts[i] = dip.shifts[i]
               \/ dip'.shifts[i] = s
    <3>1. dip.shifts \in Seq(ShiftEntries)
      BY <1>1 DEF ShapeInv, Tables
    <3> QED BY <2>2, <3>1
  <2>6. CoversInv'
    <3>1. \A i \in 1..Len(dip'.shifts) :
           \/ i \in 1..Len(dip.shifts) /\ dip'.shifts[i] = dip.shifts[i]
           \/ /\ Fresh(node) /\ dip'.shifts[i].offset = node.offset
              /\ \A x \in Int : dip'.shifts[i].offset + dip'.shifts[i].length <= x /\ x < node.offset + node.size
                                  => Covered(x)'
      BY <1>5, <2>1, <2>4, <2>5
    <3> QED BY <1>1, <1>2, <1>3, <1>6, <1>7, <3>1, CoversSet
  <2> QED BY <1>1, <1>2, <1>3, <1>4, <2>3, <2>6, NodesSet, ApartSet
<1>9. CASE ~(Grows(e) /\ e.offset > 0)
  <2>1. dip'.shifts = dip.shifts
    BY <1>4, <1>9
  <2>2. CoversInv'
    <3>1. \A i \in 1..Len(dip'.shifts) : i \in 1..Len(dip.shifts) /\ dip'.shifts[i] = dip.shifts[i]
      BY <2>1
    <3> QED BY <1>1, <1>2, <1>3, <1>6, <1>7, <3>1, CoversSet
  <2> QED BY <1>1, <1>2, <1>3, <1>4, <2>1, <2>2, NodesSet, ApartSet, ShiftsKept
<1> QED BY <1>8, <1>9

(* What patches take from their files through an element. *)
LEMMA SuppliedNext ==
  ASSUME Fits, ShapeInv, SuppliedInv, [Next]_vars
  PROVE  SuppliedInv'
<1>1. CASE SetFST
  BY <1>1, SetFSTIs DEF SuppliedInv
<1>2. CASE FindCommonFilesystem
  BY <1>2, FindCommonIs DEF SuppliedInv
<1>3. CASE PatchFile
  <2> DEFINE e == Head(todo)
  <2>1. /\ e \in FileElements /\ stage = "files" /\ todo # <<>>
        /\ Skipped(e) \/ GivenUp(e) \/ Patched(e)
    BY <1>3, PatchFileIs
  <2>2. e = Head(todo)
    OBVIOUS
  <2> HIDE DEF e
  <2>3. CASE Skipped(e) \/ GivenUp(e)
    BY <2>3 DEF Skipped, GivenUp, SuppliedInv
  <2>4. CASE Patched(e)
    <3>1. e.external \in Present => LengthOf(e) <= FileSize[e.external]
      BY <2>1, <2>2, <2>4 DEF Fits, Patched, There, IsFileElement, FileElements
    <3>2. /\ dip'.files = Append(dip.files, NewFile(e)) /\ dip'.patches = Append(dip.patches, NewPatch(e))
          /\ NewFile(e) \in FileEntries /\ NewPatch(e) \in PatchEntries
          /\ dip.files \in Seq(FileEntries) /\ dip.patches \in Seq(PatchEntries)
      BY <2>1, <2>4, PatchedTables DEF ShapeInv, Tables
    <3>3. /\ Len(dip'.patches) = Len(dip.patches) + 1 /\ Len(dip.patches) \in Nat
          /\ \A i \in 1..Len(dip.patches) : dip'.patches[i] = dip.patches[i]
          /\ dip'.patches[Len(dip.patches) + 1] = NewPatch(e)
      BY <3>2
    <3>4. /\ \A j \in 1..Len(dip.files) : dip'.files[j] = dip.files[j]
          /\ dip'.files[Len(dip.files) + 1] = NewFile(e)
      BY <3>2
    <3>5. ASSUME NEW i \in 1..Len(dip.patches)
          PROVE  dip'.patches[i] = dip.patches[i] /\ dip'.files[dip.patches[i].file] = dip.files[dip.patches[i].file]
      BY <3>3, <3>4 DEF ShapeInv
    <3>6. /\ dip'.files[NewPatch(e).file].file = e.external
          /\ NewPatch(e).length = LengthOf(e)
      BY <3>4 DEF NewPatch, NewFile
    <3>7. ASSUME NEW i \in 1..Len(dip.patches), dip'.files[dip'.patches[i].file].file \in Present
          PROVE  dip'.patches[i].length <= FileSize[dip'.files[dip'.patches[i].file].file]
      BY <3>5, <3>7 DEF SuppliedInv
    <3>8. ASSUME NEW i \in 1..Len(dip'.patches), dip'.files[dip'.patches[i].file].file \in Present
          PROVE  dip'.patches[i].length <= FileSize[dip'.files[dip'.patches[i].file].file]
      <4>1. CASE i \in 1..Len(dip.patches)
        BY <3>7, <3>8, <4>1
      <4>2. CASE i = Len(dip.patches) + 1
        BY <3>1, <3>3, <3>6, <3>8, <4>2
      <4> QED BY <3>3, <4>1, <4>2
    <3> QED BY <3>8 DEF SuppliedInv
  <2> QED BY <2>1, <2>3, <2>4
<1>4. CASE PatchShift
  BY <1>4, PatchShiftIs DEF SuppliedInv
<1>5. CASE Launch \/ (\E p \in Partitions : OpenPartition(p)) \/ ClosePartition
  BY <1>5, GameIs DEF SuppliedInv
<1>6. CASE UNCHANGED vars
  BY <1>6 DEF vars, SuppliedInv
<1> QED BY <1>1, <1>2, <1>3, <1>4, <1>5, <1>6 DEF Next

(* The layout through every step. *)
LEMMA LayoutNext ==
  ASSUME LaidOut, OffsetsInFiles, LayoutInv, Fits, [Next]_vars
  PROVE  LayoutInv'
<1>1. /\ ShapeInv /\ PartitionInv /\ SizesInv /\ NodesInv /\ ApartInv /\ ShiftsInv /\ CoversInv
      /\ SuppliedInv
  BY DEF LayoutInv
<1>2. ShapeInv' /\ PartitionInv' /\ SizesInv' /\ SuppliedInv'
  BY <1>1, ShapeNext, PartitionNext, SizesNext, SuppliedNext
<1>3. NodesInv' /\ ApartInv' /\ ShiftsInv' /\ CoversInv'
  <2>1. CASE SetFST
    <3>1. /\ stage = "menu" /\ stage' = "patch" /\ shift' = Base /\ fst' = fst
          /\ dip'.patches = <<>> /\ dip'.shifts = <<>> /\ dip'.shiftBase = Base
      BY <1>1, <2>1, SetFSTIs, NoneBefore
    <3>2. ASSUME NEW n \in Names, There(n) PROVE Placed(fst[n], Base)
      <4>1. PICK m \in DOMAIN Disc : fst[n].offset = Disc[m].offset /\ fst[n].size <= Disc[m].size
        BY <1>1, <3>1, <3>2 DEF NodesInv, OnDisc
      <4>2. Disc[m].offset \in Nat /\ Disc[m].size \in Nat /\ Disc[m].offset + RoundUp(Disc[m].size) <= Base
        BY Constants DEF LaidOut
      <4>3. fst[n].size \in Nat /\ fst[n].offset \in Nat
        BY <1>1, <3>2, NodeIs
      <4>4. /\ RoundUp(fst[n].size) \in Nat /\ RoundUp(Disc[m].size) \in Nat
            /\ RoundUp(fst[n].size) <= RoundUp(Disc[m].size)
            /\ fst[n].size <= RoundUp(fst[n].size)
        BY <4>1, <4>2, <4>3, RoundUpIs, RoundUpRises
      <4>5. Base \in Nat /\ Aligned(Base)
        BY BaseIs
      <4>6. CASE fst[n].offset < Base
        BY <4>1, <4>6 DEF Placed, OnDisc
      <4>7. CASE ~(fst[n].offset < Base)
        <5>1. fst[n].offset = Base /\ RoundUp(fst[n].size) = 0
          BY <4>1, <4>2, <4>3, <4>4, <4>5, <4>7
        <5> QED BY <4>5, <4>7, <5>1 DEF Placed, PlacedBy
      <4> QED BY <4>6, <4>7
    <3>3. NodesInv'
      BY <3>1, <3>2, BaseIs DEF NodesInv, There, Placed, PlacedBy, OnDisc, Base
    <3>4. ApartInv'
      BY <1>1, <3>1 DEF ApartInv, There, Apart
    <3>5. Len(dip'.shifts) = 0 /\ Len(dip'.patches) = 0
      BY <3>1
    <3> QED BY <3>3, <3>4, <3>5 DEF ShiftsInv, CoversInv
  <2>2. CASE FindCommonFilesystem
    BY <1>1, <2>2, FindCommonIs, LayoutKept
  <2>3. CASE PatchFile
    <3> DEFINE e == Head(todo)
    <3>1. /\ stage = "files" /\ todo # <<>> /\ e \in FileElements /\ stage' = stage
          /\ Skipped(e) \/ GivenUp(e) \/ Patched(e)
      BY <1>1, <2>3, PatchFileIs
    <3>2. e \in Elements
      BY <1>1, <3>1, NextElement
    <3>3. e = Head(todo) /\ e.disc \in Names
      BY <3>1 DEF FileElements
    <3> HIDE DEF e
    <3>4. CASE Skipped(e)
      BY <1>1, <3>1, <3>4, LayoutKept DEF Skipped
    <3>5. CASE GivenUp(e)
      <4>1. NodeOf(e) \in [offset : Nat, size : Nat] /\ shift' \in Int /\ NodeSet(e.disc, NodeOf(e))
        BY <1>1, <3>1, <3>2, <3>5, GivenUpSets
      <4>2. UNCHANGED dip
        BY <3>5 DEF GivenUp
      <4> QED BY <3>3, <4>1, <4>2, LayoutSet
    <3>6. CASE Patched(e)
      BY <3>1, <3>2, <3>3, <3>6, LayoutPatched
    <3> QED BY <3>1, <3>4, <3>5, <3>6
  <2>4. CASE PatchShift
    <3> DEFINE n == Head(todo).disc
               m == Head(todo).source
    <3>1. /\ stage = "files" /\ stage' = stage /\ n \in Names /\ m \in Names
          /\ UNCHANGED <<shift, dip>>
          /\ fst' = fst \/ (There(m) /\ fst' = [fst EXCEPT ![n] = fst[m]])
      BY <1>1, <2>4, PatchShiftIs DEF ShiftElements, There
    <3> HIDE DEF n, m
    <3>2. CASE fst' = fst
      BY <1>1, <3>1, <3>2, LayoutKept
    <3>3. CASE There(m) /\ fst' = [fst EXCEPT ![n] = fst[m]]
      <4>1. fst[m] \in [offset : Int, size : Int] /\ fst[m].size \in Nat /\ fst[m].offset \in Nat
        BY <1>1, <3>1, <3>3, NodeIs
      <4>2. fst[m] \in [offset : Nat, size : Nat] /\ Like(fst[m])
        BY <3>1, <3>3, <4>1 DEF Like
      <4>3. NodeSet(n, fst[m]) /\ shift' \in Int
        BY <1>1, <3>1, <3>3, <4>2 DEF NodeSet, NodesInv, ShapeInv
      <4> QED BY <3>1, <4>2, <4>3, LayoutSet
    <3> QED BY <3>1, <3>2, <3>3
  <2>5. CASE Launch \/ (\E p \in Partitions : OpenPartition(p)) \/ ClosePartition
    BY <1>1, <2>5, GameIs, LayoutKept
  <2>6. CASE UNCHANGED vars
    BY <1>1, <2>6, LayoutKept DEF vars
  <2> QED BY <2>1, <2>2, <2>3, <2>4, <2>5, <2>6 DEF Next
<1> QED BY <1>2, <1>3 DEF LayoutInv

(* The layout of the disc as it is. *)
LEMMA LayoutInit == LaidOut /\ Init => LayoutInv
<1> SUFFICES ASSUME LaidOut, Init PROVE LayoutInv
  OBVIOUS
<1>1. ShapeInv /\ SizesInv /\ PartitionInv
  BY ShapeInit, SizesInit DEF Init, PartitionInv
<1>2. /\ stage = "menu" /\ shift = 0 /\ dip.shifts = <<>> /\ dip.patches = <<>>
      /\ \A n \in Names : fst[n] = IF n \in DOMAIN Disc THEN Disc[n] ELSE Absent
  BY DEF Init
<1>3. NodesInv
  <2>1. Aligned(0)
    <3>1. 0 = 0 * Align
      BY Constants
    <3> QED BY <3>1 DEF Aligned
  <2>2. \A n \in DOMAIN Disc : Disc[n].size \in Nat
    BY Constants
  <2>3. \A n \in Names : There(n) => OnDisc(fst[n])
    BY <1>2, <2>2 DEF There, OnDisc
  <2> QED BY <1>2, <2>1, <2>3 DEF NodesInv
<1>4. ApartInv
  BY <1>2 DEF ApartInv, There, LaidOut
<1>5. Len(dip.shifts) = 0 /\ Len(dip.patches) = 0
  BY <1>2
<1> QED BY <1>1, <1>3, <1>4, <1>5 DEF LayoutInv, ShiftsInv, CoversInv, SuppliedInv

-----------------------------------------------------------------------------
(* What a read gives, byte by byte. *)

(* All external files of the elements exist. *)
NoneMissing == \A e \in Elements : IsFileElement(e) => e.external \in Present
PresentInv == \A i \in 1..Len(dip.files) : dip.files[i].file \in Present

(* The drive has nothing behind the last file. *)
NothingBehind == DiscSize <= Base

(* No more than MAX_FOUND patches are met by a rounded read of a whole file. *)
FewMet == \A n \in Names : There(n) => Cardinality(MetBy(n)) <= MaxFound

(* A read meets no patch whose file cannot be read. *)
Readable(pos, len) == \A i \in FindPatch(dip.patches, pos, len) : CanRead(dip.patches[i].file)

(* The byte at x of a file that is at a place, whatever the read it is read
   by and d being the tables of the DIP module: the last patch that covers it,
   or the drive's, or what the shift of the place leads to. *)
CoverAt(d, x) == {i \in 1..Len(d.patches) : Covers(d.patches[i], x)}
PatchByte(d, p, x) == Byte(d.files[p.file].file, x + 1 - p.offset)
ShiftsAt(d, place) == {i \in 1..Len(d.shifts) : d.shifts[i].offset = place}
ShiftedByte(d, i, x) == DriveByte(x - d.shifts[i].offset + d.shifts[i].original)
ByteAt(d, place, x) ==
  IF CoverAt(d, x) # {} THEN PatchByte(d, d.patches[Max(CoverAt(d, x))], x)
  ELSE IF place < Base THEN DriveByte(x)
  ELSE IF ShiftsAt(d, place) # {} THEN ShiftedByte(d, Max(ShiftsAt(d, place)), x)
  ELSE Junk

(* The greatest of some numbers. *)
LEMMA MaxIs ==
  ASSUME NEW n \in Nat, NEW S, S \subseteq 1..n, S # {}
  PROVE  Max(S) \in S /\ Max(S) \in 1..n /\ \A y \in S : y <= Max(S)
<1> DEFINE f == [i \in S |-> i]
<1>1. IsFiniteSet(S)
  <2>1. IsFiniteSet(1..n)
    BY FS_Interval
  <2> QED BY <2>1, FS_Subset
<1>2. \A y \in S : f[y] \in Int
  OBVIOUS
<1>3. \E x \in S : \A y \in S : f[y] <= f[x]
  <2> HIDE DEF f
  <2> QED BY <1>1, <1>2, Greatest
<1>4. \E x \in S : \A y \in S : x >= y
  BY <1>3
<1>5. Max(S) \in S /\ \A y \in S : Max(S) >= y
  BY <1>4 DEF Max
<1> QED BY <1>5

(* FindPatch finds all entries that are met when a read meets no more entries
   than MaxFound. *)
LEMMA FindsAll ==
  ASSUME NEW n \in Nat, NEW entries, DOMAIN entries = 1..n, NEW pos, NEW len,
         NEW S \in SUBSET (1..n), Cardinality(S) <= MaxFound,
         \A i \in 1..n : Meets(entries[i], pos, len) => i \in S
  PROVE  FindPatch(entries, pos, len) = {i \in 1..n : Meets(entries[i], pos, len)}
<1>1. IsFiniteSet(S)
  <2>1. IsFiniteSet(1..n)
    BY FS_Interval
  <2> QED BY <2>1, FS_Subset
<1>2. ASSUME NEW i \in 1..n, Meets(entries[i], pos, len)
      PROVE  Cardinality({j \in 1..(i - 1) : Meets(entries[j], pos, len)}) < MaxFound
  <2> DEFINE T == {j \in 1..(i - 1) : Meets(entries[j], pos, len)}
  <2>1. T \in SUBSET (S \ {i}) /\ i \in S
    BY <1>2
  <2> HIDE DEF T
  <2>2. /\ IsFiniteSet(S \ {i}) /\ Cardinality(S \ {i}) = Cardinality(S) - 1
        /\ Cardinality(S) \in Nat
    BY <1>1, <2>1, FS_RemoveElement, FS_CardinalityType
  <2>3. Cardinality(T) <= Cardinality(S \ {i}) /\ IsFiniteSet(T)
    BY <2>1, <2>2, FS_Subset
  <2>4. Cardinality(T) \in Nat
    BY <2>3, FS_CardinalityType
  <2>5. Cardinality(T) < MaxFound
    BY <2>2, <2>3, <2>4, Constants
  <2> QED BY <2>5 DEF T
<1>3. FindPatch(entries, pos, len) =
        {i \in 1..n : Meets(entries[i], pos, len)
                      /\ Cardinality({j \in 1..(i - 1) : Meets(entries[j], pos, len)}) < MaxFound}
  BY DEF FindPatch
<1> QED BY <1>2, <1>3

(* A read within a rounded file meets what a read of all of it meets. *)
LEMMA MeetsWithin ==
  ASSUME NEW p, p.offset \in Int, p.length \in Int, NEW pos \in Int, NEW len \in Int,
         NEW start \in Int, NEW size \in Int, start <= pos, pos + len <= start + size, len >= 1,
         Meets(p, pos, len)
  PROVE  Meets(p, start, size)
BY DEF Meets

(* The part of a read that a patch covers. *)
LEMMA PartIs ==
  ASSUME NEW p \in PatchEntries, NEW pos \in Int, NEW len \in Nat
  PROVE  LET q == Part(p, pos, len)
         IN  /\ q.begin \in Int /\ q.from \in Int /\ q.length \in Int /\ q.file = p.file
             /\ q.from - q.begin = pos - p.offset /\ q.from + q.length <= p.length
             /\ \A k \in 1..len : q.begin < k /\ k <= q.begin + q.length <=> Covers(p, pos + k - 1)
             /\ q.begin = 0 /\ q.length = len => \A k \in 1..len : Covers(p, pos + k - 1)
<1> DEFINE offset == p.offset - pos
           begin == IF offset < 0 THEN 0 ELSE offset
           from == IF offset < 0 THEN -offset ELSE 0
           rest == IF offset < 0 THEN p.length + offset ELSE p.length
           length == IF rest < len - begin THEN rest ELSE len - begin
<1>1. p.offset \in Int /\ p.length \in Int
  BY DEF PatchEntries
<1>2. Part(p, pos, len) = [begin |-> begin, from |-> from, file |-> p.file, length |-> length]
  BY DEF Part, PartFromStart
<1>3. /\ begin \in Int /\ from \in Int /\ length \in Int /\ from - begin = pos - p.offset
      /\ from + length <= p.length
  BY <1>1
<1>4. ASSUME NEW k \in 1..len
      PROVE  begin < k /\ k <= begin + length <=> Covers(p, pos + k - 1)
  BY <1>1, SMTT(60) DEF Covers
<1> HIDE DEF offset, begin, from, rest, length
<1>5. ASSUME begin = 0, length = len, NEW k \in 1..len
      PROVE  Covers(p, pos + k - 1)
  <2>1. begin < k /\ k <= begin + length
    BY <1>5
  <2> QED BY <1>4, <2>1
<1> QED BY <1>2, <1>3, <1>4, <1>5

(* A patch that covers a byte is met by the reads of the byte. *)
LEMMA CoversMeets ==
  ASSUME NEW p \in PatchEntries, NEW pos \in Int, NEW len \in Nat, NEW k \in 1..len,
         Covers(p, pos + k - 1)
  PROVE  Meets(p, pos, len)
BY DEF Covers, Meets, PatchEntries

(* The patches of a read within a file are those that cover its bytes. *)
LEMMA PatchesMet ==
  ASSUME ShapeInv, SizesInv, FewMet, NEW n \in Names, There(n), NEW pos \in Int, NEW len \in Nat \ {0},
         fst[n].offset <= pos, pos + len <= fst[n].offset + RoundUp(fst[n].size)
  PROVE  FindPatch(dip.patches, pos, len) = {i \in 1..Len(dip.patches) : Meets(dip.patches[i], pos, len)}
<1>1. dip.patches \in Seq(PatchEntries)
  BY DEF ShapeInv, Tables
<1>2. Len(dip.patches) \in Nat /\ DOMAIN dip.patches = 1..Len(dip.patches)
  BY <1>1
<1>3. MetBy(n) \in SUBSET (1..Len(dip.patches)) /\ Cardinality(MetBy(n)) <= MaxFound
  BY <1>2 DEF FewMet, MetBy
<1>4. fst[n].offset \in Int /\ fst[n].size \in Int /\ RoundUp(fst[n].size) \in Int
  BY NodeIs, RoundUpIs
<1>5. ASSUME NEW i \in 1..Len(dip.patches), Meets(dip.patches[i], pos, len)
      PROVE  i \in MetBy(n)
  <2>1. dip.patches[i] \in PatchEntries
    BY <1>1
  <2>2. dip.patches[i].offset \in Int /\ dip.patches[i].length \in Int
    BY <2>1 DEF PatchEntries
  <2>3. Meets(dip.patches[i], fst[n].offset, RoundUp(fst[n].size))
    BY <1>4, <1>5, <2>2, MeetsWithin
  <2> QED BY <2>3 DEF MetBy
<1> QED BY <1>2, <1>3, <1>5, FindsAll

(* The one shift a read within a file can meet is that of its place. *)
LEMMA ShiftsMet ==
  ASSUME LaidOut, LayoutInv, stage # "menu", NEW n \in Names, There(n),
         NEW pos \in Int, NEW len \in Nat \ {0},
         fst[n].offset <= pos, pos + len <= fst[n].offset + RoundUp(fst[n].size)
  PROVE  /\ FindPatch(dip.shifts, pos, len) = {i \in 1..Len(dip.shifts) : Meets(dip.shifts[i], pos, len)}
         /\ FindPatch(dip.shifts, pos, len) \subseteq ShiftsAt(dip, fst[n].offset)
         /\ \A i, j \in ShiftsAt(dip, fst[n].offset) : i = j
<1>1. ShapeInv /\ SizesInv /\ NodesInv /\ ShiftsInv
  BY DEF LayoutInv
<1>2. dip.shifts \in Seq(ShiftEntries)
  BY <1>1 DEF ShapeInv, Tables
<1>3. Len(dip.shifts) \in Nat /\ DOMAIN dip.shifts = 1..Len(dip.shifts)
  BY <1>2
<1>4. /\ fst[n].offset \in Int /\ RoundUp(fst[n].size) \in Nat
  BY <1>1, NodesEnd
<1>5. ASSUME NEW i \in 1..Len(dip.shifts), Meets(dip.shifts[i], pos, len)
      PROVE  i \in ShiftsAt(dip, fst[n].offset)
  <2>1. dip.shifts[i] \in ShiftEntries
    BY <1>2
  <2>2. dip.shifts[i].length > 0 /\ ShiftClear(dip.shifts[i], fst[n])
    BY <1>1 DEF ShiftsInv, ShiftBehind
  <2> DEFINE s == dip.shifts[i]
  <2>3. s.offset \in Int /\ s.length \in Int /\ s.length > 0 /\ Meets(s, pos, len)
    BY <1>5, <2>1, <2>2 DEF ShiftEntries
  <2>4. ShiftClear(s, fst[n])
    BY <2>2
  <2> HIDE DEF s
  <2>5. s.offset = fst[n].offset
    BY <1>4, <2>3, <2>4, SMTT(60) DEF Meets, ShiftClear
  <2> QED BY <2>5 DEF ShiftsAt, s
<1>6. \A i, j \in ShiftsAt(dip, fst[n].offset) : i = j
  BY <1>1 DEF ShiftsAt, ShiftsInv
<1>7. FindPatch(dip.shifts, pos, len) = {i \in 1..Len(dip.shifts) : Meets(dip.shifts[i], pos, len)}
  <2> DEFINE S == {i \in 1..Len(dip.shifts) : Meets(dip.shifts[i], pos, len)}
  <2>1. Cardinality(S) <= MaxFound
    <3>1. CASE S = {}
      <4> HIDE DEF S
      <4>1. Cardinality(S) = 0
        BY <3>1, FS_EmptySet
      <4> QED BY <4>1, Constants
    <3>2. CASE S # {}
      <4>1. PICK i \in S : TRUE
        BY <3>2
      <4>2. S = {i}
        BY <1>5, <1>6, <4>1
      <4> HIDE DEF S
      <4>3. Cardinality(S) = 1
        BY <4>2, FS_Singleton
      <4> QED BY <4>3, Constants
    <3> QED BY <3>1, <3>2
  <2>2. /\ S \in SUBSET (1..Len(dip.shifts))
        /\ \A i \in 1..Len(dip.shifts) : Meets(dip.shifts[i], pos, len) => i \in S
    OBVIOUS
  <2> HIDE DEF S
  <2>3. FindPatch(dip.shifts, pos, len) = {i \in 1..Len(dip.shifts) : Meets(dip.shifts[i], pos, len)}
    <3> DEFINE entries == dip.shifts
               count == Len(dip.shifts)
    <3>1. /\ count \in Nat /\ DOMAIN entries = 1..count /\ S \in SUBSET (1..count)
          /\ \A i \in 1..count : Meets(entries[i], pos, len) => i \in S
      BY <1>3, <2>2
    <3> HIDE DEF entries, count
    <3>2. FindPatch(entries, pos, len) = {i \in 1..count : Meets(entries[i], pos, len)}
      BY <2>1, <3>1, FindsAll
    <3> QED BY <3>2 DEF entries, count
  <2> QED BY <2>3
<1> QED BY <1>5, <1>6, <1>7

(* Once the offset of the moved files is known, a read within a file is read
   byte by byte as ByteAt says, however it is cut. *)
LEMMA ReadIs ==
  ASSUME LaidOut, NothingBehind, LayoutInv, FewMet, stage # "menu",
         NEW n \in Names, There(n), NEW pos \in Int, NEW len \in Nat, Readable(pos, len),
         fst[n].offset <= pos, pos + len <= fst[n].offset + RoundUp(fst[n].size)
  PROVE  /\ ReadPatched(pos, len) = [k \in 1..len |-> ReadPatched(pos, len)[k]]
         /\ \A k \in 1..len : pos + k <= fst[n].offset + fst[n].size =>
              ReadPatched(pos, len)[k] = ByteAt(dip, fst[n].offset, pos + k - 1)
<1> DEFINE met == FindPatch(dip.patches, pos, len)
           part == [i \in met |-> Part(dip.patches[i], pos, len)]
           asked == Forwards({part[i] : i \in met}, pos, len)
           at == Forwarded(pos, len)
           File(p) == dip.files[p.file].file
           Over(k) == {i \in met :
                         part[i].begin < k /\ k <= part[i].begin + Held(File(part[i]), part[i].from, part[i].length)}
           Laid(p, k) == Byte(File(p), p.from + k - p.begin)
<1>1. /\ ShapeInv /\ SizesInv /\ NodesInv /\ ShiftsInv /\ CoversInv
      /\ dip.patches \in Seq(PatchEntries) /\ dip.shifts \in Seq(ShiftEntries)
      /\ dip.files \in Seq(FileEntries) /\ SuppliedInv
  BY DEF LayoutInv, ShapeInv, Tables
<1>2. ReadPatched(pos, len) =
        IF \E i \in met : ~CanRead(part[i].file) THEN Unreadable
        ELSE [k \in 1..len |-> IF Over(k) # {} THEN Laid(part[Max(Over(k))], k)
                               ELSE IF asked THEN DriveByte(at + k - 1) ELSE Junk]
  BY DEF ReadPatched
<1>3. met \subseteq 1..Len(dip.patches)
  BY <1>1 DEF FindPatch
<1>4. ASSUME NEW i \in met
      PROVE  /\ dip.patches[i] \in PatchEntries
             /\ part[i] = Part(dip.patches[i], pos, len)
             /\ part[i].begin \in Int /\ part[i].from \in Int /\ part[i].file = dip.patches[i].file
             /\ part[i].from - part[i].begin = pos - dip.patches[i].offset
             /\ Held(File(part[i]), part[i].from, part[i].length) = part[i].length
             /\ \A k \in 1..len : part[i].begin < k /\ k <= part[i].begin + part[i].length
                                    <=> Covers(dip.patches[i], pos + k - 1)
             /\ part[i].begin = 0 /\ part[i].length = len => \A k \in 1..len : Covers(dip.patches[i], pos + k - 1)
  <2>1. dip.patches[i] \in PatchEntries
    BY <1>1, <1>3
  <2>2. part[i] = Part(dip.patches[i], pos, len)
    OBVIOUS
  <2> HIDE DEF part
  <2>3. /\ part[i].from + part[i].length <= dip.patches[i].length /\ part[i].file = dip.patches[i].file
        /\ part[i].from \in Int /\ part[i].length \in Int /\ dip.patches[i].length \in Int
    BY <2>1, <2>2, PartIs DEF PatchEntries
  <2>4. File(part[i]) \in Present /\ FileSize[File(part[i])] \in Nat
        /\ dip.patches[i].length <= FileSize[File(part[i])]
    <3>1. CanRead(dip.patches[i].file)
      BY DEF Readable
    <3> QED BY <1>1, <1>3, <2>3, <3>1, Constants DEF CanRead, SuppliedInv
  <2>5. Held(File(part[i]), part[i].from, part[i].length) = part[i].length
    BY <2>3, <2>4 DEF Held
  <2> QED BY <2>1, <2>2, <2>5, PartIs
<1> HIDE DEF part
<1>5. ~ \E i \in met : ~CanRead(part[i].file)
  BY <1>3, <1>4 DEF Readable
<1>6. ReadPatched(pos, len) =
        [k \in 1..len |-> IF Over(k) # {} THEN Laid(part[Max(Over(k))], k)
                               ELSE IF asked THEN DriveByte(at + k - 1) ELSE Junk]
  BY <1>2, <1>5, Zenon
<1>7. ASSUME NEW k \in 1..len, pos + k <= fst[n].offset + fst[n].size
      PROVE  ReadPatched(pos, len)[k] = ByteAt(dip, fst[n].offset, pos + k - 1)
  <2> DEFINE x == pos + k - 1
             place == fst[n].offset
  <2>1. len \in Nat \ {0} /\ x \in Int
    BY <1>7
  <2>2. met = {i \in 1..Len(dip.patches) : Meets(dip.patches[i], pos, len)}
    BY <1>1, <2>1, PatchesMet
  <2>3. Over(k) = CoverAt(dip, x)
    <3>1. ASSUME NEW i \in CoverAt(dip, x) PROVE i \in met /\ Covers(dip.patches[i], x)
      <4>1. dip.patches[i] \in PatchEntries /\ Covers(dip.patches[i], x) /\ i \in 1..Len(dip.patches)
        BY <1>1, <3>1 DEF CoverAt
      <4>2. Meets(dip.patches[i], pos, len)
        BY <1>7, <4>1, CoversMeets
      <4> QED BY <2>2, <4>1, <4>2
    <3>2. ASSUME NEW i \in met, Covers(dip.patches[i], x) PROVE i \in CoverAt(dip, x)
      BY <1>3, <3>2 DEF CoverAt
    <3>3. \A i \in met : i \in Over(k) <=> Covers(dip.patches[i], x)
      BY <1>4, <1>7
    <3> QED BY <3>1, <3>2, <3>3
  <2>4. ReadPatched(pos, len)[k] = IF Over(k) # {} THEN Laid(part[Max(Over(k))], k)
                                   ELSE IF asked THEN DriveByte(at + k - 1) ELSE Junk
    BY <1>6, <1>7, Zenon
  <2>5. CASE CoverAt(dip, x) # {}
    <3> DEFINE i == Max(CoverAt(dip, x))
    <3>1. i \in met
      <4>1. CoverAt(dip, x) \subseteq 1..Len(dip.patches) /\ Len(dip.patches) \in Nat
        BY <1>1 DEF CoverAt
      <4>2. Max(CoverAt(dip, x)) \in CoverAt(dip, x)
        BY <2>5, <4>1, MaxIs
      <4> QED BY <2>3, <4>2
    <3> HIDE DEF i
    <3>2. /\ part[i].file = dip.patches[i].file /\ part[i].from \in Int /\ part[i].begin \in Int
          /\ part[i].from - part[i].begin = pos - dip.patches[i].offset /\ dip.patches[i].offset \in Int
      BY <1>4, <3>1 DEF PatchEntries
    <3>3. part[i].from + k - part[i].begin = x + 1 - dip.patches[i].offset
      BY <1>7, <3>2
    <3>4. Laid(part[i], k) = PatchByte(dip, dip.patches[i], x)
      BY <3>2, <3>3 DEF PatchByte
    <3>5. ReadPatched(pos, len)[k] = Laid(part[i], k)
      BY <2>3, <2>4, <2>5, Zenon DEF i
    <3> QED BY <2>5, <3>4, <3>5 DEF ByteAt, i
  <2>6. CASE CoverAt(dip, x) = {}
    <3> DEFINE shifts == FindPatch(dip.shifts, pos, len)
    <3>1. ReadPatched(pos, len)[k] = IF asked THEN DriveByte(at + k - 1) ELSE Junk
      BY <2>3, <2>4, <2>6, Zenon
    <3>2. asked <=> met = {} \/ pos < Base \/ shifts # {}
      <4>1. ASSUME NEW i \in met PROVE ~(part[i].begin = 0 /\ part[i].length = len)
        <5>1. ~Covers(dip.patches[i], x)
          BY <1>3, <2>6 DEF CoverAt
        <5> QED BY <1>4, <1>7, <5>1
      <4>2. dip.shiftBase = Base
        BY <1>1 DEF NodesInv
      <4>3. {part[i] : i \in met} = {} <=> met = {}
        OBVIOUS
      <4>4. \A p \in {part[i] : i \in met} : ~(p.begin = 0 /\ p.length = len)
        BY <4>1
      <4> HIDE DEF met
      <4> QED BY <4>2, <4>3, <4>4 DEF Forwards
    <3>3. /\ shifts = {i \in 1..Len(dip.shifts) : Meets(dip.shifts[i], pos, len)}
          /\ shifts \subseteq ShiftsAt(dip, place)
          /\ \A i, j \in ShiftsAt(dip, place) : i = j
      BY <2>1, ShiftsMet
    <3>4. at = IF shifts = {} THEN pos
               ELSE pos - dip.shifts[Max(shifts)].offset + dip.shifts[Max(shifts)].original
      BY DEF Forwarded
    <3> HIDE DEF shifts, asked, at, met
    <3>5. /\ place \in Nat /\ fst[n].size \in Nat /\ Base \in Nat /\ DiscSize \in Nat /\ DiscSize <= Base
          /\ place < Base => place + RoundUp(fst[n].size) <= Base /\ RoundUp(fst[n].size) \in Int
      BY <1>1, NodesEnd, BaseIs, Constants, SMTT(60) DEF NothingBehind
    <3>6. CASE place < Base
      <4>1. ShiftsAt(dip, place) = {}
        <5>1. \A i \in 1..Len(dip.shifts) : dip.shifts[i].offset >= Base /\ dip.shifts[i].offset \in Int
          <6>1. \A i \in 1..Len(dip.shifts) : dip.shifts[i] \in ShiftEntries
            BY <1>1
          <6> QED BY <1>1, <6>1 DEF ShiftsInv, ShiftBehind, ShiftEntries
        <5> QED BY <3>5, <3>6, <5>1 DEF ShiftsAt
      <4>2. at = pos /\ pos < Base
        BY <2>1, <3>3, <3>4, <3>5, <3>6, <4>1
      <4>3. asked
        BY <3>2, <4>2
      <4>4. ReadPatched(pos, len)[k] = DriveByte(x)
        BY <3>1, <4>2, <4>3
      <4> QED BY <2>6, <3>6, <4>4 DEF ByteAt
    <3>7. CASE place >= Base /\ ShiftsAt(dip, place) = {}
      <4>1. at = pos
        BY <3>3, <3>4, <3>7
      <4>2. DriveByte(x) = Junk
        BY <1>7, <3>5, <3>7 DEF DriveByte
      <4>3. ReadPatched(pos, len)[k] = Junk
        BY <3>1, <4>1, <4>2
      <4>4. ~(place < Base)
        BY <3>5, <3>7
      <4>5. ByteAt(dip, place, x) = Junk
        BY <2>6, <3>7, <4>4 DEF ByteAt
      <4> QED BY <4>3, <4>5
    <3>8. CASE place >= Base /\ ShiftsAt(dip, place) # {}
      <4> DEFINE i == Max(ShiftsAt(dip, place))
      <4>1. i \in ShiftsAt(dip, place)
        <5>1. ShiftsAt(dip, place) \subseteq 1..Len(dip.shifts) /\ Len(dip.shifts) \in Nat
          BY <1>1 DEF ShiftsAt
        <5> QED BY <3>8, <5>1, MaxIs
      <4> HIDE DEF i
      <4>2. /\ i \in 1..Len(dip.shifts) /\ dip.shifts[i].offset = place
            /\ dip.shifts[i].length \in Int /\ dip.shifts[i].original \in Int
        <5>1. i \in 1..Len(dip.shifts) /\ dip.shifts[i].offset = place
          BY <4>1 DEF ShiftsAt
        <5>2. dip.shifts[i] \in ShiftEntries
          BY <1>1, <5>1
        <5> QED BY <5>1, <5>2 DEF ShiftEntries
      <4>3. x < dip.shifts[i].offset + dip.shifts[i].length
        <5>1. ~Covered(x)
          BY <2>6 DEF Covered, CoverAt
        <5>2. x < fst[n].offset + fst[n].size
          BY <1>7, <3>5
        <5>3. \A y \in Int : dip.shifts[i].offset + dip.shifts[i].length <= y /\ y < fst[n].offset + fst[n].size
                              => Covered(y)
          BY <1>1, <4>2 DEF CoversInv
        <5>4. ~(dip.shifts[i].offset + dip.shifts[i].length <= x)
          BY <2>1, <5>1, <5>2, <5>3
        <5> HIDE DEF x, place
        <5> QED BY <2>1, <3>5, <4>2, <5>4
      <4>4. Meets(dip.shifts[i], pos, len)
        BY <1>7, <3>5, <4>2, <4>3, SMTT(60) DEF Meets
      <4>5. i \in shifts
        BY <3>3, <4>2, <4>4
      <4>6. shifts = ShiftsAt(dip, place)
        BY <3>3, <4>1, <4>5
      <4>7. at = pos - dip.shifts[i].offset + dip.shifts[i].original /\ asked
        <5>1. i = Max(shifts) /\ shifts # {}
          BY <4>5, <4>6 DEF i
        <5> QED BY <3>2, <3>4, <5>1
      <4>8. at + k - 1 = x - dip.shifts[i].offset + dip.shifts[i].original
        <5> DEFINE a == dip.shifts[i].offset
                   b == dip.shifts[i].original
        <5>1. a \in Int /\ b \in Int /\ at = pos - a + b /\ k \in Int
          BY <3>5, <4>2, <4>7
        <5> HIDE DEF a, b
        <5>2. at + k - 1 = x - a + b
          BY <5>1
        <5> QED BY <5>2 DEF a, b
      <4>9. ReadPatched(pos, len)[k] = ShiftedByte(dip, i, x)
        BY <3>1, <4>7, <4>8 DEF ShiftedByte
      <4>10. ~(place < Base)
        BY <3>5, <3>8
      <4>11. ByteAt(dip, place, x) = ShiftedByte(dip, i, x)
        BY <2>6, <3>8, <4>10 DEF ByteAt, i
      <4> QED BY <4>9, <4>11
    <3> QED BY <3>5, <3>6, <3>7, <3>8, SMTT(60)
  <2> QED BY <2>5, <2>6
<1>8. ReadPatched(pos, len) = [k \in 1..len |-> ReadPatched(pos, len)[k]]
  BY <1>6, Zenon
<1> QED BY <1>7, <1>8

(* Before that the disc is read as it is. *)
LEMMA ReadBytes ==
  ASSUME LaidOut, NothingBehind, LayoutInv, FewMet,
         NEW n \in Names, There(n), NEW pos \in Int, NEW len \in Nat, Readable(pos, len),
         fst[n].offset <= pos, pos + len <= fst[n].offset + RoundUp(fst[n].size)
  PROVE  /\ ReadPatched(pos, len) = [k \in 1..len |-> ReadPatched(pos, len)[k]]
         /\ \A k \in 1..len : pos + k <= fst[n].offset + fst[n].size =>
              ReadPatched(pos, len)[k] = ByteAt(dip, fst[n].offset, pos + k - 1)
<1>1. CASE stage # "menu"
  BY <1>1, ReadIs
<1>2. CASE stage = "menu"
  <2>1. dip.patches = <<>> /\ dip.shifts = <<>> /\ ShapeInv /\ SizesInv /\ NodesInv
    BY <1>2, NoneBefore DEF LayoutInv
  <2>2. ReadPatched(pos, len) = [k \in 1..len |-> DriveByte(pos + k - 1)]
    BY <2>1, ReadUnpatched
  <2>3. ASSUME NEW k \in 1..len, pos + k <= fst[n].offset + fst[n].size
        PROVE  DriveByte(pos + k - 1) = ByteAt(dip, fst[n].offset, pos + k - 1)
    <3>1. fst[n].size \in Nat /\ fst[n].offset \in Nat /\ fst[n].size > 0
      <4>1. fst[n].size \in Nat /\ fst[n].offset \in Nat
        BY <2>1, NodeIs
      <4> QED BY <2>3, <4>1
    <3>2. PICK m \in DOMAIN Disc : fst[n].offset = Disc[m].offset /\ fst[n].size <= Disc[m].size
      BY <1>2, <2>1 DEF NodesInv, OnDisc
    <3>3. /\ Disc[m].size \in Nat /\ Disc[m].offset + RoundUp(Disc[m].size) <= Base
          /\ Base \in Nat
      BY Constants, BaseIs DEF LaidOut
    <3>4. Disc[m].size <= RoundUp(Disc[m].size) /\ RoundUp(Disc[m].size) \in Nat
      BY <3>3, RoundUpIs
    <3>5. fst[n].offset < Base
      BY <3>1, <3>2, <3>3, <3>4
    <3>6. CoverAt(dip, pos + k - 1) = {}
      BY <2>1 DEF CoverAt
    <3> QED BY <3>5, <3>6 DEF ByteAt
  <2> QED BY <2>2, <2>3
<1> QED BY <1>1, <1>2

(* Only files that exist come into the table. *)
LEMMA PresentNext ==
  ASSUME NoneMissing, ShapeInv, PresentInv, [Next]_vars
  PROVE  PresentInv'
<1>1. CASE SetFST
  BY <1>1, SetFSTIs DEF PresentInv
<1>2. CASE FindCommonFilesystem
  BY <1>2, FindCommonIs DEF PresentInv
<1>3. CASE PatchFile
  <2> DEFINE e == Head(todo)
  <2>1. /\ e \in FileElements /\ stage = "files" /\ todo # <<>>
        /\ Skipped(e) \/ GivenUp(e) \/ Patched(e)
    BY <1>3, PatchFileIs
  <2>2. e \in Elements
    BY <2>1, NextElement
  <2> HIDE DEF e
  <2>3. CASE Skipped(e) \/ GivenUp(e)
    BY <2>3 DEF Skipped, GivenUp, PresentInv
  <2>4. CASE Patched(e)
    <3>1. /\ dip'.files = Append(dip.files, NewFile(e)) /\ dip.files \in Seq(FileEntries)
          /\ NewFile(e) \in FileEntries
      BY <2>1, <2>4, PatchedTables DEF ShapeInv, Tables
    <3>2. NewFile(e).file \in Present
      BY <2>1, <2>2 DEF NoneMissing, NewFile, FileElements, IsFileElement
    <3>3. \A i \in 1..Len(dip'.files) : dip'.files[i].file \in Present
      BY <3>1, <3>2 DEF PresentInv
    <3> QED BY <3>3 DEF PresentInv
  <2> QED BY <2>1, <2>3, <2>4
<1>4. CASE PatchShift
  BY <1>4, PatchShiftIs DEF PresentInv
<1>5. CASE Launch \/ (\E p \in Partitions : OpenPartition(p)) \/ ClosePartition
  BY <1>5, GameIs DEF PresentInv
<1>6. CASE UNCHANGED vars
  BY <1>6 DEF vars, PresentInv
<1> QED BY <1>1, <1>2, <1>3, <1>4, <1>5, <1>6 DEF Next

(* The files kept can be read if they exist. *)
LEMMA CanReadIs ==
  ASSUME ShapeInv, ClustersInv, NEW i \in 1..Len(dip.patches)
  PROVE  CanRead(dip.patches[i].file) <=> dip.files[dip.patches[i].file].file \in Present
<1>1. dip.patches[i].file \in 1..Len(dip.files)
  BY DEF ShapeInv
<1> QED BY <1>1 DEF CanRead, ClustersInv

LEMMA ReadableIs ==
  ASSUME ShapeInv, ClustersInv, PresentInv, NEW pos, NEW len
  PROVE  Readable(pos, len)
<1> SUFFICES ASSUME NEW i \in FindPatch(dip.patches, pos, len) PROVE CanRead(dip.patches[i].file)
  BY DEF Readable
<1>1. i \in 1..Len(dip.patches)
  BY DEF FindPatch, ShapeInv, Tables
<1>2. dip.patches[i].file \in 1..Len(dip.files)
  BY <1>1 DEF ShapeInv
<1> QED BY <1>1, <1>2, CanReadIs DEF PresentInv

(* A file read piece by piece is the file read at once, however the pieces are
   cut and rounded up, on a disc whose files do not overlap, for elements that
   begin at words and fit the files they meet, and whose external files exist and
   hold their data, with no more patches over one file than FindPatch looks at. *)
THEOREM PiecesRead ==
  ASSUME LaidOut, NothingBehind, BelowHighWord, OffsetsInFiles, NoneMissing
  PROVE  Spec /\ []Fits /\ []FewMet => []PiecesAgree
<1>1. Init => LayoutInv /\ ClustersInv /\ PresentInv
  BY LayoutInit DEF Init, ClustersInv, PresentInv
<1>2. LayoutInv /\ Fits /\ [Next]_vars => LayoutInv'
  BY LayoutNext
<1>3. LayoutInv /\ ClustersInv /\ PresentInv /\ [Next]_vars => ClustersInv' /\ PresentInv'
  BY ClustersNext, PresentNext DEF LayoutInv
<1>4. LayoutInv /\ ClustersInv /\ PresentInv /\ FewMet => PiecesAgree
  <2> SUFFICES ASSUME LayoutInv, ClustersInv, PresentInv, FewMet, NEW n \in Names, There(n),
                      NEW from \in 0..(fst[n].size - 1), NEW len \in 1..RoundUp(fst[n].size),
                      from + len <= RoundUp(fst[n].size),
                      NEW k \in 1..len, from + k <= fst[n].size
               PROVE  ReadPatched(fst[n].offset + from, len)[k] = Content(n)[from + k]
    BY DEF PiecesAgree, There
  <2>1. ShapeInv /\ SizesInv /\ \A p, l : Readable(p, l)
    BY ReadableIs DEF LayoutInv
  <2>2. fst[n].offset \in Nat /\ fst[n].size \in Nat
    BY <2>1, NodeIs
  <2>3. RoundUp(fst[n].size) \in Nat /\ fst[n].size <= RoundUp(fst[n].size)
    BY <2>2, RoundUpIs
  <2>4. Content(n) = ReadPatched(fst[n].offset, fst[n].size)
    BY DEF Content, There
  <2>5. ReadPatched(fst[n].offset, fst[n].size)[from + k] = ByteAt(dip, fst[n].offset, fst[n].offset + (from + k) - 1)
    <3>1. from + k \in 1..fst[n].size /\ fst[n].offset + (from + k) <= fst[n].offset + fst[n].size
      BY <2>2
    <3>2. fst[n].offset + fst[n].size <= fst[n].offset + RoundUp(fst[n].size) /\ fst[n].offset \in Int
          /\ fst[n].offset <= fst[n].offset
      BY <2>2, <2>3
    <3>3. \A j \in 1..fst[n].size : fst[n].offset + j <= fst[n].offset + fst[n].size =>
             ReadPatched(fst[n].offset, fst[n].size)[j] = ByteAt(dip, fst[n].offset, fst[n].offset + j - 1)
      BY <2>1, <2>2, <3>2, ReadBytes
    <3> QED BY <3>1, <3>3
  <2>6. ReadPatched(fst[n].offset + from, len)[k] = ByteAt(dip, fst[n].offset, fst[n].offset + from + k - 1)
    <3>1. /\ fst[n].offset + from \in Int /\ len \in Nat /\ fst[n].offset <= fst[n].offset + from
          /\ fst[n].offset + from + len <= fst[n].offset + RoundUp(fst[n].size)
          /\ fst[n].offset + from + k <= fst[n].offset + fst[n].size
      BY <2>2, <2>3
    <3> QED BY <2>1, <3>1, ReadBytes
  <2>7. fst[n].offset + (from + k) - 1 = fst[n].offset + from + k - 1
    BY <2>2
  <2> QED BY <2>4, <2>5, <2>6, <2>7
<1> QED BY <1>1, <1>2, <1>3, <1>4, PTL DEF Spec

-----------------------------------------------------------------------------
(* DiscView: the contents of the files, as the elements ask for them. *)

(* The offset into an external file, which the DIP module does not look at, is
   not used. *)
NoFileOffsets == \A e \in Elements : IsFileElement(e) => e.fileoffset = 0

(* An element that cuts a file, and not at its start, has data. *)
CutsHaveData ==
  \A e \in Elements :
    IsFileElement(e) /\ e.external \in Present /\ e.resize /\ e.offset > 0 => LengthOf(e) > 0

(* The files that a folder lists exist. *)
StatsExist == \A e \in Elements : IsFileElement(e) /\ e.stat => e.external \in Present

(* The patches of files that do not exist have the length their element says. *)
Missing(d, i) == d.files[d.patches[i].file].file \notin Present
MissingInv == \A i \in 1..Len(dip.patches) : Missing(dip, i) => dip.patches[i].length > 0

(* A file that a shift leads back from is patched somewhere. *)
OccupiedInv ==
  \A i \in 1..Len(dip.shifts), n \in Names :
    There(n) /\ fst[n].offset = dip.shifts[i].offset /\ fst[n].size > 0 =>
      \E x \in Int : fst[n].offset <= x /\ x < fst[n].offset + fst[n].size /\ Covered(x)

(* Without an offset an element's data is in its file. *)
LEMMA OffsetsAreInFiles ==
  ASSUME NoFileOffsets
  PROVE  OffsetsInFiles
<1> SUFFICES ASSUME NEW e \in Elements, IsFileElement(e) PROVE e.fileoffset <= FileSize[e.external]
  BY DEF OffsetsInFiles
<1>1. e.fileoffset = 0 /\ e \in FileElements
  BY Constants DEF NoFileOffsets, IsFileElement, ShiftElements
<1>2. FileSize[e.external] \in Nat
  BY <1>1, Constants DEF FileElements
<1> QED BY <1>1, <1>2

(* An element whose file does not exist is given up or says a length. *)
LEMMA MissingHasLength ==
  ASSUME StatsExist, NEW e \in FileElements, e \in Elements, e.external \notin Present
  PROVE  GivesUp(e) \/ (LengthOf(e) \in Nat /\ LengthOf(e) > 0)
<1>1. ~e.stat
  BY DEF StatsExist, IsFileElement, FileElements
<1>2. e.length \in Nat
  BY DEF FileElements
<1>3. CASE e.length = 0
  BY <1>1, <1>3 DEF GivesUp
<1>4. CASE e.length # 0
  <2>1. LengthOf(e) = e.length
    BY <1>4 DEF LengthOf
  <2> QED BY <1>2, <1>4, <2>1
<1> QED BY <1>3, <1>4

LEMMA MissingNext ==
  ASSUME StatsExist, ShapeInv, MissingInv, [Next]_vars
  PROVE  MissingInv'
<1>1. CASE SetFST
  BY <1>1, SetFSTIs DEF MissingInv, Missing
<1>2. CASE FindCommonFilesystem
  BY <1>2, FindCommonIs DEF MissingInv, Missing
<1>3. CASE PatchFile
  <2> DEFINE e == Head(todo)
  <2>1. /\ e \in FileElements /\ stage = "files" /\ todo # <<>>
        /\ Skipped(e) \/ GivenUp(e) \/ Patched(e)
    BY <1>3, PatchFileIs
  <2>2. e \in Elements
    BY <2>1, NextElement
  <2> HIDE DEF e
  <2>3. CASE Skipped(e) \/ GivenUp(e)
    BY <2>3 DEF Skipped, GivenUp, MissingInv, Missing
  <2>4. CASE Patched(e)
    <3>1. /\ dip'.files = Append(dip.files, NewFile(e)) /\ dip.files \in Seq(FileEntries)
          /\ NewFile(e) \in FileEntries
          /\ dip'.patches = Append(dip.patches, NewPatch(e)) /\ dip.patches \in Seq(PatchEntries)
          /\ NewPatch(e) \in PatchEntries
      BY <2>1, <2>4, PatchedTables DEF ShapeInv, Tables
    <3>2. e.external \notin Present => LengthOf(e) > 0
      BY <2>1, <2>2, <2>4, MissingHasLength DEF Patched
    <3>3. ASSUME NEW i \in 1..Len(dip'.patches), Missing(dip', i) PROVE dip'.patches[i].length > 0
      <4>1. CASE i \in 1..Len(dip.patches)
        <5>1. dip'.patches[i] = dip.patches[i] /\ dip.patches[i].file \in 1..Len(dip.files)
          BY <3>1, <4>1 DEF ShapeInv
        <5>2. dip'.files[dip.patches[i].file] = dip.files[dip.patches[i].file]
          BY <3>1, <5>1
        <5> QED BY <3>3, <4>1, <5>1, <5>2 DEF MissingInv, Missing
      <4>2. CASE i = Len(dip.patches) + 1
        <5>1. dip'.patches[i] = NewPatch(e) /\ dip'.files[Len(dip.files) + 1] = NewFile(e)
          BY <3>1, <4>2
        <5>2. NewPatch(e).file = Len(dip.files) + 1 /\ NewPatch(e).length = LengthOf(e)
              /\ NewFile(e).file = e.external
          BY DEF NewPatch, NewFile
        <5> QED BY <3>2, <3>3, <5>1, <5>2 DEF Missing
      <4> QED BY <3>1, <4>1, <4>2
    <3> QED BY <3>3 DEF MissingInv, Missing
  <2> QED BY <2>1, <2>3, <2>4
<1>4. CASE PatchShift
  BY <1>4, PatchShiftIs DEF MissingInv, Missing
<1>5. CASE Launch \/ (\E p \in Partitions : OpenPartition(p)) \/ ClosePartition
  BY <1>5, GameIs DEF MissingInv, Missing
<1>6. CASE UNCHANGED vars
  BY <1>6 DEF vars, MissingInv, Missing
<1> QED BY <1>1, <1>2, <1>3, <1>4, <1>5, <1>6 DEF Next

(* OccupiedInv through an element that is patched. *)
LEMMA OccupiedPatched ==
  ASSUME LaidOut, OffsetsInFiles, CutsHaveData, StatsExist, LayoutInv, OccupiedInv, Fits,
         stage = "files", stage' = stage,
         todo # <<>>, NEW e \in FileElements, e \in Elements, e = Head(todo), Patched(e)
  PROVE  OccupiedInv'
<1> DEFINE p == NewPatch(e)
           s == NewShift(e)
           node == NewNode(e)
<1>1. ShapeInv /\ SizesInv /\ NodesInv /\ ApartInv /\ ShiftsInv /\ CoversInv
  BY DEF LayoutInv
<1>2. /\ node \in [offset : Nat, size : Nat] /\ shift' \in Int /\ NodeSet(e.disc, node)
      /\ IF Moves(e) \/ ~There(e.disc) THEN Fresh(node)
         ELSE PlaceOf(e) = fst[e.disc].offset /\ SizeOf(e) <= fst[e.disc].size
      /\ LengthOf(e) \in Nat /\ e.offset \in Nat /\ NodeOf(e).size \in Nat
      /\ e.offset <= NodeOf(e).size
      /\ Grows(e) => SizeOf(e) = e.offset + LengthOf(e) /\ NodeOf(e).size < SizeOf(e)
  BY <1>1, PatchedSets
<1>3. /\ dip'.patches = Append(dip.patches, p)
      /\ dip'.shifts = IF Grows(e) /\ e.offset > 0 THEN Append(dip.shifts, s) ELSE dip.shifts
      /\ p \in PatchEntries /\ s \in ShiftEntries
      /\ PlaceOf(e) \in Int /\ SizeOf(e) \in Int
  BY <1>1, PatchedTables
<1>4. /\ p.offset = PlaceOf(e) + e.offset /\ p.length = LengthOf(e)
      /\ s.offset = PlaceOf(e)
      /\ node.offset = PlaceOf(e) /\ node.size = SizeOf(e)
      /\ SizeOf(e) = IF e.resize THEN e.offset + LengthOf(e) ELSE NodeOf(e).size
  BY <1>1, PatchWords DEF NewNode, SizeOf
<1> HIDE DEF p, s, node
<1>5. \A x : Covered(x) \/ Covers(p, x) => Covered(x)'
  BY <1>1, <1>3, PatchMore
<1>6. /\ e.disc \in Names /\ shift \in Int /\ stage # "menu"
      /\ \A m \in Names : fst'[m] = IF m = e.disc THEN node ELSE fst[m]
  BY <1>1, <1>2 DEF FileElements, ShapeInv, NodeSet
<1> SUFFICES ASSUME NEW i \in 1..Len(dip'.shifts), NEW n \in Names, There(n)',
                    fst'[n].offset = dip'.shifts[i].offset, fst'[n].size > 0
             PROVE  \E x \in Int : fst'[n].offset <= x /\ x < fst'[n].offset + fst'[n].size /\ Covered(x)'
  BY DEF OccupiedInv, There, Covered, Covers
<1>7. CASE i \in 1..Len(dip.shifts) /\ dip'.shifts[i] = dip.shifts[i]
  <2>1. dip.shifts[i].offset < shift /\ dip.shifts[i].offset \in Int
    BY <1>1, <1>2, <1>6, <1>7, ShiftsClear DEF ShiftEntries
  <2>2. CASE n # e.disc \/ node = fst[n]
    <3>1. There(n) /\ fst'[n] = fst[n]
      BY <1>6, <2>2 DEF There
    <3>2. \E x \in Int : fst[n].offset <= x /\ x < fst[n].offset + fst[n].size /\ Covered(x)
      BY <1>7, <3>1 DEF OccupiedInv
    <3> QED BY <1>5, <3>1, <3>2
  <2>3. CASE n = e.disc /\ Fresh(node)
    BY <1>6, <1>7, <2>1, <2>3 DEF Fresh
  <2>4. CASE n = e.disc /\ ~Fresh(node) /\ node # fst[n]
    <3>1. There(n) /\ PlaceOf(e) = fst[n].offset /\ NodeOf(e) = fst[n] /\ SizeOf(e) <= fst[n].size
      BY <1>2, <2>4 DEF NodeOf, There
    <3>2. SizeOf(e) > 0 /\ fst'[n].offset = PlaceOf(e) /\ fst'[n].size = SizeOf(e)
      BY <1>4, <1>6, <2>4
    <3>3. CASE e.resize
      <4>1. LengthOf(e) > 0
        <5>1. CASE e.external \in Present
          <6>1. e.resize /\ e.offset > 0 => LengthOf(e) > 0
            BY <5>1 DEF CutsHaveData, IsFileElement, FileElements
          <6> QED BY <1>2, <1>3, <1>4, <3>2, <3>3, <6>1
        <5>2. CASE e.external \notin Present
          BY <5>2, MissingHasLength DEF Patched
        <5> QED BY <5>1, <5>2
      <4>2. Covers(p, PlaceOf(e) + e.offset) /\ PlaceOf(e) + e.offset < PlaceOf(e) + SizeOf(e)
        BY <1>2, <1>3, <1>4, <3>3, <4>1, SMTT(60) DEF Covers
      <4>3. PlaceOf(e) + e.offset \in Int /\ PlaceOf(e) <= PlaceOf(e) + e.offset
        BY <1>2, <1>3
      <4> QED BY <1>5, <3>2, <4>2, <4>3
    <3>4. CASE ~e.resize
      <4>1. fst'[n].offset = fst[n].offset /\ fst'[n].size = fst[n].size
        BY <1>4, <3>1, <3>2, <3>4
      <4>2. \E x \in Int : fst[n].offset <= x /\ x < fst[n].offset + fst[n].size /\ Covered(x)
        BY <1>7, <3>1, <4>1 DEF OccupiedInv
      <4> QED BY <1>5, <4>1, <4>2
    <3> QED BY <3>3, <3>4
  <2> QED BY <2>2, <2>3, <2>4
<1>8. CASE Grows(e) /\ e.offset > 0 /\ dip'.shifts[i] = s
  <2>1. Fresh(node)
    BY <1>2, <1>8 DEF Moves
  <2>2. n = e.disc
    <3> SUFFICES ASSUME n # e.disc PROVE FALSE
      OBVIOUS
    <3>1. There(n) /\ fst'[n] = fst[n]
      BY <1>6 DEF There
    <3>2. fst[n].offset \in Nat /\ fst[n].size \in Nat /\ fst[n].offset + fst[n].size <= shift
      BY <1>1, <1>6, <3>1, NodesEnd
    <3>3. fst[n].offset >= shift /\ fst[n].size > 0
      BY <1>4, <1>8, <2>1, <3>1 DEF Fresh
    <3> QED BY <1>6, <3>2, <3>3
  <2>3. fst'[n].offset = PlaceOf(e) /\ fst'[n].size = SizeOf(e)
    BY <1>4, <1>6, <2>2
  <2> DEFINE x == PlaceOf(e) + NodeOf(e).size
  <2>4. x \in Int /\ PlaceOf(e) <= x /\ x < PlaceOf(e) + SizeOf(e) /\ Covers(p, x)
    BY <1>2, <1>3, <1>4, <1>8, SMTT(60) DEF Covers
  <2> HIDE DEF x
  <2> QED BY <1>5, <2>3, <2>4
<1>9. \/ i \in 1..Len(dip.shifts) /\ dip'.shifts[i] = dip.shifts[i]
      \/ Grows(e) /\ e.offset > 0 /\ dip'.shifts[i] = s
  <2>1. dip.shifts \in Seq(ShiftEntries)
    BY <1>1 DEF ShapeInv, Tables
  <2> QED BY <1>3, <2>1
<1> QED BY <1>7, <1>8, <1>9

(* And through the others. *)
LEMMA OccupiedNext ==
  ASSUME LaidOut, NoFileOffsets, CutsHaveData, StatsExist, LayoutInv, OccupiedInv, Fits, [Next]_vars
  PROVE  OccupiedInv'
<1>1. ShapeInv /\ PartitionInv /\ SizesInv
  BY DEF LayoutInv
<1>2. ASSUME fst' = fst, dip'.patches = dip.patches, dip'.shifts = dip.shifts
      PROVE  OccupiedInv'
  BY <1>2 DEF OccupiedInv, There, Covered, Covers
<1>3. CASE SetFST
  BY <1>1, <1>2, <1>3, SetFSTIs
<1>4. CASE FindCommonFilesystem
  BY <1>1, <1>2, <1>4, FindCommonIs
<1>5. CASE PatchFile
  <2> DEFINE e == Head(todo)
  <2>1. /\ stage = "files" /\ todo # <<>> /\ e \in FileElements /\ stage' = stage
        /\ Skipped(e) \/ GivenUp(e) \/ Patched(e)
    BY <1>1, <1>5, PatchFileIs
  <2>2. e \in Elements /\ e = Head(todo)
    BY <1>1, <2>1, NextElement
  <2> HIDE DEF e
  <2>3. CASE Skipped(e)
    BY <1>2, <2>3 DEF Skipped
  <2>4. CASE Patched(e)
    BY <2>1, <2>2, <2>4, OffsetsAreInFiles, OccupiedPatched
  <2>5. CASE GivenUp(e)
    <3>1. /\ NodeOf(e) \in [offset : Nat, size : Nat] /\ NodeSet(e.disc, NodeOf(e)) /\ UNCHANGED dip
          /\ e.disc \in Names /\ shift \in Int
      BY <1>1, <2>1, <2>2, <2>5, OffsetsAreInFiles, GivenUpSets DEF FileElements, ShapeInv, LayoutInv, GivenUp
    <3>2. \A n \in Names : fst'[n] = IF n = e.disc THEN NodeOf(e) ELSE fst[n]
      BY <1>1, <3>1 DEF NodeSet, ShapeInv
    <3>3. ASSUME NEW i \in 1..Len(dip.shifts), NEW n \in Names, There(n)',
                 fst'[n].offset = dip.shifts[i].offset, fst'[n].size > 0
          PROVE  \E x \in Int : fst'[n].offset <= x /\ x < fst'[n].offset + fst'[n].size /\ Covered(x)
      <4>1. CASE n = e.disc /\ ~There(e.disc)
        <5>1. fst'[n].offset = shift
          BY <3>2, <4>1 DEF NodeOf, Created, There
        <5>2. dip.shifts[i] \in ShiftEntries /\ ShiftBehind(dip.shifts[i], shift)
          BY <1>1 DEF LayoutInv, ShiftsInv, ShapeInv, Tables
        <5> QED BY <3>1, <3>3, <5>1, <5>2 DEF ShiftBehind, ShiftEntries
      <4>2. CASE n # e.disc \/ There(e.disc)
        <5>1. fst'[n] = fst[n] /\ There(n)
          BY <3>2, <3>3, <4>2 DEF NodeOf, There
        <5>2. \E x \in Int : fst[n].offset <= x /\ x < fst[n].offset + fst[n].size /\ Covered(x)
          BY <3>3, <5>1 DEF OccupiedInv
        <5> QED BY <5>1, <5>2
      <4> QED BY <4>1, <4>2
    <3>4. \A x : Covered(x)' <=> Covered(x)
      BY <3>1 DEF Covered, Covers
    <3> QED BY <3>1, <3>3, <3>4 DEF OccupiedInv
  <2> QED BY <2>1, <2>3, <2>4, <2>5
<1>6. CASE PatchShift
  <2> DEFINE n == Head(todo).disc
             m == Head(todo).source
  <2>1. /\ n \in Names /\ m \in Names /\ UNCHANGED dip
        /\ fst' = fst \/ (There(m) /\ fst' = [fst EXCEPT ![n] = fst[m]])
    BY <1>1, <1>6, PatchShiftIs DEF ShiftElements, There
  <2> HIDE DEF n, m
  <2>2. CASE There(m) /\ fst' = [fst EXCEPT ![n] = fst[m]]
    <3>1. \A k \in Names : \E j \in Names : fst'[k] = fst[j] /\ (There(k)' => There(j))
      BY <1>1, <2>1, <2>2 DEF ShapeInv, There
    <3>2. ASSUME NEW i \in 1..Len(dip.shifts), NEW k \in Names, There(k)',
                 fst'[k].offset = dip.shifts[i].offset, fst'[k].size > 0
          PROVE  \E x \in Int : fst'[k].offset <= x /\ x < fst'[k].offset + fst'[k].size /\ Covered(x)
      <4>1. PICK j \in Names : fst'[k] = fst[j] /\ There(j)
        BY <3>1, <3>2
      <4>2. \E x \in Int : fst[j].offset <= x /\ x < fst[j].offset + fst[j].size /\ Covered(x)
        BY <3>2, <4>1 DEF OccupiedInv
      <4> QED BY <4>1, <4>2
    <3>3. \A x : Covered(x)' <=> Covered(x)
      BY <2>1 DEF Covered, Covers
    <3> QED BY <2>1, <3>2, <3>3 DEF OccupiedInv
  <2> QED BY <1>2, <2>1, <2>2
<1>7. CASE Launch \/ (\E p \in Partitions : OpenPartition(p)) \/ ClosePartition
  BY <1>1, <1>2, <1>7, GameIs
<1>8. CASE UNCHANGED vars
  BY <1>2, <1>8 DEF vars
<1> QED BY <1>3, <1>4, <1>5, <1>6, <1>7, <1>8 DEF Next

(* The bytes of a file that is at a node, and so the content of each name: not
   to be read if a patch is met whose file does not exist. *)
BytesOf(d, node) == [k \in 1..node.size |-> ByteAt(d, node.offset, node.offset + k - 1)]
Lost(d, node) ==
  \E i \in 1..Len(d.patches) : Missing(d, i) /\ Meets(d.patches[i], node.offset, node.size)
Shown(d, node) == IF Lost(d, node) THEN Unreadable ELSE BytesOf(d, node)
ContentsAre == \A n \in Names : Content(n) = IF There(n) THEN Shown(dip, fst[n]) ELSE None

(* Every byte is one that can be told from the other contents. *)
LEMMA ByteIs ==
  ASSUME ShapeInv, NEW place \in Int, NEW x \in Int
  PROVE  ByteAt(dip, place, x) \in Bytes
<1>1. dip.patches \in Seq(PatchEntries) /\ dip.shifts \in Seq(ShiftEntries) /\ dip.files \in Seq(FileEntries)
  BY DEF ShapeInv, Tables
<1>2. \A y \in Int : DriveByte(y) \in Bytes /\ Junk \in Bytes
  BY DEF DriveByte, Junk, Byte, Bytes
<1>3. CASE CoverAt(dip, x) # {}
  <2>1. Max(CoverAt(dip, x)) \in 1..Len(dip.patches)
    <3>1. Len(dip.patches) \in Nat /\ CoverAt(dip, x) \subseteq 1..Len(dip.patches)
      BY <1>1 DEF CoverAt
    <3> QED BY <1>3, <3>1, MaxIs
  <2> DEFINE p == dip.patches[Max(CoverAt(dip, x))]
  <2>2. p \in PatchEntries /\ p.file \in 1..Len(dip.files)
    BY <1>1, <2>1 DEF ShapeInv
  <2> HIDE DEF p
  <2>3. dip.files[p.file].file \in Files /\ x + 1 - p.offset \in Int
    <3>1. dip.files[p.file] \in FileEntries
      BY <1>1, <2>2
    <3> QED BY <2>2, <3>1 DEF FileEntries, PatchEntries
  <2>4. PatchByte(dip, p, x) \in Bytes
    <3>1. Byte(dip.files[p.file].file, x + 1 - p.offset) \in Bytes
      BY <2>3 DEF Byte, Bytes
    <3> QED BY <1>2, <3>1 DEF PatchByte
  <2> QED BY <1>3, <2>4 DEF ByteAt, p
<1>4. CASE CoverAt(dip, x) = {} /\ ShiftsAt(dip, place) # {}
  <2>1. Max(ShiftsAt(dip, place)) \in 1..Len(dip.shifts)
    <3>1. Len(dip.shifts) \in Nat /\ ShiftsAt(dip, place) \subseteq 1..Len(dip.shifts)
      BY <1>1 DEF ShiftsAt
    <3> QED BY <1>4, <3>1, MaxIs
  <2>2. dip.shifts[Max(ShiftsAt(dip, place))] \in ShiftEntries
    BY <1>1, <2>1
  <2>3. ShiftedByte(dip, Max(ShiftsAt(dip, place)), x) \in Bytes
    BY <1>2, <2>2 DEF ShiftedByte, ShiftEntries
  <2> QED BY <1>2, <1>4, <2>3 DEF ByteAt
<1>5. CASE CoverAt(dip, x) = {} /\ ShiftsAt(dip, place) = {}
  BY <1>2, <1>5 DEF ByteAt
<1> QED BY <1>3, <1>4, <1>5

(* Contents can be told from None and Unreadable, and are as long as the file. *)
LEMMA ShownIs ==
  ASSUME ShapeInv, SizesInv, NEW n \in Names, There(n)
  PROVE  /\ Shown(dip, fst[n]) # None
         /\ Shown(dip, fst[n]) = Unreadable <=> Lost(dip, fst[n])
         /\ ~Lost(dip, fst[n]) =>
              /\ Shown(dip, fst[n]) = BytesOf(dip, fst[n])
              /\ Len(Shown(dip, fst[n])) = fst[n].size
              /\ fst[n].size = 0 => Shown(dip, fst[n]) = <<>>
<1>1. fst[n].offset \in Nat /\ fst[n].size \in Nat
  BY NodeIs
<1>2. \A k \in 1..fst[n].size : ByteAt(dip, fst[n].offset, fst[n].offset + k - 1) \in Bytes
  BY <1>1, ByteIs
<1>3. BytesOf(dip, fst[n]) \in Seq(Bytes) /\ Len(BytesOf(dip, fst[n])) = fst[n].size
  BY <1>1, <1>2 DEF BytesOf
<1>4. fst[n].size = 0 => BytesOf(dip, fst[n]) = <<>>
  BY <1>3
<1>5. BytesOf(dip, fst[n]) \notin {None, Unreadable} /\ Unreadable # None
  BY <1>3, DiscPatchAssumption
<1> QED BY <1>3, <1>4, <1>5 DEF Shown

(* A file that can be read as a whole is its bytes. *)
LEMMA WholeRead ==
  ASSUME LaidOut, NothingBehind, LayoutInv, FewMet, NEW n \in Names, There(n),
         Readable(fst[n].offset, fst[n].size)
  PROVE  ReadPatched(fst[n].offset, fst[n].size) = BytesOf(dip, fst[n])
<1> DEFINE pos == fst[n].offset
           len == fst[n].size
           r == ReadPatched(pos, len)
<1>1. pos \in Nat /\ len \in Nat
  BY NodeIs DEF LayoutInv
<1>2. len <= RoundUp(len) /\ RoundUp(len) \in Nat
  BY <1>1, RoundUpIs
<1>3. /\ fst[n].offset <= pos /\ pos + len <= fst[n].offset + RoundUp(fst[n].size)
      /\ Readable(pos, len)
  BY <1>1, <1>2
<1>4. pos = fst[n].offset /\ len = fst[n].size
  OBVIOUS
<1> HIDE DEF pos, len
<1>5. /\ r = [k \in 1..len |-> r[k]]
      /\ \A k \in 1..len : pos + k <= fst[n].offset + fst[n].size =>
           r[k] = ByteAt(dip, fst[n].offset, pos + k - 1)
  BY <1>1, <1>3, ReadBytes
<1> HIDE DEF r
<1>6. \A k \in 1..len : r[k] = ByteAt(dip, pos, pos + k - 1)
  <2> SUFFICES ASSUME NEW k \in 1..len PROVE r[k] = ByteAt(dip, pos, pos + k - 1)
    OBVIOUS
  <2>1. pos + k <= fst[n].offset + fst[n].size
    BY <1>1, <1>4
  <2> QED BY <1>4, <1>5, <2>1
<1>7. r = [k \in 1..len |-> ByteAt(dip, pos, pos + k - 1)]
  BY <1>5, <1>6
<1> QED BY <1>7 DEF BytesOf, r, pos, len

(* The content of every name. *)
LEMMA ContentsHold ==
  ASSUME LaidOut, NothingBehind, LayoutInv, ClustersInv, FewMet
  PROVE  ContentsAre
<1> SUFFICES ASSUME NEW n \in Names PROVE Content(n) = IF There(n) THEN Shown(dip, fst[n]) ELSE None
  BY DEF ContentsAre
<1>1. CASE ~There(n)
  BY <1>1 DEF Content, There
<1>2. CASE There(n)
  <2>1. ShapeInv /\ SizesInv /\ fst[n].offset \in Nat /\ fst[n].size \in Nat
    BY <1>2, NodeIs DEF LayoutInv
  <2>2. RoundUp(fst[n].size) \in Nat /\ fst[n].size <= RoundUp(fst[n].size)
    BY <2>1, RoundUpIs
  <2> DEFINE met == FindPatch(dip.patches, fst[n].offset, fst[n].size)
             r == ReadPatched(fst[n].offset, fst[n].size)
  <2>3. met = {i \in 1..Len(dip.patches) : Meets(dip.patches[i], fst[n].offset, fst[n].size)}
    <3>1. CASE fst[n].size > 0
      <4>1. /\ fst[n].offset \in Int /\ fst[n].size \in Nat \ {0} /\ fst[n].offset <= fst[n].offset
            /\ fst[n].offset + fst[n].size <= fst[n].offset + RoundUp(fst[n].size)
        BY <2>1, <2>2, <3>1
      <4> QED BY <1>2, <2>1, <4>1, PatchesMet
    <3>2. CASE fst[n].size = 0
      <4>1. Len(dip.patches) \in Nat /\ DOMAIN dip.patches = 1..Len(dip.patches)
        BY <2>1 DEF ShapeInv, Tables
      <4>2. RoundUp(fst[n].size) = fst[n].size
        <5>1. 0 \in Int /\ 0 = 0 * Align /\ 0 <= 0 /\ 0 < 0 + Align
          BY Constants
        <5>2. Aligned(0)
          BY <5>1, Zenon DEF Aligned
        <5>3. RoundUp(0) = 0
          BY <5>1, <5>2, RoundUpOnce
        <5> QED BY <3>2, <5>3
      <4>3. /\ MetBy(n) \in SUBSET (1..Len(dip.patches)) /\ Cardinality(MetBy(n)) <= MaxFound
            /\ \A i \in 1..Len(dip.patches) :
                 Meets(dip.patches[i], fst[n].offset, fst[n].size) => i \in MetBy(n)
        BY <1>2, <4>1, <4>2 DEF FewMet, MetBy
      <4> QED BY <4>1, <4>3, FindsAll
    <3> QED BY <2>1, <3>1, <3>2
  <2>4. \A i \in met : CanRead(dip.patches[i].file) <=> ~Missing(dip, i)
    BY <2>1, <2>3, CanReadIs DEF Missing
  <2>5. Content(n) = r
    BY <1>2 DEF Content, There
  <2>6. CASE Lost(dip, fst[n])
    <3>1. PICK i \in met : ~CanRead(dip.patches[i].file)
      BY <2>3, <2>4, <2>6 DEF Lost
    <3>2. Part(dip.patches[i], fst[n].offset, fst[n].size).file = dip.patches[i].file
      <4>1. dip.patches[i] \in PatchEntries
        BY <2>1, <2>3, SMTT(60) DEF ShapeInv, Tables
      <4> QED BY <2>1, <4>1, PartIs
    <3>3. r = Unreadable
      BY <3>1, <3>2, Zenon DEF ReadPatched
    <3> QED BY <1>2, <2>5, <2>6, <3>3 DEF Shown
  <2>7. CASE ~Lost(dip, fst[n])
    <3>1. Readable(fst[n].offset, fst[n].size)
      BY <2>3, <2>4, <2>7 DEF Readable, Lost
    <3>2. r = BytesOf(dip, fst[n])
      BY <1>2, <3>1, WholeRead
    <3> QED BY <1>2, <2>5, <2>7, <3>2 DEF Shown
  <2> QED BY <2>6, <2>7
<1> QED BY <1>1, <1>2

(* Where files, patches and shifts stay, so do the contents. *)
LEMMA ShownKept ==
  ASSUME NEW d, NEW b, d.files = b.files, d.patches = b.patches, d.shifts = b.shifts, NEW node
  PROVE  Shown(d, node) = Shown(b, node)
BY DEF Shown, Lost, Missing, BytesOf, ByteAt, CoverAt, PatchByte, ShiftsAt, ShiftedByte

(* A byte that the patch of an element does not cover, at a place that it has
   no shift for, is what it was. *)
LEMMA ByteSame ==
  ASSUME ShapeInv, NEW e \in FileElements, Patched(e), NEW place \in Int, NEW x \in Int,
         ~Covers(NewPatch(e), x), Grows(e) /\ e.offset > 0 => place # NewShift(e).offset
  PROVE  ByteAt(dip', place, x) = ByteAt(dip, place, x)
<1>1. /\ dip'.files = Append(dip.files, NewFile(e)) /\ dip'.patches = Append(dip.patches, NewPatch(e))
      /\ dip'.shifts = IF Grows(e) /\ e.offset > 0 THEN Append(dip.shifts, NewShift(e)) ELSE dip.shifts
      /\ NewFile(e) \in FileEntries /\ NewPatch(e) \in PatchEntries /\ NewShift(e) \in ShiftEntries
  BY PatchedTables
<1>2. dip.files \in Seq(FileEntries) /\ dip.patches \in Seq(PatchEntries) /\ dip.shifts \in Seq(ShiftEntries)
  BY DEF ShapeInv, Tables
<1>3. CoverAt(dip', x) = CoverAt(dip, x)
  <2>1. /\ Len(dip'.patches) = Len(dip.patches) + 1 /\ Len(dip.patches) \in Nat
        /\ \A i \in 1..Len(dip.patches) : dip'.patches[i] = dip.patches[i]
        /\ dip'.patches[Len(dip.patches) + 1] = NewPatch(e)
    BY <1>1, <1>2
  <2> QED BY <2>1, SMTT(60) DEF CoverAt
<1>4. ASSUME CoverAt(dip, x) # {}
      PROVE  LET i == Max(CoverAt(dip, x))
             IN  PatchByte(dip', dip'.patches[i], x) = PatchByte(dip, dip.patches[i], x)
  <2> DEFINE i == Max(CoverAt(dip, x))
  <2>1. i \in 1..Len(dip.patches)
    <3>1. Len(dip.patches) \in Nat /\ CoverAt(dip, x) \subseteq 1..Len(dip.patches)
      BY <1>2 DEF CoverAt
    <3> QED BY <1>4, <3>1, MaxIs
  <2> HIDE DEF i
  <2>2. dip'.patches[i] = dip.patches[i]
    BY <1>1, <1>2, <2>1
  <2>3. dip'.files[dip.patches[i].file] = dip.files[dip.patches[i].file]
    <3>1. dip.patches[i].file \in 1..Len(dip.files)
      BY <2>1 DEF ShapeInv
    <3> QED BY <1>1, <1>2, <3>1
  <2>4. PatchByte(dip', dip'.patches[i], x) = PatchByte(dip, dip.patches[i], x)
    BY <2>2, <2>3, Zenon DEF PatchByte
  <2> QED BY <2>4 DEF i
<1>5. ShiftsAt(dip', place) = ShiftsAt(dip, place)
      /\ \A i \in ShiftsAt(dip, place) : ShiftedByte(dip', i, x) = ShiftedByte(dip, i, x)
  <2>1. CASE ~(Grows(e) /\ e.offset > 0)
    BY <1>1, <2>1 DEF ShiftsAt, ShiftedByte
  <2>2. CASE Grows(e) /\ e.offset > 0
    <3>1. /\ Len(dip'.shifts) = Len(dip.shifts) + 1 /\ Len(dip.shifts) \in Nat
          /\ \A i \in 1..Len(dip.shifts) : dip'.shifts[i] = dip.shifts[i]
          /\ dip'.shifts[Len(dip.shifts) + 1] = NewShift(e)
      BY <1>1, <1>2, <2>2
    <3>2. NewShift(e).offset # place
      BY <2>2
    <3> QED BY <3>1, <3>2, SMTT(60) DEF ShiftsAt, ShiftedByte
  <2> QED BY <2>1, <2>2
<1>6. ASSUME ShiftsAt(dip, place) # {}
      PROVE  Max(ShiftsAt(dip, place)) \in ShiftsAt(dip, place)
  <2>1. Len(dip.shifts) \in Nat /\ ShiftsAt(dip, place) \subseteq 1..Len(dip.shifts)
    BY <1>2 DEF ShiftsAt
  <2> QED BY <1>6, <2>1, MaxIs
<1> QED BY <1>3, <1>4, <1>5, <1>6 DEF ByteAt

(* A byte that it covers is one of its external file. *)
LEMMA ByteNew ==
  ASSUME ShapeInv, NEW e \in FileElements, Patched(e), NEW place \in Int, NEW x \in Int,
         Covers(NewPatch(e), x)
  PROVE  ByteAt(dip', place, x) = Byte(e.external, x + 1 - NewPatch(e).offset)
<1>1. /\ dip'.files = Append(dip.files, NewFile(e)) /\ dip'.patches = Append(dip.patches, NewPatch(e))
      /\ NewFile(e) \in FileEntries /\ NewPatch(e) \in PatchEntries
  BY PatchedTables
<1>2. dip.files \in Seq(FileEntries) /\ dip.patches \in Seq(PatchEntries)
  BY DEF ShapeInv, Tables
<1> DEFINE N == Len(dip.patches) + 1
<1>3. /\ Len(dip'.patches) = N /\ N \in Nat /\ dip'.patches[N] = NewPatch(e)
      /\ dip'.files[Len(dip.files) + 1] = NewFile(e)
  BY <1>1, <1>2
<1> HIDE DEF N
<1>4. N \in CoverAt(dip', x) /\ CoverAt(dip', x) \subseteq 1..N
  <2>1. N \in 1..N
    BY <1>1, <1>2 DEF N
  <2> QED BY <1>3, <2>1 DEF CoverAt
<1>5. Max(CoverAt(dip', x)) = N
  <2>1. Max(CoverAt(dip', x)) \in 1..N /\ N <= Max(CoverAt(dip', x))
    BY <1>3, <1>4, MaxIs
  <2> QED BY <1>3, <2>1
<1>6. ByteAt(dip', place, x) = PatchByte(dip', NewPatch(e), x)
  BY <1>3, <1>4, <1>5 DEF ByteAt
<1>7. dip'.files[NewPatch(e).file].file = e.external
  BY <1>3 DEF NewPatch, NewFile
<1> QED BY <1>6, <1>7 DEF PatchByte

(* What an element leaves alone of a file that moves because it grows and that
   no element has patched: the shift leads back to it. *)
LEMMA ByteMoved ==
  ASSUME LaidOut, NothingBehind, OffsetsInFiles, LayoutInv, OccupiedInv, FewMet, Fits,
         stage = "files", stage' = stage, todo # <<>>, NEW e \in FileElements, e \in Elements,
         e = Head(todo), Patched(e),
         There(e.disc), Grows(e), e.offset > 0, ~Occupied(e.disc), NEW k \in 1..e.offset
  PROVE  ByteAt(dip', PlaceOf(e), PlaceOf(e) + k - 1)
           = ByteAt(dip, fst[e.disc].offset, fst[e.disc].offset + k - 1)
<1> DEFINE n == e.disc
           from == fst[n].offset
           x == PlaceOf(e) + k - 1
           y == from + k - 1
<1>1. ShapeInv /\ SizesInv /\ NodesInv /\ ShiftsInv /\ CoversInv
      /\ n \in Names /\ There(n) /\ ~Occupied(n) /\ stage # "menu"
  BY DEF LayoutInv, FileElements
<1>2. /\ Fresh(NewNode(e)) /\ LengthOf(e) \in Nat /\ e.offset \in Nat /\ NodeOf(e).size \in Nat
      /\ e.offset <= NodeOf(e).size /\ shift \in Int
  BY <1>1, PatchedSets DEF Moves, ShapeInv
<1>3. PlaceOf(e) >= shift /\ PlaceOf(e) \in Int
  BY <1>1, <1>2, PatchedTables DEF Fresh, NewNode
<1>4. /\ from \in Nat /\ fst[n].size \in Nat /\ Base \in Nat /\ Base <= shift /\ NodeOf(e) = fst[n]
      /\ k <= fst[n].size /\ fst[n].size <= RoundUp(fst[n].size) /\ RoundUp(fst[n].size) \in Nat
  <2>1. /\ from \in Nat /\ fst[n].size \in Nat /\ Base \in Nat /\ Base <= shift
        /\ fst[n].size <= RoundUp(fst[n].size) /\ RoundUp(fst[n].size) \in Nat
    BY <1>1, NodesEnd
  <2>2. NodeOf(e) = fst[n]
    BY DEF NodeOf, There
  <2>3. k \in Int /\ 1 <= k /\ k <= e.offset
    BY <1>2
  <2> QED BY <1>2, <2>1, <2>2, <2>3
<1>k. k \in Int /\ 1 <= k /\ k <= e.offset
  BY <1>2
<1> HIDE DEF n
<1>5. x \in Int /\ y \in Int /\ from <= y /\ y < from + fst[n].size /\ x >= shift
  <2> HIDE DEF from
  <2> QED BY <1>2, <1>3, <1>4, <1>k
<1>6. /\ dip'.patches = Append(dip.patches, NewPatch(e)) /\ dip'.shifts = Append(dip.shifts, NewShift(e))
      /\ NewPatch(e) \in PatchEntries /\ NewShift(e) \in ShiftEntries
      /\ dip.patches \in Seq(PatchEntries) /\ dip.shifts \in Seq(ShiftEntries)
  BY <1>1, PatchedTables DEF ShapeInv, Tables
<1>7. CoverAt(dip', x) = {}
  <2>1. /\ Len(dip'.patches) = Len(dip.patches) + 1 /\ Len(dip.patches) \in Nat
        /\ \A i \in 1..Len(dip.patches) : dip'.patches[i] = dip.patches[i]
        /\ dip'.patches[Len(dip.patches) + 1] = NewPatch(e)
    BY <1>6
  <2>2. ~Covers(NewPatch(e), x)
    <3>1. NewPatch(e).offset = PlaceOf(e) + e.offset /\ x < PlaceOf(e) + e.offset
      BY <1>1, <1>2, <1>3, PatchWords
    <3> HIDE DEF x
    <3> QED BY <1>2, <1>3, <1>5, <3>1 DEF Covers
  <2>3. \A i \in 1..Len(dip.patches) : ~Covers(dip.patches[i], x)
    <3> SUFFICES ASSUME NEW i \in 1..Len(dip.patches) PROVE ~Covers(dip.patches[i], x)
      OBVIOUS
    <3> DEFINE p == dip.patches[i]
    <3>1. p \in PatchEntries /\ p.offset + p.length <= shift /\ shift \in Int /\ x >= shift /\ x \in Int
      BY <1>1, <1>2, <1>5, <1>6, SMTT(60) DEF CoversInv
    <3> HIDE DEF p, x
    <3>2. ~Covers(p, x)
      BY <3>1 DEF Covers, PatchEntries
    <3> QED BY <3>2 DEF p
  <2> QED BY <2>1, <2>2, <2>3, SMTT(60) DEF CoverAt
<1>8. ByteAt(dip', PlaceOf(e), x) = DriveByte(y)
  <2>1. ShiftsAt(dip', PlaceOf(e)) = {Len(dip.shifts) + 1} /\ dip'.shifts[Len(dip.shifts) + 1] = NewShift(e)
    <3>1. /\ Len(dip'.shifts) = Len(dip.shifts) + 1 /\ Len(dip.shifts) \in Nat
          /\ \A i \in 1..Len(dip.shifts) : dip'.shifts[i] = dip.shifts[i]
          /\ dip'.shifts[Len(dip.shifts) + 1] = NewShift(e)
      BY <1>6
    <3>2. \A i \in 1..Len(dip.shifts) : dip.shifts[i].offset # PlaceOf(e)
      <4> SUFFICES ASSUME NEW i \in 1..Len(dip.shifts) PROVE dip.shifts[i].offset # PlaceOf(e)
        OBVIOUS
      <4>1. dip.shifts[i] \in ShiftEntries /\ ShiftBehind(dip.shifts[i], shift)
        BY <1>1, <1>6 DEF ShiftsInv
      <4> QED BY <1>2, <1>3, <4>1 DEF ShiftBehind, ShiftEntries
    <3>3. NewShift(e).offset = PlaceOf(e)
      BY <1>1, PatchWords
    <3> QED BY <3>1, <3>2, <3>3 DEF ShiftsAt
  <2>2. Max(ShiftsAt(dip', PlaceOf(e))) = Len(dip.shifts) + 1
    <3>1. Len(dip.shifts) + 1 \in Nat /\ Len(dip.shifts) + 1 \in 1..(Len(dip.shifts) + 1)
      BY <1>6
    <3>2. Max(ShiftsAt(dip', PlaceOf(e))) \in ShiftsAt(dip', PlaceOf(e))
      <4> DEFINE S == ShiftsAt(dip', PlaceOf(e))
                 N == Len(dip.shifts) + 1
      <4>1. N \in Nat /\ S \subseteq 1..N /\ S # {}
        BY <2>1, <3>1
      <4> HIDE DEF S, N
      <4>2. Max(S) \in S
        BY <4>1, MaxIs
      <4> QED BY <4>2 DEF S
    <3> QED BY <2>1, <3>2
  <2>3. ShiftedByte(dip', Len(dip.shifts) + 1, x) = DriveByte(x - PlaceOf(e) + from)
    BY <1>1, <1>4, <2>1, PatchWords DEF ShiftedByte
  <2>4. x - PlaceOf(e) + from = y
    BY <1>3, <1>4
  <2>5. ~(PlaceOf(e) < Base)
    BY <1>2, <1>3, <1>4
  <2> QED BY <1>7, <2>1, <2>2, <2>3, <2>4, <2>5 DEF ByteAt
<1>9. \A z \in Int : from <= z /\ z < from + fst[n].size => ~Covered(z)
  <2> SUFFICES ASSUME NEW z \in Int, from <= z, z < from + fst[n].size,
                      NEW i \in 1..Len(dip.patches), Covers(dip.patches[i], z)
               PROVE  FALSE
    BY DEF Covered
  <2>1. Meets(dip.patches[i], from, fst[n].size)
    <3>1. dip.patches[i] \in PatchEntries
      BY <1>6
    <3>2. z - from + 1 \in 1..fst[n].size /\ from + (z - from + 1) - 1 = z
      <4> HIDE DEF from
      <4> QED BY <1>4
    <3> DEFINE j == z - from + 1
    <3>3. j \in 1..fst[n].size /\ Covers(dip.patches[i], from + j - 1)
      BY <3>2
    <3>4. from \in Int /\ fst[n].size \in Nat
      BY <1>4
    <3> DEFINE p == dip.patches[i]
               size == fst[n].size
    <3> HIDE DEF from, j, p, size
    <3>5. p \in PatchEntries /\ from \in Int /\ size \in Nat /\ j \in 1..size /\ Covers(p, from + j - 1)
      BY <3>1, <3>3, <3>4 DEF p, size
    <3>6. Meets(p, from, size)
      BY <3>5, CoversMeets
    <3> QED BY <3>6 DEF p, size
  <2>2. FindPatch(dip.patches, from, fst[n].size) =
          {j \in 1..Len(dip.patches) : Meets(dip.patches[j], from, fst[n].size)}
    <3>1. fst[n].size \in Nat \ {0} /\ from + fst[n].size <= from + RoundUp(fst[n].size) /\ from \in Int /\ from <= from
      BY <1>4
    <3> QED BY <1>1, <3>1, PatchesMet
  <2> QED BY <1>1, <2>1, <2>2 DEF Occupied
<1>10. ByteAt(dip, from, y) = DriveByte(y)
  <2>1. CoverAt(dip, y) = {}
    BY <1>5, <1>9 DEF CoverAt, Covered
  <2>2. CASE from < Base
    BY <2>1, <2>2 DEF ByteAt
  <2>3. CASE from >= Base
    <3>1. ShiftsAt(dip, from) = {}
      <4> SUFFICES ASSUME NEW i \in 1..Len(dip.shifts), dip.shifts[i].offset = from PROVE FALSE
        BY DEF ShiftsAt
      <4>1. fst[n].size > 0
        BY <1>4
      <4> QED BY <1>1, <1>9, <4>1 DEF OccupiedInv
    <3>2. DriveByte(y) = Junk
      <4>1. DiscSize \in Nat /\ DiscSize <= Base
        BY Constants DEF NothingBehind
      <4> QED BY <1>4, <1>5, <2>3, <4>1 DEF DriveByte
    <3> QED BY <1>4, <2>1, <2>3, <3>1, <3>2 DEF ByteAt
  <2> QED BY <1>4, <2>2, <2>3
<1> QED BY <1>8, <1>10 DEF n

(* The bytes of an element's patch, in the file it leaves. *)
LEMMA PatchCovers ==
  ASSUME LaidOut, OffsetsInFiles, ShapeInv, SizesInv, NodesInv, Fits, stage = "files", stage' = stage,
         todo # <<>>, NEW e \in FileElements, e \in Elements, e = Head(todo), Patched(e)
  PROVE  /\ PlaceOf(e) \in Nat /\ SizeOf(e) \in Nat /\ LengthOf(e) \in Nat /\ e.offset \in Nat
         /\ e.offset + LengthOf(e) <= SizeOf(e)
         /\ \A i \in Int : Covers(NewPatch(e), PlaceOf(e) + i - 1) <=> e.offset < i /\ i <= e.offset + LengthOf(e)
         /\ \A x \in Int : Covers(NewPatch(e), x) => PlaceOf(e) <= x /\ x < PlaceOf(e) + SizeOf(e)
<1>1. /\ NewNode(e) \in [offset : Nat, size : Nat] /\ LengthOf(e) \in Nat /\ e.offset \in Nat
      /\ PlaceOf(e) + e.offset + LengthOf(e) <= PlaceOf(e) + SizeOf(e)
  BY PatchedSets
<1>2. PlaceOf(e) \in Nat /\ SizeOf(e) \in Nat
  BY <1>1 DEF NewNode
<1>3. \A x : Covers(NewPatch(e), x) <=>
              PlaceOf(e) + e.offset <= x /\ x < PlaceOf(e) + e.offset + LengthOf(e)
  BY PatchWords DEF Covers
<1> DEFINE place == PlaceOf(e)
           size == SizeOf(e)
           length == LengthOf(e)
           offset == e.offset
<1>4. /\ place \in Nat /\ size \in Nat /\ length \in Nat /\ offset \in Nat
      /\ place + offset + length <= place + size
      /\ \A x : Covers(NewPatch(e), x) <=> place + offset <= x /\ x < place + offset + length
  BY <1>1, <1>2, <1>3
<1> HIDE DEF place, size, length, offset
<1>5. offset + length <= size
  BY <1>4
<1>6. ASSUME NEW i \in Int
      PROVE  Covers(NewPatch(e), place + i - 1) <=> offset < i /\ i <= offset + length
  BY <1>4
<1>7. ASSUME NEW x \in Int, Covers(NewPatch(e), x)
      PROVE  place <= x /\ x < place + size
  BY <1>4, <1>7
<1> QED BY <1>4, <1>5, <1>6, <1>7 DEF place, size, length, offset

(* The data of an element whose external file exists. *)
LEMMA DataIs ==
  ASSUME NoFileOffsets, Fits, stage = "files", todo # <<>>, NEW e \in FileElements, e \in Elements,
         e = Head(todo), Patched(e), e.external \in Present, LengthOf(e) \in Nat
  PROVE  FileBytes(e.external, e.fileoffset, LengthOf(e)) = [i \in 1..LengthOf(e) |-> Byte(e.external, i)]
<1>1. e.fileoffset = 0 /\ LengthOf(e) <= FileSize[e.external]
  BY DEF NoFileOffsets, Fits, Patched, There, IsFileElement, FileElements
<1>2. FileSize[e.external] \in Nat
  BY Constants
<1>3. Held(e.external, e.fileoffset, LengthOf(e)) = LengthOf(e)
  BY <1>1, <1>2 DEF Held
<1> QED BY <1>1, <1>3 DEF FileBytes

(* The file that an element patches is its old content with the element's data
   laid over it, when the data replaces all of it, when the file moves with no
   patch on it before, and when it stays where it is. *)
LEMMA Overlays ==
  ASSUME LaidOut, NothingBehind, NoFileOffsets, LayoutInv, OccupiedInv, FewMet, Fits,
         stage = "files", stage' = stage, todo # <<>>, NEW e \in FileElements, e \in Elements,
         e = Head(todo), Patched(e), There(e.disc), e.external \in Present,
         \/ e.offset = 0 /\ LengthOf(e) >= SizeOf(e)
         \/ IF Grows(e) THEN ~Occupied(e.disc) ELSE ~shiftfiles
  PROVE  BytesOf(dip', NewNode(e)) =
           [i \in 1..SizeOf(e) |->
              IF e.offset < i /\ i <= e.offset + LengthOf(e)
              THEN FileBytes(e.external, e.fileoffset, LengthOf(e))[i - e.offset]
              ELSE BytesOf(dip, fst[e.disc])[i]]
<1>1. /\ ShapeInv /\ SizesInv /\ NodesInv /\ OffsetsInFiles /\ e.disc \in Names
  BY OffsetsAreInFiles DEF LayoutInv, FileElements
<1>2. /\ PlaceOf(e) \in Nat /\ SizeOf(e) \in Nat /\ LengthOf(e) \in Nat /\ e.offset \in Nat
      /\ e.offset + LengthOf(e) <= SizeOf(e)
  BY <1>1, PatchCovers
<1>3. /\ e.offset <= NodeOf(e).size
      /\ Grows(e) => SizeOf(e) = e.offset + LengthOf(e)
      /\ ~Moves(e) => PlaceOf(e) = fst[e.disc].offset /\ SizeOf(e) <= fst[e.disc].size
      /\ NodeOf(e) = fst[e.disc] /\ fst[e.disc].size \in Nat
  <2>1. NodeOf(e) = fst[e.disc]
    BY DEF NodeOf, There
  <2>2. /\ e.offset <= NodeOf(e).size
        /\ Grows(e) => SizeOf(e) = e.offset + LengthOf(e)
        /\ ~Moves(e) => PlaceOf(e) = fst[e.disc].offset /\ SizeOf(e) <= fst[e.disc].size
    BY <1>1, PatchedSets
  <2>3. fst[e.disc].size \in Nat
    BY <1>1, NodeIs
  <2> QED BY <2>1, <2>2, <2>3
<1>4. SUFFICES ASSUME NEW i \in 1..SizeOf(e)
               PROVE  ByteAt(dip', PlaceOf(e), PlaceOf(e) + i - 1) =
                        IF e.offset < i /\ i <= e.offset + LengthOf(e)
                        THEN FileBytes(e.external, e.fileoffset, LengthOf(e))[i - e.offset]
                        ELSE BytesOf(dip, fst[e.disc])[i]
  BY DEF BytesOf, NewNode
<1>5. i \in Int /\ 1 <= i /\ i <= SizeOf(e) /\ PlaceOf(e) + i - 1 \in Int
  BY <1>2
<1>6. Covers(NewPatch(e), PlaceOf(e) + i - 1) <=> e.offset < i /\ i <= e.offset + LengthOf(e)
  <2>1. \A j \in Int : Covers(NewPatch(e), PlaceOf(e) + j - 1) <=> e.offset < j /\ j <= e.offset + LengthOf(e)
    BY <1>1, PatchCovers
  <2> QED BY <1>5, <2>1
<1>7. CASE e.offset < i /\ i <= e.offset + LengthOf(e)
  <2>1. ByteAt(dip', PlaceOf(e), PlaceOf(e) + i - 1) =
          Byte(e.external, PlaceOf(e) + i - 1 + 1 - NewPatch(e).offset)
    BY <1>1, <1>2, <1>5, <1>7, <1>6, ByteNew, SMTT(60)
  <2>2. PlaceOf(e) + i - 1 + 1 - NewPatch(e).offset = i - e.offset
    <3>1. NewPatch(e).offset = PlaceOf(e) + e.offset
      BY <1>1, PatchWords
    <3> QED BY <1>2, <1>5, <3>1
  <2>3. i - e.offset \in 1..LengthOf(e)
    BY <1>2, <1>5, <1>7, SMTT(60)
  <2>4. FileBytes(e.external, e.fileoffset, LengthOf(e))[i - e.offset] = Byte(e.external, i - e.offset)
    BY <1>2, <2>3, DataIs
  <2> QED BY <1>7, <2>1, <2>2, <2>4
<1>8. CASE ~(e.offset < i /\ i <= e.offset + LengthOf(e))
  <2>1. ~(e.offset = 0 /\ LengthOf(e) >= SizeOf(e)) /\ ~Covers(NewPatch(e), PlaceOf(e) + i - 1)
    BY <1>2, <1>5, <1>8, <1>6
  <2>2. i <= fst[e.disc].size =>
          BytesOf(dip, fst[e.disc])[i] = ByteAt(dip, fst[e.disc].offset, fst[e.disc].offset + i - 1)
    BY <1>3, <1>5 DEF BytesOf
  <2>3. CASE Grows(e)
    <3>1. i \in 1..e.offset /\ e.offset > 0 /\ i <= fst[e.disc].size /\ ~Occupied(e.disc)
      BY <1>2, <1>3, <1>5, <1>8, <2>1, <2>3, SMTT(60)
    <3>2. ByteAt(dip', PlaceOf(e), PlaceOf(e) + i - 1)
            = ByteAt(dip, fst[e.disc].offset, fst[e.disc].offset + i - 1)
      BY <1>1, <2>3, <3>1, ByteMoved
    <3> QED BY <1>8, <2>2, <3>1, <3>2
  <2>4. CASE ~Grows(e)
    <3>1. PlaceOf(e) = fst[e.disc].offset /\ SizeOf(e) <= fst[e.disc].size
      BY <1>3, <2>1, <2>4 DEF Moves
    <3>2. ByteAt(dip', PlaceOf(e), PlaceOf(e) + i - 1) = ByteAt(dip, PlaceOf(e), PlaceOf(e) + i - 1)
      BY <1>1, <1>2, <1>5, <2>1, <2>4, ByteSame
    <3> QED BY <1>2, <1>3, <1>5, <1>8, <2>2, <3>1, <3>2
  <2> QED BY <2>3, <2>4
<1> QED BY <1>7, <1>8

(* A file that is created whole is its external file. *)
LEMMA CreatedWhole ==
  ASSUME LaidOut, NoFileOffsets, LayoutInv, Fits,
         stage = "files", stage' = stage, todo # <<>>, NEW e \in FileElements, e \in Elements,
         e = Head(todo), Patched(e), e.external \in Present, e.offset = 0, e.resize
  PROVE  BytesOf(dip', NewNode(e)) = FileBytes(e.external, e.fileoffset, LengthOf(e))
<1>1. /\ ShapeInv /\ SizesInv /\ NodesInv /\ OffsetsInFiles
  BY OffsetsAreInFiles DEF LayoutInv
<1>2. PlaceOf(e) \in Nat /\ LengthOf(e) \in Nat
  BY <1>1, PatchCovers
<1>3. SizeOf(e) = LengthOf(e)
  BY <1>2 DEF SizeOf
<1>4. ASSUME NEW i \in 1..LengthOf(e)
      PROVE  ByteAt(dip', PlaceOf(e), PlaceOf(e) + i - 1) = Byte(e.external, i)
  <2>1. i \in Int /\ Covers(NewPatch(e), PlaceOf(e) + i - 1) /\ PlaceOf(e) + i - 1 \in Int
    <3>1. \A j \in Int : Covers(NewPatch(e), PlaceOf(e) + j - 1) <=> e.offset < j /\ j <= e.offset + LengthOf(e)
      BY <1>1, PatchCovers
    <3>2. i \in Int /\ e.offset < i /\ i <= e.offset + LengthOf(e) /\ PlaceOf(e) + i - 1 \in Int
      BY <1>2
    <3> QED BY <3>1, <3>2
  <2>2. ByteAt(dip', PlaceOf(e), PlaceOf(e) + i - 1) =
          Byte(e.external, PlaceOf(e) + i - 1 + 1 - NewPatch(e).offset)
    BY <1>1, <1>2, <2>1, ByteNew
  <2>3. PlaceOf(e) + i - 1 + 1 - NewPatch(e).offset = i
    <3>1. NewPatch(e).offset = PlaceOf(e) + e.offset
      BY <1>1, PatchWords
    <3> QED BY <1>2, <2>1, <3>1
  <2> QED BY <2>2, <2>3
<1>5. NewNode(e).size = LengthOf(e) /\ NewNode(e).offset = PlaceOf(e)
  BY <1>3 DEF NewNode
<1>6. FileBytes(e.external, e.fileoffset, LengthOf(e)) = [i \in 1..LengthOf(e) |-> Byte(e.external, i)]
  <2>1. LengthOf(e) \in Nat
    BY <1>2
  <2> QED BY <2>1, DataIs, Zenon
<1>7. BytesOf(dip', NewNode(e)) =
        [i \in 1..LengthOf(e) |-> ByteAt(dip', PlaceOf(e), PlaceOf(e) + i - 1)]
  BY <1>5, Zenon DEF BytesOf
<1> HIDE DEF BytesOf
<1> QED BY <1>4, <1>6, <1>7

(* A file is lost to the patches that had it lost, and to that of the element
   if its external file does not exist. *)
LEMMA LostThen ==
  ASSUME ShapeInv, NEW e \in FileElements, Patched(e), NEW node
  PROVE  Lost(dip', node) <=>
           Lost(dip, node) \/ (e.external \notin Present /\ Meets(NewPatch(e), node.offset, node.size))
<1>1. /\ dip'.files = Append(dip.files, NewFile(e)) /\ dip'.patches = Append(dip.patches, NewPatch(e))
      /\ NewFile(e) \in FileEntries /\ NewPatch(e) \in PatchEntries
      /\ dip.files \in Seq(FileEntries) /\ dip.patches \in Seq(PatchEntries)
  BY PatchedTables DEF ShapeInv, Tables
<1>2. /\ Len(dip'.patches) = Len(dip.patches) + 1 /\ Len(dip.patches) \in Nat
      /\ \A i \in 1..Len(dip.patches) : dip'.patches[i] = dip.patches[i]
      /\ dip'.patches[Len(dip.patches) + 1] = NewPatch(e)
  BY <1>1
<1>3. /\ \A j \in 1..Len(dip.files) : dip'.files[j] = dip.files[j]
      /\ dip'.files[Len(dip.files) + 1] = NewFile(e)
  BY <1>1
<1>4. \A i \in 1..Len(dip.patches) : Missing(dip', i) <=> Missing(dip, i)
  BY <1>2, <1>3 DEF Missing, ShapeInv
<1>5. Missing(dip', Len(dip.patches) + 1) <=> e.external \notin Present
  <2>1. NewPatch(e).file = Len(dip.files) + 1 /\ NewFile(e).file = e.external
    BY DEF NewPatch, NewFile
  <2> QED BY <1>2, <1>3, <2>1 DEF Missing
<1> QED BY <1>2, <1>4, <1>5 DEF Lost

(* The patches of missing files, which have data, lie before the next offset,
   and so does what is lost to them. *)
LEMMA LostBefore ==
  ASSUME LayoutInv, MissingInv, NEW place \in Int, NEW size \in Nat,
         Lost(dip, [offset |-> place, size |-> size])
  PROVE  place < shift
<1> DEFINE node == [offset |-> place, size |-> size]
<1>1. PICK i \in 1..Len(dip.patches) : Missing(dip, i) /\ Meets(dip.patches[i], place, size)
  BY DEF Lost
<1>2. /\ dip.patches[i] \in PatchEntries /\ dip.patches[i].length > 0
      /\ dip.patches[i].offset + dip.patches[i].length <= shift /\ shift \in Int
  BY <1>1 DEF MissingInv, LayoutInv, CoversInv, ShapeInv, Tables
<1> QED BY <1>1, <1>2 DEF Meets, PatchEntries

(* What an element leaves alone: the files at other places, but for empty ones
   where its file moves to. *)
LEMMA OthersStay ==
  ASSUME LaidOut, OffsetsInFiles, StatsExist, LayoutInv, Fits,
         stage = "files", stage' = stage, todo # <<>>, NEW e \in FileElements, e \in Elements,
         e = Head(todo), Patched(e),
         NEW m \in Names, There(m), fst[m].offset # fst[e.disc].offset
  PROVE  /\ BytesOf(dip', fst[m]) = BytesOf(dip, fst[m])
         /\ \/ Lost(dip', fst[m]) <=> Lost(dip, fst[m])
            \/ fst[m].size = 0 /\ fst[m].offset = PlaceOf(e) /\ Lost(dip', fst[m])
<1>1. /\ ShapeInv /\ SizesInv /\ NodesInv /\ ApartInv /\ e.disc \in Names
  BY DEF LayoutInv, FileElements
<1> DEFINE place == fst[m].offset
           size == fst[m].size
<1>2. /\ place \in Nat /\ size \in Nat /\ shift \in Nat /\ place + size <= shift
  BY <1>1, NodesEnd
<1>3. /\ PlaceOf(e) \in Nat /\ SizeOf(e) \in Nat /\ LengthOf(e) \in Nat /\ e.offset \in Nat
      /\ e.offset + LengthOf(e) <= SizeOf(e)
  BY <1>1, PatchCovers
<1>4. \A y \in Int : Covers(NewPatch(e), y) => PlaceOf(e) <= y /\ y < PlaceOf(e) + SizeOf(e)
  BY <1>1, PatchCovers
<1>5. \/ PlaceOf(e) >= shift
      \/ /\ ~Moves(e) /\ There(e.disc) /\ PlaceOf(e) = fst[e.disc].offset /\ SizeOf(e) <= fst[e.disc].size
         /\ PlaceOf(e) # place /\ (place + size <= PlaceOf(e) \/ PlaceOf(e) + SizeOf(e) <= place)
  <2>1. IF Moves(e) \/ ~There(e.disc) THEN Fresh(NewNode(e))
        ELSE PlaceOf(e) = fst[e.disc].offset /\ SizeOf(e) <= fst[e.disc].size
    BY <1>1, PatchedSets
  <2>2. CASE Moves(e) \/ ~There(e.disc)
    BY <2>1, <2>2 DEF Fresh, NewNode
  <2>3. CASE ~Moves(e) /\ There(e.disc)
    <3>1. Apart(fst[m], fst[e.disc])
      BY <1>1, <2>3 DEF ApartInv
    <3>2. fst[e.disc].size \in Nat
      BY <1>1, <2>3, NodeIs
    <3> QED BY <1>2, <1>3, <2>1, <2>3, <3>1, <3>2, SMTT(60) DEF Apart
  <2> QED BY <2>2, <2>3
<1> HIDE DEF place, size
<1>6. BytesOf(dip', fst[m]) = BytesOf(dip, fst[m])
  <2> SUFFICES ASSUME NEW k \in 1..size
               PROVE  ByteAt(dip', place, place + k - 1) = ByteAt(dip, place, place + k - 1)
    BY DEF BytesOf, place, size
  <2> DEFINE x == place + k - 1
  <2>1. x \in Int /\ place <= x /\ x < place + size
    BY <1>2
  <2> HIDE DEF x
  <2>2. ~Covers(NewPatch(e), x)
    BY <1>2, <1>3, <1>4, <1>5, <2>1
  <2>3. PlaceOf(e) = place => ~Moves(e)
    BY <1>2, <1>3, <1>5, <2>1
  <2>4. ByteAt(dip', place, x) = ByteAt(dip, place, x)
    <3>1. NewShift(e).offset = PlaceOf(e)
      BY <1>1, PatchWords
    <3> QED BY <1>1, <1>2, <2>1, <2>2, <2>3, <3>1, ByteSame DEF Moves
  <2> QED BY <2>4 DEF x
<1>7. Lost(dip', fst[m]) <=> Lost(dip, fst[m]) \/ (e.external \notin Present /\ Meets(NewPatch(e), place, size))
  BY <1>1, LostThen DEF place, size
<1>8. ASSUME e.external \notin Present, Meets(NewPatch(e), place, size)
      PROVE  size = 0 /\ place = PlaceOf(e)
  <2>1. LengthOf(e) > 0
    BY <1>8, MissingHasLength DEF Patched
  <2>2. NewPatch(e).offset = PlaceOf(e) + e.offset /\ NewPatch(e).length = LengthOf(e)
    BY <1>1, PatchWords
  <2>3. \/ place < PlaceOf(e) + SizeOf(e) /\ PlaceOf(e) + e.offset < place + size
        \/ place = PlaceOf(e) + e.offset
    BY <1>2, <1>3, <1>8, <2>1, <2>2, SMTT(60) DEF Meets
  <2> QED BY <1>2, <1>3, <1>5, <2>1, <2>3, SMTT(60)
<1> QED BY <1>6, <1>7, <1>8 DEF place, size

(* Steps that leave nodes and tables alone leave the view alone. *)
LEMMA ViewKept ==
  ASSUME ContentsAre, ContentsAre', fst' = fst,
         dip'.files = dip.files, dip'.patches = dip.patches, dip'.shifts = dip.shifts
  PROVE  /\ \A n \in Names : Content(n)' = Content(n)
         /\ [n \in Names |-> Content(n)]' = [n \in Names |-> Content(n)]
         /\ [n \in Names |-> fst[n].offset]' = [n \in Names |-> fst[n].offset]
<1>1. ASSUME NEW n \in Names PROVE Content(n)' = Content(n)
  <2>1. Content(n)' = IF There(n) THEN Shown(dip', fst[n]) ELSE None
    BY DEF ContentsAre, There
  <2>2. Shown(dip', fst[n]) = Shown(dip, fst[n])
    BY ShownKept
  <2> QED BY <2>1, <2>2 DEF ContentsAre
<1> QED BY <1>1

(* A file with data, if only lost, lies before the next offset. *)
LEMMA DataBefore ==
  ASSUME LaidOut, LayoutInv, MissingInv, ContentsAre, stage # "menu",
         NEW m \in Names, Content(m) \notin {None, <<>>}
  PROVE  fst[m].offset < shift /\ fst[m].offset \in Nat /\ shift \in Nat
<1>1. ShapeInv /\ SizesInv /\ NodesInv
  BY DEF LayoutInv
<1>2. There(m) /\ Shown(dip, fst[m]) # <<>>
  BY DEF ContentsAre, There
<1>3. fst[m].offset \in Nat /\ fst[m].size \in Nat /\ fst[m].offset + fst[m].size <= shift /\ shift \in Nat
  BY <1>1, <1>2, NodesEnd
<1>4. CASE Lost(dip, fst[m])
  <2>1. Lost(dip, [offset |-> fst[m].offset, size |-> fst[m].size])
    BY <1>4 DEF Lost
  <2> QED BY <1>3, <2>1, LostBefore
<1>5. CASE ~Lost(dip, fst[m])
  <2>1. fst[m].size # 0
    BY <1>1, <1>2, <1>5, ShownIs
  <2> QED BY <1>3, <2>1
<1> QED BY <1>4, <1>5

(* A patched element disturbs no other file. *)
LEMMA ViewOthers ==
  ASSUME LaidOut, OffsetsInFiles, StatsExist, LayoutInv, MissingInv, Fits,
         stage = "files", stage' = stage, todo # <<>>, NEW e \in FileElements, e \in Elements,
         e = Head(todo), Patched(e), ContentsAre, ContentsAre'
  PROVE  /\ View!OthersKept(e.disc) /\ View!OwnPlace(e.disc)
         /\ Content(e.disc)' = Shown(dip', NewNode(e))
<1>1. /\ ShapeInv /\ SizesInv /\ NodesInv /\ e.disc \in Names /\ Names = DOMAIN fst
  BY DEF LayoutInv, FileElements, ShapeInv
<1>2. fst' = [fst EXCEPT ![e.disc] = NewNode(e)]
  BY DEF Patched
<1>3. /\ fst'[e.disc] = NewNode(e) /\ NewNode(e) # Absent /\ fst'[e.disc].offset = PlaceOf(e)
      /\ PlaceOf(e) \in Nat
  <2>1. fst'[e.disc] = NewNode(e)
    BY <1>1, <1>2
  <2>2. PlaceOf(e) \in Nat
    BY <1>1, PatchCovers
  <2> QED BY <2>1, <2>2 DEF NewNode, Absent
<1>4. \A m \in Names \ {e.disc} : fst'[m] = fst[m]
  BY <1>1, <1>2
<1>5. \A m \in Names : Content(m)' = IF fst'[m] # Absent THEN Shown(dip', fst'[m]) ELSE None
  BY DEF ContentsAre, There
<1>6. \A m \in Names : Content(m) = IF fst[m] # Absent THEN Shown(dip, fst[m]) ELSE None
  BY DEF ContentsAre, There
<1>7. ASSUME NEW m \in Names \ {e.disc}, fst[m].offset # fst[e.disc].offset
      PROVE  \/ Content(m)' = Content(m)
             \/ Content(m) = <<>> /\ fst[m].offset = PlaceOf(e) /\ Content(m)' = Unreadable
  <2>1. CASE fst[m] = Absent
    BY <1>4, <1>5, <1>6, <2>1
  <2>2. CASE fst[m] # Absent
    <3>1. Content(m)' = Shown(dip', fst[m]) /\ Content(m) = Shown(dip, fst[m]) /\ There(m)
      BY <1>4, <1>5, <1>6, <2>2 DEF There
    <3>2. /\ BytesOf(dip', fst[m]) = BytesOf(dip, fst[m])
          /\ \/ Lost(dip', fst[m]) <=> Lost(dip, fst[m])
             \/ fst[m].size = 0 /\ fst[m].offset = PlaceOf(e) /\ Lost(dip', fst[m])
      BY <1>7, <3>1, OthersStay
    <3>3. CASE Lost(dip', fst[m]) <=> Lost(dip, fst[m])
      BY <3>1, <3>2, <3>3 DEF Shown
    <3>4. CASE fst[m].size = 0 /\ fst[m].offset = PlaceOf(e) /\ Lost(dip', fst[m]) /\ ~Lost(dip, fst[m])
      <4>1. Shown(dip, fst[m]) = <<>>
        BY <1>1, <3>1, <3>4, ShownIs
      <4> QED BY <3>1, <3>4, <4>1 DEF Shown
    <3> QED BY <3>2, <3>3, <3>4
  <2> QED BY <2>1, <2>2
<1>8. ASSUME PlaceOf(e) # fst[e.disc].offset, NEW m \in Names \ {e.disc}, Content(m) \notin {None, <<>>}
      PROVE  PlaceOf(e) # fst[m].offset
  <2>1. fst[m].offset < shift /\ fst[m].offset \in Nat /\ shift \in Nat
    BY <1>8, DataBefore
  <2>2. PlaceOf(e) >= shift
    <3>1. IF Moves(e) \/ ~There(e.disc) THEN Fresh(NewNode(e))
          ELSE PlaceOf(e) = fst[e.disc].offset /\ SizeOf(e) <= fst[e.disc].size
      BY <1>1, PatchedSets
    <3> QED BY <1>8, <3>1 DEF Fresh, NewNode
  <2> QED BY <1>3, <2>1, <2>2
<1>9. View!OthersKept(e.disc)
  BY <1>1, <1>3, <1>4, <1>7 DEF View!OthersKept
<1>10. View!OwnPlace(e.disc)
  BY <1>1, <1>3, <1>8 DEF View!OwnPlace
<1> QED BY <1>1, <1>3, <1>5, <1>9, <1>10

(* A file that could be read can be read when it is patched, or a name when it
   is created, if the external file exists, and only then. *)
LEMMA LostPatched ==
  ASSUME LaidOut, OffsetsInFiles, StatsExist, LayoutInv, MissingInv, Fits,
         stage = "files", stage' = stage, todo # <<>>, NEW e \in FileElements, e \in Elements,
         e = Head(todo), Patched(e), There(e.disc) => ~Lost(dip, fst[e.disc])
  PROVE  Lost(dip', NewNode(e)) <=> e.external \notin Present
<1>1. /\ ShapeInv /\ SizesInv /\ NodesInv /\ e.disc \in Names
  BY DEF LayoutInv, FileElements
<1>2. /\ PlaceOf(e) \in Nat /\ SizeOf(e) \in Nat /\ LengthOf(e) \in Nat /\ e.offset \in Nat
      /\ e.offset + LengthOf(e) <= SizeOf(e) /\ shift \in Int
  <2>1. /\ PlaceOf(e) \in Nat /\ SizeOf(e) \in Nat /\ LengthOf(e) \in Nat /\ e.offset \in Nat
        /\ e.offset + LengthOf(e) <= SizeOf(e)
    BY <1>1, PatchCovers
  <2> QED BY <1>1, <2>1 DEF ShapeInv
<1>3. Lost(dip', NewNode(e)) <=>
        Lost(dip, NewNode(e)) \/ (e.external \notin Present /\ Meets(NewPatch(e), PlaceOf(e), SizeOf(e)))
  <2>1. NewNode(e).offset = PlaceOf(e) /\ NewNode(e).size = SizeOf(e)
    BY DEF NewNode
  <2> QED BY <1>1, <2>1, LostThen
<1>4. ~Lost(dip, NewNode(e))
  <2>1. IF Moves(e) \/ ~There(e.disc) THEN Fresh(NewNode(e))
        ELSE PlaceOf(e) = fst[e.disc].offset /\ SizeOf(e) <= fst[e.disc].size
    BY <1>1, PatchedSets
  <2>2. CASE Fresh(NewNode(e))
    <3>1. PlaceOf(e) >= shift
      BY <2>2 DEF Fresh, NewNode
    <3> QED BY <1>2, <3>1, LostBefore DEF NewNode
  <2>3. CASE There(e.disc) /\ PlaceOf(e) = fst[e.disc].offset /\ SizeOf(e) <= fst[e.disc].size
    <3> SUFFICES ASSUME NEW i \in 1..Len(dip.patches), Missing(dip, i),
                        Meets(dip.patches[i], PlaceOf(e), SizeOf(e))
                 PROVE  FALSE
      BY DEF Lost, NewNode
    <3>1. dip.patches[i] \in PatchEntries /\ fst[e.disc].size \in Nat
      BY <1>1, NodeIs DEF ShapeInv, Tables
    <3> DEFINE p == dip.patches[i]
               size == fst[e.disc].size
    <3>2. p \in PatchEntries /\ size \in Nat /\ SizeOf(e) <= size /\ Meets(p, PlaceOf(e), SizeOf(e))
      BY <2>3, <3>1
    <3> HIDE DEF p, size
    <3>3. Meets(p, PlaceOf(e), size)
      BY <1>2, <3>2 DEF Meets, PatchEntries
    <3> QED BY <2>3, <3>3 DEF Lost, p, size
  <2> QED BY <2>1, <2>2, <2>3
<1>5. e.external \notin Present => Meets(NewPatch(e), PlaceOf(e), SizeOf(e))
  <2> SUFFICES ASSUME e.external \notin Present PROVE Meets(NewPatch(e), PlaceOf(e), SizeOf(e))
    OBVIOUS
  <2>1. LengthOf(e) > 0
    BY MissingHasLength DEF Patched
  <2>2. NewPatch(e).offset = PlaceOf(e) + e.offset
    BY <1>1, PatchWords
  <2> QED BY <1>2, <2>1, <2>2 DEF Meets
<1> QED BY <1>3, <1>4, <1>5

(* A <file> element that is not given up is a Patch or a Create of the view. *)
LEMMA ViewPatch ==
  ASSUME LaidOut, NothingBehind, NoFileOffsets, StatsExist, LayoutInv, MissingInv, OccupiedInv, FewMet, Fits,
         stage = "files", stage' = stage, todo # <<>>, NEW e \in FileElements, e \in Elements,
         e = Head(todo), Patched(e), There(e.disc), ContentsAre, ContentsAre'
  PROVE  View!Patch(e)
<1> DEFINE old == Shown(dip, fst[e.disc])
<1>1. /\ ShapeInv /\ SizesInv /\ e.disc \in Names /\ OffsetsInFiles
  BY OffsetsAreInFiles DEF LayoutInv, FileElements
<1>2. /\ View!OthersKept(e.disc) /\ View!OwnPlace(e.disc)
      /\ Content(e.disc)' = Shown(dip', NewNode(e))
  BY <1>1, ViewOthers
<1>3. /\ Content(e.disc) = old /\ old # None /\ NodeOf(e) = fst[e.disc]
      /\ old # Unreadable => /\ ~Lost(dip, fst[e.disc])
                             /\ old = BytesOf(dip, fst[e.disc]) /\ Len(old) = fst[e.disc].size
  <2>1. Content(e.disc) = old
    BY <1>1 DEF ContentsAre
  <2>2. /\ old # None
        /\ old # Unreadable => /\ ~Lost(dip, fst[e.disc])
                               /\ old = BytesOf(dip, fst[e.disc]) /\ Len(old) = fst[e.disc].size
    BY <1>1, ShownIs
  <2>3. NodeOf(e) = fst[e.disc]
    BY DEF NodeOf, There
  <2> QED BY <2>1, <2>2, <2>3
<1> HIDE DEF old
<1>4. ASSUME old # Unreadable, e.external \notin Present
      PROVE  Content(e.disc)' = Unreadable
  <2>1. Lost(dip', NewNode(e))
    BY <1>1, <1>3, <1>4, LostPatched
  <2> QED BY <1>2, <2>1 DEF Shown
<1>5. ASSUME old # Unreadable
      PROVE  /\ View!End(e) = e.offset + LengthOf(e)
             /\ View!Resized(old, e) = SizeOf(e)
             /\ Grows(e) <=> View!End(e) > Len(old) /\ e.resize
             /\ View!Data(e) = FileBytes(e.external, e.fileoffset, LengthOf(e))
  BY <1>3, <1>5 DEF View!End, View!Resized, View!Data, SizeOf, Grows
<1>6. ASSUME old # Unreadable, e.external \in Present,
             View!Replaced(e.disc, e) \/ View!OldContentKept(e.disc, e)
      PROVE  Content(e.disc)' = View!Overlaid(old, e)
  <2>1. \/ e.offset = 0 /\ LengthOf(e) >= SizeOf(e)
        \/ IF Grows(e) THEN ~Occupied(e.disc) ELSE ~shiftfiles
    BY <1>1, <1>3, <1>5, <1>6 DEF View!Replaced, View!OldContentKept
  <2>2. BytesOf(dip', NewNode(e)) =
           [i \in 1..SizeOf(e) |->
              IF e.offset < i /\ i <= e.offset + LengthOf(e)
              THEN FileBytes(e.external, e.fileoffset, LengthOf(e))[i - e.offset]
              ELSE BytesOf(dip, fst[e.disc])[i]]
    BY <1>6, <2>1, Overlays
  <2>3. Content(e.disc)' = BytesOf(dip', NewNode(e))
    <3>1. ~Lost(dip', NewNode(e))
      BY <1>1, <1>3, <1>6, LostPatched
    <3> QED BY <1>2, <3>1 DEF Shown
  <2> QED BY <1>3, <1>5, <1>6, <2>2, <2>3 DEF View!Overlaid
<1>7. Content(e.disc) # None
  BY <1>3
<1> QED BY <1>1, <1>2, <1>3, <1>4, <1>6, <1>7 DEF View!Patch

LEMMA ViewCreate ==
  ASSUME LaidOut, NoFileOffsets, StatsExist, LayoutInv, MissingInv, Fits,
         stage = "files", stage' = stage, todo # <<>>, NEW e \in FileElements, e \in Elements,
         e = Head(todo), Patched(e), ~There(e.disc), ContentsAre, ContentsAre'
  PROVE  View!Create(e)
<1>1. /\ e.disc \in Names /\ OffsetsInFiles /\ e.create
  BY OffsetsAreInFiles DEF LayoutInv, FileElements, Patched, There
<1>2. /\ View!OthersKept(e.disc) /\ View!OwnPlace(e.disc)
      /\ Content(e.disc)' = Shown(dip', NewNode(e))
  BY <1>1, ViewOthers
<1>3. Content(e.disc) = None
  BY <1>1 DEF ContentsAre
<1>4. View!Supplied(e) /\ e.offset = 0 /\ e.resize => Content(e.disc)' = View!Data(e)
  <2> SUFFICES ASSUME e.external \in Present, e.offset = 0, e.resize
               PROVE  Content(e.disc)' = View!Data(e)
    BY DEF View!Supplied
  <2>1. ~Lost(dip', NewNode(e))
    BY <1>1, LostPatched
  <2>2. BytesOf(dip', NewNode(e)) = FileBytes(e.external, e.fileoffset, LengthOf(e))
    BY CreatedWhole
  <2> QED BY <1>2, <2>1, <2>2 DEF View!Data, Shown
<1> QED BY <1>1, <1>2, <1>3, <1>4 DEF View!Create

LEMMA ViewSkip ==
  ASSUME NEW e \in FileElements, Skipped(e), ContentsAre, ContentsAre'
  PROVE  View!Skip(e)
<1>1. e.disc \in Names /\ ~There(e.disc) /\ ~e.create /\ fst' = fst /\ dip' = dip
  BY DEF Skipped, There, FileElements
<1>2. Content(e.disc) = None
  BY <1>1 DEF ContentsAre
<1>3. /\ [n \in Names |-> Content(n)]' = [n \in Names |-> Content(n)]
      /\ [n \in Names |-> fst[n].offset]' = [n \in Names |-> fst[n].offset]
  BY <1>1, ViewKept
<1> QED BY <1>1, <1>2, <1>3 DEF View!Skip

(* An element that is given up is a Patch that does nothing, or it leaves an
   empty file. *)
LEMMA ViewGivenUp ==
  ASSUME LaidOut, LayoutInv, MissingInv, stage = "files", stage' = stage,
         NEW e \in FileElements, GivenUp(e), ContentsAre, ContentsAre'
  PROVE  View!Patch(e) \/ View!Create(e)
<1>1. /\ ShapeInv /\ SizesInv /\ e.disc \in Names /\ DOMAIN fst = Names /\ stage # "menu"
      /\ fst' = [fst EXCEPT ![e.disc] = NodeOf(e)] /\ dip' = dip
      /\ e.external \notin Present
  BY DEF LayoutInv, FileElements, ShapeInv, GivenUp, GivesUp
<1>2. CASE There(e.disc)
  <2>1. fst' = fst
    BY <1>1, <1>2 DEF NodeOf, There, ShapeInv
  <2>2. \A n \in Names : Content(n)' = Content(n)
    BY <1>1, <2>1, ViewKept
  <2>3. Content(e.disc) # None
    BY <1>1, <1>2, ShownIs DEF ContentsAre
  <2>4. View!OthersKept(e.disc) /\ View!OwnPlace(e.disc)
    BY <1>1, <2>1, <2>2 DEF View!OthersKept, View!OwnPlace
  <2> QED BY <1>1, <2>2, <2>3, <2>4 DEF View!Patch
<1>3. CASE ~There(e.disc)
  <2>1. fst'[e.disc].offset = shift /\ e.create /\ \A m \in Names \ {e.disc} : fst'[m] = fst[m]
    BY <1>1, <1>3 DEF NodeOf, Created, There, GivenUp
  <2>2. Content(e.disc) = None
    BY <1>1, <1>3 DEF ContentsAre
  <2>3. \A m \in Names \ {e.disc} : Content(m)' = Content(m)
    <3>1. \A m \in Names : Content(m)' = IF fst'[m] # Absent THEN Shown(dip', fst'[m]) ELSE None
      BY DEF ContentsAre, There
    <3> QED BY <1>1, <2>1, <3>1 DEF ContentsAre, There
  <2>4. \A m \in Names : Content(m) \notin {None, <<>>} => fst[m].offset # shift
    BY <1>1, DataBefore
  <2>5. View!OthersKept(e.disc)
    BY <1>1, <2>1, <2>3 DEF View!OthersKept
  <2>6. View!OwnPlace(e.disc)
    BY <1>1, <2>1, <2>4 DEF View!OwnPlace
  <2> QED BY <1>1, <2>1, <2>2, <2>5, <2>6 DEF View!Create, View!Supplied
<1> QED BY <1>2, <1>3

(* And a <shift> element is a Rename. *)
LEMMA ViewRename ==
  ASSUME ShapeInv, SizesInv, PatchShift, ContentsAre, ContentsAre'
  PROVE  View!Rename(Head(todo).disc, Head(todo).source)
<1> DEFINE n == Head(todo).disc
           m == Head(todo).source
<1>1. /\ n \in Names /\ m \in Names /\ UNCHANGED dip
      /\ \/ Absent \in {fst[n], fst[m]} /\ fst' = fst
         \/ There(n) /\ There(m) /\ fst' = [fst EXCEPT ![n] = fst[m]]
  BY PatchShiftIs DEF ShiftElements, There
<1> HIDE DEF n, m
<1>2. CASE Absent \in {fst[n], fst[m]} /\ fst' = fst
  <2>1. None \in {Content(n), Content(m)}
    BY <1>1, <1>2 DEF ContentsAre, There
  <2>2. /\ [k \in Names |-> Content(k)]' = [k \in Names |-> Content(k)]
        /\ [k \in Names |-> fst[k].offset]' = [k \in Names |-> fst[k].offset]
    BY <1>1, <1>2, ViewKept
  <2> QED BY <1>1, <2>1, <2>2 DEF View!Rename, n, m
<1>3. CASE There(n) /\ There(m) /\ fst' = [fst EXCEPT ![n] = fst[m]]
  <2>1. None \notin {Content(n), Content(m)}
    <3>1. \A k \in {n, m} : Content(k) = Shown(dip, fst[k]) /\ Shown(dip, fst[k]) # None
      BY <1>1, <1>3, ShownIs DEF ContentsAre
    <3> QED BY <3>1
  <2>2. \A k \in Names : fst'[k] = IF k = n THEN fst[m] ELSE fst[k]
    BY <1>1, <1>3 DEF ShapeInv
  <2>3. \A k \in Names : Content(k)' = IF fst'[k] # Absent THEN Shown(dip, fst'[k]) ELSE None
    BY <1>1 DEF ContentsAre, There
  <2>4. \A k \in Names : Content(k)' = IF k = n THEN Content(m) ELSE Content(k)
    BY <1>1, <2>2, <2>3 DEF ContentsAre, There
  <2>5. [k \in Names |-> Content(k)]' =
          [[k \in Names |-> Content(k)] EXCEPT ![n] = [k \in Names |-> Content(k)][m]]
    BY <1>1, <2>4
  <2>6. [k \in Names |-> fst[k].offset]' =
          [[k \in Names |-> fst[k].offset] EXCEPT ![n] = [k \in Names |-> fst[k].offset][m]]
    BY <1>1, <2>2
  <2> QED BY <1>1, <2>1, <2>5, <2>6 DEF View!Rename, n, m
<1> QED BY <1>1, <1>2, <1>3

(* A step for the element at the head is one of the view. *)
LEMMA ViewApply ==
  ASSUME todo # <<>>, todo' = Tail(todo), NEW e, e = Head(todo), e.kind = "file",
         View!Patch(e) \/ View!Create(e) \/ View!Skip(e)
  PROVE  View!ApplyNext
<1>1. View!OthersKept(e.disc) => View!OthersKept(Head(todo).disc)
  BY DEF View!OthersKept
<1>2. View!OwnPlace(e.disc) => View!OwnPlace(Head(todo).disc)
  BY DEF View!OwnPlace
<1>3. CASE View!Patch(e)
  <2>1. View!OthersKept(Head(todo).disc) /\ View!OwnPlace(Head(todo).disc)
    BY <1>1, <1>2, <1>3 DEF View!Patch
  <2>2. View!Patch(Head(todo))
    BY <1>3, <2>1 DEF View!Patch
  <2> QED BY <2>2 DEF View!ApplyNext, View!Apply
<1>4. CASE View!Create(e)
  <2>1. View!OthersKept(Head(todo).disc) /\ View!OwnPlace(Head(todo).disc)
    BY <1>1, <1>2, <1>4 DEF View!Create
  <2>2. View!Create(Head(todo))
    BY <1>4, <2>1 DEF View!Create
  <2> QED BY <2>2 DEF View!ApplyNext, View!Apply
<1>5. CASE View!Skip(e)
  <2>1. View!Skip(Head(todo))
    BY <1>5 DEF View!Skip
  <2> QED BY <2>1 DEF View!ApplyNext, View!Apply
<1> QED BY <1>3, <1>4, <1>5

(* Every step is a step of the view or leaves it alone. *)
LEMMA ViewNext ==
  ASSUME LaidOut, NothingBehind, NoFileOffsets, StatsExist, LayoutInv, MissingInv, OccupiedInv, FewMet, Fits,
         [Next]_vars, ContentsAre, ContentsAre'
  PROVE  [View!ApplyNext]_<<todo, [n \in Names |-> Content(n)], [n \in Names |-> fst[n].offset]>>
<1>1. ShapeInv /\ SizesInv
  BY DEF LayoutInv
<1>2. ASSUME todo' = todo, fst' = fst,
             dip'.files = dip.files, dip'.patches = dip.patches, dip'.shifts = dip.shifts
      PROVE  UNCHANGED <<todo, [n \in Names |-> Content(n)], [n \in Names |-> fst[n].offset]>>
  BY <1>2, ViewKept
<1>3. CASE SetFST
  BY <1>1, <1>2, <1>3, SetFSTIs
<1>4. CASE FindCommonFilesystem
  BY <1>1, <1>2, <1>4, FindCommonIs
<1>5. CASE PatchFile
  <2>1. PICK e \in FileElements :
        /\ stage = "files" /\ stage' = stage /\ todo # <<>> /\ todo' = Tail(todo)
        /\ e \in Elements /\ e = Head(todo)
        /\ Skipped(e) \/ GivenUp(e) \/ Patched(e)
    BY <1>1, <1>5, PatchFileIs, NextElement
  <2>2. e.kind = "file"
    BY <2>1 DEF FileElements
  <2>3. View!Patch(e) \/ View!Create(e) \/ View!Skip(e)
    <3>1. CASE Skipped(e)
      BY <2>1, <3>1, ViewSkip
    <3>2. CASE GivenUp(e)
      BY <2>1, <3>2, ViewGivenUp
    <3>3. CASE Patched(e) /\ There(e.disc)
      BY <2>1, <3>3, ViewPatch
    <3>4. CASE Patched(e) /\ ~There(e.disc)
      BY <2>1, <3>4, ViewCreate
    <3> QED BY <2>1, <3>1, <3>2, <3>3, <3>4
  <2> QED BY <2>1, <2>2, <2>3, ViewApply
<1>6. CASE PatchShift
  <2>1. todo # <<>> /\ todo' = Tail(todo) /\ Head(todo).kind = "shift"
    BY <1>1, <1>6, PatchShiftIs DEF ShiftElements
  <2> QED BY <1>1, <1>6, <2>1, ViewRename DEF View!ApplyNext, View!Apply
<1>7. CASE Launch \/ (\E p \in Partitions : OpenPartition(p)) \/ ClosePartition
  BY <1>1, <1>2, <1>7, GameIs
<1>8. CASE UNCHANGED vars
  BY <1>2, <1>8 DEF vars
<1> QED BY <1>3, <1>4, <1>5, <1>6, <1>7, <1>8 DEF Next

(* The patched disc is the one the elements ask for: RVL_Patch and the DIP
   module's reads implement DiscView, whichever external files exist, on a disc
   whose files do not overlap, for elements without a file offset that begin at
   words within the files they meet and whose external files, where they exist,
   hold their data, with no more patches over one file than FindPatch looks at. *)
THEOREM PatchesView ==
  ASSUME LaidOut, NothingBehind, BelowHighWord, NoFileOffsets, CutsHaveData, StatsExist
  PROVE  Spec /\ []Fits /\ []FewMet => ViewSpec
<1>1. Init => LayoutInv /\ ClustersInv /\ MissingInv /\ OccupiedInv
  <2>1. Init => LayoutInv
    BY LayoutInit
  <2> QED BY <2>1 DEF Init, ClustersInv, MissingInv, OccupiedInv
<1>2. LayoutInv /\ OccupiedInv /\ Fits /\ [Next]_vars => LayoutInv' /\ OccupiedInv'
  BY LayoutNext, OccupiedNext, OffsetsAreInFiles
<1>3. LayoutInv /\ ClustersInv /\ MissingInv /\ [Next]_vars => ClustersInv' /\ MissingInv'
  BY ClustersNext, MissingNext DEF LayoutInv
<1>4. LayoutInv /\ ClustersInv /\ FewMet => ContentsAre
  BY ContentsHold
<1>5. LayoutInv /\ MissingInv /\ OccupiedInv /\ FewMet /\ Fits /\ [Next]_vars /\ ContentsAre /\ ContentsAre'
        => [View!ApplyNext]_<<todo, [n \in Names |-> Content(n)], [n \in Names |-> fst[n].offset]>>
  BY ViewNext
<1>6. ViewSpec <=> [][View!ApplyNext]_<<todo, [n \in Names |-> Content(n)], [n \in Names |-> fst[n].offset]>>
  BY DEF ViewSpec, View!Spec
<1> QED BY <1>1, <1>2, <1>3, <1>4, <1>5, <1>6, PTL DEF Spec
=============================================================================
