------------------------------ MODULE DIPFiles ------------------------------
(***************************************************************************)
(* The open files of the DIP module (dipmodule/source/dip.cpp): GetFile,   *)
(* the file part of ReadFile, and the idle sweep of HandleOther.           *)
(*                                                                         *)
(* DIPFiles is an array of entries, each on one of two linked lists: the   *)
(* open files, the one used last first, and the free entries.  The module  *)
(* is one thread, so a handler is one action; what it meets between two    *)
(* handlers is the clock, which wraps around, and an idle timer whose      *)
(* message may have to wait while a read is served.                        *)
(***************************************************************************)
EXTENDS Integers, Sequences, FiniteSets, SequencesExt

CONSTANTS
  Files,       \* ids of the files that replace data of the disc
  Size,        \* MAX_OPEN_FILES
  Timeout,     \* DIPIDLE_TIMEOUT
  Interval,    \* DIPIDLE_TICK
  Lag,         \* bound on how late the idle timer's message is served
  Wrap,        \* the clock counts modulo Wrap (2^32)
  NullFile,    \* the file whose id is what fileid reads through the null
               \* pointer, or NULL if it is the id of no file
  NULL

Entries == 1..Size
Fds == 1..Size
Closed == -1   \* fd of an entry without an open file
Slots == Entries \union {NULL}

ASSUME DIPFilesAssumption ==
  /\ Size \in Nat \ {0, 1}
  /\ {Timeout, Interval} \subseteq Nat \ {0} /\ Lag \in Nat
  /\ Wrap \in Nat /\ Timeout + Interval + Lag < Wrap
  /\ NULL \notin Entries \union Files
  /\ NullFile \in Files \union {NULL}

VARIABLES
  lists,       \* next of each entry, OpenFiles and FreeFiles; next of NULL is
               \* what next reads through the null pointer, 0 at the start
  fileid, fd,  \* of each entry
  lastaccess,  \* of each entry, modulo Wrap
  file,        \* the file module: what each descriptor is open on, or NULL
  now,         \* os_time_now
  waited       \* time since the idle timer was started

vars == <<lists, fileid, fd, lastaccess, file, now, waited>>

(* Where the links lead from a head, through the null pointer too. *)
Walk(l, head) ==
  LET at[n \in 1..(Size + 1)] == IF n = 1 THEN head ELSE l.next[at[n - 1]]
  IN  at

(* The entries of a list, in order; a list that loops is cut short. *)
Chain(l, head) ==
  LET at == Walk(l, head)
      length == Cardinality({n \in 1..(Size + 1) : \A m \in 1..n : at[m] # NULL})
  IN  [n \in 1..length |-> at[n]]

(* The difference of two u32.  Mutant: that of two s64. *)
SignedElapsed(e) == now - lastaccess[e]
Elapsed(e) == (now - lastaccess[e]) % Wrap

(* The constructor links all entries.  Mutant: the loop runs once too often. *)
LinkedPastEnd == [e \in Slots |-> IF e = NULL THEN NULL ELSE e + 1]
AllLinked == [e \in Slots |-> IF e \in {NULL, Size} THEN NULL ELSE e + 1]

Init ==
  /\ lists = [next |-> AllLinked, open |-> NULL, free |-> 1]
  /\ fileid = [e \in Entries |-> NULL]
  /\ fd = [e \in Entries |-> Closed]
  /\ lastaccess = [e \in Entries |-> 0]
  /\ file = [d \in Fds |-> NULL]
  /\ now = 0 /\ waited = 0

-----------------------------------------------------------------------------
(* What GetFile does to the lists.                                          *)

TakeFree(l) ==
  [next |-> [l.next EXCEPT ![l.free] = l.open], open |-> l.free, free |-> l.next[l.free]]

(* Mutant: the entry is not unlinked from where it was. *)
LinkedTwice(l, prev, e) == [l EXCEPT !.next[e] = l.open, !.open = e]
MoveToFront(l, prev, e) ==
  [l EXCEPT !.next = [@ EXCEPT ![prev] = l.next[e], ![e] = l.open], !.open = e]

Evict(l, prev, e) ==
  [l EXCEPT !.next = [@ EXCEPT ![prev] = l.next[e], ![e] = l.free], !.free = e]

(* An entry whose file could not be opened goes back to the free list.
   Mutant: it stays where it is. *)
StaysOpen(l) == l
PutBack(l) ==
  [next |-> [l.next EXCEPT ![l.open] = l.free], open |-> l.next[l.open], free |-> l.open]

FileId(e) == IF e = NULL THEN NullFile ELSE fileid[e]

(* Where the search of the open list stops: at the file, or where there is no
   next.  With one file open it goes on through the null pointer. *)
Stop(at, f) ==
  Min({i \in 2..(Size + 1) : FileId(at[i]) = f \/ lists.next[at[i]] = NULL})

(* GetFile: the lists with the entry for f first on the open list, and the
   entry whose file was closed to make a place, or NULL. *)
GetFile(f) ==
  LET at == Walk(lists, lists.open)
      i == Stop(at, f)
      prev == at[i - 1]
      this == at[i]
  IN  CASE lists.open = NULL -> [lists |-> TakeFree(lists), victim |-> NULL]
        [] lists.open # NULL /\ fileid[lists.open] = f -> [lists |-> lists, victim |-> NULL]
        [] OTHER ->
             CASE FileId(this) = f -> [lists |-> MoveToFront(lists, prev, this), victim |-> NULL]
               [] FileId(this) # f /\ lists.free # NULL -> [lists |-> TakeFree(lists), victim |-> NULL]
               [] OTHER -> [lists |-> TakeFree(Evict(lists, prev, this)), victim |-> this]

(* File_Close on the files of some entries.  Mutant: forgotten. *)
NotClosed(entries) == file
FilesAfterClose(entries) ==
  [d \in Fds |-> IF \E e \in entries : fd[e] = d THEN NULL ELSE file[d]]

(* Mutant: the time of the read is not noted. *)
NotAccessed(e) == lastaccess
Accessed(e) == [lastaccess EXCEPT ![e] = now]

(* ReadFile: GetFile returns NULL and nothing is read, or the file is open
   already; or it is opened, or cannot be opened. *)
ReadFile(f) ==
  LET got == GetFile(f)
      this == got.lists.open
      victims == {got.victim} \ {NULL}
      fds == [e \in Entries |-> IF e \in victims THEN Closed ELSE fd[e]]
      opens == this # NULL /\ fds[this] = Closed
      files == IF victims = {} THEN file ELSE FilesAfterClose(victims)
  IN  /\ \/ /\ ~opens
            /\ lists' = got.lists /\ fd' = fds /\ file' = files
            /\ lastaccess' = IF this = NULL THEN lastaccess ELSE Accessed(this)
            /\ UNCHANGED fileid
         \/ /\ opens
            /\ \E d \in Fds :
                 /\ files[d] = NULL
                 /\ fd' = [fds EXCEPT ![this] = d]
                 /\ file' = [files EXCEPT ![d] = f]
            /\ lists' = got.lists
            /\ fileid' = [fileid EXCEPT ![this] = f]
            /\ lastaccess' = Accessed(this)
         \/ /\ opens
            /\ lists' = PutBack(got.lists) /\ fd' = fds /\ file' = files
            /\ UNCHANGED <<fileid, lastaccess>>
      /\ UNCHANGED <<now, waited>>

-----------------------------------------------------------------------------
(* The first entry of the open list that has expired, or one past the end.
   Mutant: none has. *)
NeverExpired(s) == Len(s) + 1
FirstExpired(s) ==
  Min({i \in DOMAIN s : Elapsed(s[i]) >= Timeout} \union {Len(s) + 1})

(* HandleOther, when the idle timer's message is served: the open list is cut
   before the first expired entry, and each entry after the cut is closed and
   put in front of the free list. *)
HandleOther ==
  LET s == Chain(lists, lists.open)
      k == FirstExpired(s)
      closed == {s[i] : i \in k..Len(s)}
      next == [e \in Slots |->
                 CASE k > 1 /\ e = s[k - 1] -> NULL
                   [] k <= Len(s) /\ e = s[k] -> lists.free
                   [] \E i \in (k + 1)..Len(s) : e = s[i] ->
                        s[(CHOOSE i \in (k + 1)..Len(s) : e = s[i]) - 1]
                   [] OTHER -> lists.next[e]]
  IN  /\ waited >= Interval
      /\ waited' = 0
      /\ lists' = [next |-> next,
                   open |-> IF k = 1 THEN NULL ELSE lists.open,
                   free |-> IF k <= Len(s) THEN Last(s) ELSE lists.free]
      /\ fd' = [e \in Entries |-> IF e \in closed THEN Closed ELSE fd[e]]
      /\ file' = FilesAfterClose(closed)
      /\ UNCHANGED <<fileid, lastaccess, now>>

(* Time passes.  Bound: the timer's message is served at most Lag late. *)
Tick ==
  /\ waited < Interval + Lag
  /\ waited' = waited + 1
  /\ now' = (now + 1) % Wrap
  /\ UNCHANGED <<lists, fileid, fd, lastaccess, file>>

Next == (\E f \in Files : ReadFile(f)) \/ HandleOther \/ Tick

Spec == Init /\ [][Next]_vars

-----------------------------------------------------------------------------
(* What must hold.                                                          *)

openList == Chain(lists, lists.open)
freeList == Chain(lists, lists.free)

(* The lists lead from entry to entry: no link, fd or time is out of range. *)
TypeOK ==
  /\ lists \in [next : [Slots -> Slots], open : Slots, free : Slots]
  /\ fileid \in [Entries -> Files \union {NULL}]
  /\ fd \in [Entries -> Fds \union {Closed}]
  /\ lastaccess \in [Entries -> 0..(Wrap - 1)]
  /\ file \in [Fds -> Files \union {NULL}]
  /\ now \in 0..(Wrap - 1) /\ waited \in 0..(Interval + Lag)

(* Through every sequence of hits, evictions, failures and sweeps, each entry
   is on exactly one of the two lists, once: none is lost, none is shared. *)
ListsPartition ==
  LET all == openList \o freeList
  IN  Len(all) = Size /\ ToSet(all) = Entries

(* The descriptors open in the file module are those of the entries of the
   open list, each on the file its entry is for: a read of a file never
   reaches another one, no descriptor leaks and none is used once closed. *)
DescriptorsOwned ==
  /\ \A e \in ToSet(openList) : fd[e] \in Fds /\ file[fd[e]] = fileid[e]
  /\ \A e \in ToSet(freeList) : fd[e] = Closed
  /\ Cardinality({d \in Fds : file[d] # NULL}) = Len(openList)

(* A file nobody reads is closed before Timeout, the period of the timer and
   its lateness have passed, the wrap of the clock notwithstanding. *)
IdleFilesClose ==
  \A e \in ToSet(openList) : Elapsed(e) < Timeout + Interval + Lag

(* "all files after the first expired one will be closed" (dip.cpp:71): after
   the sweep no entry has a file open that was last read Timeout ago. *)
ExpiredAreClosed ==
  [][HandleOther => \A e \in Entries : fd'[e] # Closed => Elapsed(e) < Timeout]_vars

(* The pool keeps the promises of FilePool: the entries of the open list are
   its files, and the clock's difference modulo Wrap their true age. *)
openFiles == [i \in DOMAIN openList |->
                [file |-> fileid[openList[i]], age |-> Elapsed(openList[i])]]
Pool == INSTANCE FilePool WITH open <- openFiles
(* GetFile, ReadFile and HandleOther implement the pool of FilePool. *)
PoolSpec == Pool!Spec
=============================================================================
