------------------------------ MODULE FilePool ------------------------------
(***************************************************************************)
(* What the DIP module's pool of open files promises (dipmodule/source/    *)
(* dip.cpp, GetFile, ReadFile and the idle sweep of HandleOther): at most  *)
(* Size replacement files are open at a time, the ones used last; a file   *)
(* is closed when another one needs its place or when it has not been used *)
(* for Timeout, and no file is closed by a sweep before that.              *)
(*                                                                         *)
(* DIPFiles is the detailed specification, with the linked lists, the      *)
(* descriptors and the 32-bit clock; it implements this one.               *)
(***************************************************************************)
EXTENDS Integers, Sequences

CONSTANTS
  Files,       \* ids of the files that replace data of the disc
  Size,        \* MAX_OPEN_FILES
  Timeout      \* DIPIDLE_TIMEOUT

ASSUME FilePoolAssumption == Size \in Nat \ {0, 1} /\ Timeout \in Nat \ {0}

VARIABLE
  open         \* the files that are open and the time since the last use of
               \* each, the one used last first

Used(f) == [file |-> f, age |-> 0]

(* Mutant: only the first one is looked at. *)
IsFirst(f) == open # <<>> /\ open[1].file = f
IsOpen(f) == \E i \in DOMAIN open : open[i].file = f

(* The k-th file becomes the first.  Mutant: it stays where it is. *)
InPlace(k) == [open EXCEPT ![k] = Used(open[k].file)]
ToFront(k) ==
  [i \in DOMAIN open |-> IF i = 1 THEN Used(open[k].file)
                         ELSE IF i <= k THEN open[i - 1] ELSE open[i]]

(* How many files can stay when one more is opened, and the list with it.
   Mutant: all of them. *)
AllKept == Len(open)
Kept == IF Len(open) = Size THEN Size - 1 ELSE Len(open)
Opened(f) == [i \in 1..(Kept + 1) |-> IF i = 1 THEN Used(f) ELSE open[i - 1]]

Init == open = <<>>

(* A file is read: it is opened first if it is not open. *)
Use(f) ==
  \/ \E k \in DOMAIN open : open[k].file = f /\ open' = ToFront(k)
  \/ ~IsOpen(f) /\ open' = Opened(f)

(* It cannot be opened: a place was made for it all the same. *)
Fail(f) == ~IsOpen(f) /\ open' = SubSeq(open, 1, Kept)

(* The sweep keeps the files used within Timeout and closes the others. *)
Sweep ==
  \E n \in 0..Len(open) :
    /\ \A i \in DOMAIN open : i <= n <=> open[i].age < Timeout
    /\ open' = SubSeq(open, 1, n)

Tick == open' = [i \in DOMAIN open |-> [file |-> open[i].file, age |-> open[i].age + 1]]

Next == (\E f \in Files : Use(f) \/ Fail(f)) \/ Sweep \/ Tick

Spec == Init /\ [][Next]_open

-----------------------------------------------------------------------------
(* MAX_OPEN_FILES is never exceeded, whatever is opened, fails or is swept. *)
TypeOK == open \in Seq([file : Files, age : Nat]) /\ Len(open) <= Size

(* A file is open once. *)
Distinct == \A i, j \in DOMAIN open : open[i].file = open[j].file => i = j

(* HandleOther stops at the first file that has expired: "they're sorted, so
   all files after the first expired one will be closed". *)
Sorted == \A i, j \in DOMAIN open : i <= j => open[i].age <= open[j].age
=============================================================================
