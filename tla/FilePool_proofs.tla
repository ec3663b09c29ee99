--------------------------- MODULE FilePool_proofs ---------------------------
(***************************************************************************)
(* Proofs about FilePool, for every number of files and of places: the     *)
(* list never outgrows the pool, a file is on it once, and it is sorted by *)
(* the time since the last use.  The three together are inductive: TypeOK  *)
(* gives the list its shape, Distinct needs that a file that is opened was *)
(* not open, and Sorted that whatever is put in front has age 0.           *)
(***************************************************************************)
EXTENDS FilePool, SequenceTheorems, TLAPS

Entry == [file : Files, age : Nat]
PoolInv == TypeOK /\ Distinct /\ Sorted

(* A function on 1..n is a sequence of length n. *)
LEMMA FunctionIsSeq ==
  ASSUME NEW S, NEW n \in Nat, NEW s \in [1..n -> S]
  PROVE  s \in Seq(S) /\ Len(s) = n /\ DOMAIN s = 1..n
  OBVIOUS

(* The list has the shape TypeOK gives it. *)
LEMMA Shape ==
  ASSUME TypeOK
  PROVE  /\ Len(open) \in 0..Size /\ DOMAIN open = 1..Len(open)
         /\ \A i \in 1..Len(open) : /\ open[i] \in Entry
                                    /\ open[i].file \in Files /\ open[i].age \in Nat
<1>1. Size \in Nat /\ open \in Seq(Entry) /\ Len(open) <= Size
  BY FilePoolAssumption DEF TypeOK, Entry
<1>2. Len(open) \in Nat /\ DOMAIN open = 1..Len(open) /\ \A i \in 1..Len(open) : open[i] \in Entry
  BY <1>1, LenProperties
<1>3. \A e \in Entry : e.file \in Files /\ e.age \in Nat
  BY DEF Entry
<1> QED
  BY <1>1, <1>2, <1>3

(* What can stay is part of the list, and leaves a place. *)
LEMMA KeptBounds ==
  ASSUME TypeOK
  PROVE  Kept \in 0..Len(open) /\ Kept + 1 \in 1..Size
<1>1. Size \in Nat /\ Size > 1 /\ Len(open) \in 0..Size
  BY Shape, FilePoolAssumption
<1> QED
  BY <1>1 DEF Kept

(* A file that is open is used: it moves to the front, the ones before it one
   place back. *)
LEMMA HitKeepsInv ==
  ASSUME PoolInv, NEW k \in DOMAIN open, open' = ToFront(k)
  PROVE  PoolInv'
<1> DEFINE n == Len(open)
<1>1. /\ TypeOK /\ Distinct /\ Sorted /\ k \in 1..n /\ n \in 0..Size /\ Size \in Nat
      /\ DOMAIN open = 1..n
      /\ \A i \in 1..n : open[i].file \in Files /\ open[i].age \in Nat /\ open[i] \in Entry
  BY Shape, FilePoolAssumption DEF PoolInv
<1>2. /\ DOMAIN open' = 1..n
      /\ \A i \in 1..n : open'[i] = IF i = 1 THEN Used(open[k].file)
                                    ELSE IF i <= k THEN open[i - 1] ELSE open[i]
      /\ open' = [i \in 1..n |-> open'[i]]
  BY <1>1 DEF ToFront
<1>3. open' \in [1..n -> Entry]
  BY <1>1, <1>2 DEF Used, Entry
<1>4. TypeOK'
  <2>1. open' \in Seq(Entry) /\ Len(open') = n
    BY <1>1, <1>3, FunctionIsSeq
  <2> QED
    BY <1>1, <2>1 DEF TypeOK, Entry
<1>5. Distinct'
  <2> SUFFICES ASSUME NEW i \in 1..n, NEW j \in 1..n, open'[i].file = open'[j].file
               PROVE  i = j
    BY <1>2 DEF Distinct
  <2> DEFINE from(x) == IF x = 1 THEN k ELSE IF x <= k THEN x - 1 ELSE x
  <2>1. from(i) \in 1..n /\ from(j) \in 1..n
    BY <1>1
  <2>2. open'[i].file = open[from(i)].file /\ open'[j].file = open[from(j)].file
    BY <1>1, <1>2 DEF Used
  <2>3. from(i) = from(j)
    BY <1>1, <2>1, <2>2 DEF Distinct
  <2> QED
    BY <1>1, <2>3
<1>6. Sorted'
  <2> SUFFICES ASSUME NEW i \in 1..n, NEW j \in 1..n, i <= j
               PROVE  open'[i].age <= open'[j].age
    BY <1>2 DEF Sorted
  <2>1. CASE i = 1
    BY <1>1, <1>2, <1>3, <2>1 DEF Used, Entry
  <2>2. CASE i # 1
    BY <1>1, <1>2, <2>2 DEF Sorted
  <2> QED
    BY <2>1, <2>2
<1> QED
  BY <1>4, <1>5, <1>6 DEF PoolInv

(* A file that is not open is opened, in the place of the last if need be. *)
LEMMA OpenKeepsInv ==
  ASSUME PoolInv, NEW f \in Files, ~IsOpen(f), open' = Opened(f)
  PROVE  PoolInv'
<1> DEFINE n == Kept + 1
<1>1. /\ TypeOK /\ Distinct /\ Sorted /\ Size \in Nat /\ n \in 1..Size
      /\ n - 1 <= Len(open) /\ DOMAIN open = 1..Len(open) /\ Len(open) \in Nat
      /\ \A i \in 1..Len(open) : open[i].file \in Files /\ open[i].age \in Nat /\ open[i] \in Entry
  BY Shape, KeptBounds, FilePoolAssumption DEF PoolInv
<1>2. /\ DOMAIN open' = 1..n
      /\ \A i \in 1..n : open'[i] = IF i = 1 THEN Used(f) ELSE open[i - 1]
      /\ open' = [i \in 1..n |-> open'[i]]
  BY <1>1 DEF Opened
<1>3. open' \in [1..n -> Entry]
  BY <1>1, <1>2 DEF Used, Entry
<1>4. TypeOK'
  <2>1. open' \in Seq(Entry) /\ Len(open') = n
    BY <1>1, <1>3, FunctionIsSeq
  <2> QED
    BY <1>1, <2>1 DEF TypeOK, Entry
<1>5. Distinct'
  <2>1. \A i \in 1..Len(open) : open[i].file # f
    BY <1>1 DEF IsOpen
  <2> QED
    BY <1>1, <1>2, <2>1 DEF Distinct, Used
<1>6. Sorted'
  <2> SUFFICES ASSUME NEW i \in 1..n, NEW j \in 1..n, i <= j
               PROVE  open'[i].age <= open'[j].age
    BY <1>2 DEF Sorted
  <2>1. CASE i = 1
    BY <1>1, <1>2, <1>3, <2>1 DEF Used, Entry
  <2>2. CASE i # 1
    <3>1. i - 1 \in 1..Len(open) /\ j - 1 \in 1..Len(open) /\ i - 1 <= j - 1
      BY <1>1, <2>2
    <3>2. open'[i] = open[i - 1] /\ open'[j] = open[j - 1]
      BY <1>1, <1>2, <2>2
    <3> QED
      BY <1>1, <3>1, <3>2 DEF Sorted
  <2> QED
    BY <2>1, <2>2
<1> QED
  BY <1>4, <1>5, <1>6 DEF PoolInv

(* The list loses its end, to a sweep or to a file that could not be opened. *)
LEMMA CutKeepsInv ==
  ASSUME PoolInv, NEW n \in 0..Len(open), open' = SubSeq(open, 1, n)
  PROVE  PoolInv'
<1>1. /\ TypeOK /\ Distinct /\ Sorted /\ Size \in Nat
      /\ Len(open) \in 0..Size /\ DOMAIN open = 1..Len(open)
      /\ \A i \in 1..Len(open) : open[i] \in Entry
  BY Shape, FilePoolAssumption DEF PoolInv
<1>2. /\ open' \in Seq(Entry) /\ Len(open') = n /\ DOMAIN open' = 1..n
      /\ \A i \in 1..n : open'[i] = open[i]
  BY <1>1, SubSeqProperties
<1>3. TypeOK'
  BY <1>1, <1>2 DEF TypeOK, Entry
<1>4. Distinct' /\ Sorted'
  BY <1>1, <1>2 DEF Distinct, Sorted
<1> QED
  BY <1>3, <1>4 DEF PoolInv

(* Time passes for all files alike. *)
LEMMA TickKeepsInv ==
  ASSUME PoolInv, Tick
  PROVE  PoolInv'
<1> DEFINE n == Len(open)
<1>1. /\ TypeOK /\ Distinct /\ Sorted /\ n \in 0..Size /\ DOMAIN open = 1..n /\ Size \in Nat
      /\ \A i \in 1..n : open[i].file \in Files /\ open[i].age \in Nat
  BY Shape, FilePoolAssumption DEF PoolInv
<1>2. /\ DOMAIN open' = 1..n
      /\ \A i \in 1..n : open'[i] = [file |-> open[i].file, age |-> open[i].age + 1]
      /\ open' \in [1..n -> Entry]
  BY <1>1 DEF Tick, Entry
<1>3. TypeOK'
  BY <1>1, <1>2, FunctionIsSeq DEF TypeOK, Entry
<1>4. Distinct' /\ Sorted'
  BY <1>1, <1>2 DEF Distinct, Sorted
<1> QED
  BY <1>3, <1>4 DEF PoolInv

LEMMA PoolInvInit == Init => PoolInv
  BY FilePoolAssumption DEF Init, PoolInv, TypeOK, Distinct, Sorted

LEMMA PoolInvNext == PoolInv /\ [Next]_open => PoolInv'
<1> SUFFICES ASSUME PoolInv, [Next]_open PROVE PoolInv'
  OBVIOUS
<1>1. Kept \in 0..Len(open)
  BY KeptBounds DEF PoolInv
<1>2. CASE \E f \in Files : Use(f)
  BY <1>2, HitKeepsInv, OpenKeepsInv DEF Use
<1>3. CASE \E f \in Files : Fail(f)
  BY <1>1, <1>3, CutKeepsInv DEF Fail
<1>4. CASE Sweep
  BY <1>4, CutKeepsInv DEF Sweep
<1>5. CASE Tick
  BY <1>5, TickKeepsInv
<1>6. CASE UNCHANGED open
  BY <1>6 DEF PoolInv, TypeOK, Distinct, Sorted
<1> QED
  BY <1>2, <1>3, <1>4, <1>5, <1>6 DEF Next

(* GetFile and ReadFile never hold more files open than the pool has places,
   whatever is opened, fails, is swept or is opened again. *)
THEOREM PoolHasRoom == Spec => []TypeOK
<1>1. PoolInv => TypeOK
  BY DEF PoolInv
<1> QED
  BY PoolInvInit, PoolInvNext, <1>1, PTL DEF Spec

(* GetFile never leaves a file open twice, so it finds the one that is. *)
THEOREM PoolBounded == Spec => []Distinct
<1>1. PoolInv => Distinct
  BY DEF PoolInv
<1> QED
  BY PoolInvInit, PoolInvNext, <1>1, PTL DEF Spec

(* The open files are sorted by the time since their last use, so the files
   after the first expired one have expired too: the sweep may close them
   all without looking. *)
THEOREM PoolSorted == Spec => []Sorted
<1>1. PoolInv => Sorted
  BY DEF PoolInv
<1> QED
  BY PoolInvInit, PoolInvNext, <1>1, PTL DEF Spec

(* A sweep closes every file that has expired and no other. *)
THEOREM SweepIsExact ==
  Spec => [][Sweep => \A f \in Files :
               IsOpen(f)' <=> \E i \in DOMAIN open : open[i].file = f /\ open[i].age < Timeout]_open
<1> DEFINE Exact == \A f \in Files :
             IsOpen(f)' <=> \E i \in DOMAIN open : open[i].file = f /\ open[i].age < Timeout
<1>1. ASSUME PoolInv, Sweep PROVE Exact
  <2>1. PICK n \in 0..Len(open) : /\ \A i \in DOMAIN open : i <= n <=> open[i].age < Timeout
                                 /\ open' = SubSeq(open, 1, n)
    BY <1>1 DEF Sweep
  <2>2. /\ Len(open) \in Nat /\ DOMAIN open = 1..Len(open)
        /\ \A i \in 1..Len(open) : open[i] \in Entry
    BY <1>1, Shape DEF PoolInv
  <2>3. DOMAIN open' = 1..n /\ \A i \in 1..n : open'[i] = open[i]
    BY <2>1, <2>2, SubSeqProperties
  <2> QED
    BY <2>1, <2>2, <2>3 DEF IsOpen
<1>2. PoolInv /\ [Next]_open => [Sweep => Exact]_open
  BY <1>1
<1> QED
  BY PoolInvInit, PoolInvNext, <1>2, PTL DEF Spec
=============================================================================
