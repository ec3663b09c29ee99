-------------------------- MODULE DIPFiles_proofs ---------------------------
(***************************************************************************)
(* Proofs about DIPFiles, for every number of files, places and ticks.     *)
(*                                                                         *)
(* The pool is an array of links, and what it promises is about lists.     *)
(* Linked says that a head and the links after it make up a list of        *)
(* distinct entries; Partition, that the open list and the free list are   *)
(* such lists and hold every entry once.  One lemma for each operation on  *)
(* the links gives the lists it makes of those it found (Push, Pop, Cut,   *)
(* Moved, Spill), so that the rest of the proofs is about lists alone.     *)
(*                                                                         *)
(* The invariant FilesInv adds who owns the descriptors (OwnedBy: the      *)
(* entries of the open list, and nobody else) and how old each use is      *)
(* (AgedBy: the open list is in the order of the last uses, which is what  *)
(* lets the sweep stop at the first that has expired).  It is kept by each *)
(* action, and the same lemmas say what list of files and ages the action  *)
(* leaves: that is the step of FilePool the action implements.             *)
(***************************************************************************)
EXTENDS DIPFiles, FiniteSetTheorems, SequenceTheorems, WellFoundedInduction, TLAPS

(* The i-th of a list, and what is read after its end. *)
At(s, i) == IF i \in 1..Len(s) THEN s[i] ELSE NULL

(* The entries that a head leads to, each of them once. *)
Linked(l, head, s) ==
  /\ s \in Seq(Entries)
  /\ \A i, j \in 1..Len(s) : s[i] = s[j] => i = j
  /\ head = At(s, 1)
  /\ \A i \in 1..Len(s) : l.next[s[i]] = At(s, i + 1)

-----------------------------------------------------------------------------
(* Lemmas about numbers and sets.                                           *)

(* A set of numbers has a least member. *)
LEMMA Smallest ==
  ASSUME NEW T, T \subseteq Nat, T # {}
  PROVE  \E x \in T : \A y \in T : x <= y
<1> DEFINE R == OpToRel(<, Nat)
<1>1. IsWellFoundedOn(R, Nat)
  BY NatLessThanWellFounded
<1>2. \A i, j \in Nat : i < j => <<i, j>> \in R
  BY DEF OpToRel
<1> HIDE DEF R
<1>3. PICK x \in T : \A y \in T : ~ (<<y, x>> \in R)
  BY <1>1, WFMin
<1>4. \A y \in T : ~(y < x)
  BY <1>2, <1>3
<1> QED BY <1>3, <1>4

(* How many the first n numbers are. *)
LEMMA IntervalSize ==
  ASSUME NEW n \in Nat
  PROVE  IsFiniteSet(1..n) /\ Cardinality(1..n) = n
<1>1. IsFiniteSet(1..n) /\ Cardinality(1..n) = IF 1 > n THEN 0 ELSE n - 1 + 1
  BY FS_Interval
<1> QED BY <1>1

(* The entries of a list are no more than there are. *)
LEMMA ListIsShort ==
  ASSUME NEW s \in Seq(Entries), \A i, j \in 1..Len(s) : s[i] = s[j] => i = j
  PROVE  Len(s) <= Size
<1>1. Size \in Nat /\ Len(s) \in Nat /\ s \in [1..Len(s) -> Entries]
  BY DIPFilesAssumption, LenProperties
<1>2. s \in Injection(1..Len(s), Entries)
  BY <1>1 DEF Injection, IsInjective
<1>3. IsFiniteSet(Entries) /\ Cardinality(Entries) = Size
  BY <1>1, IntervalSize DEF Entries
<1>4. Cardinality(1..Len(s)) <= Size
  BY <1>2, <1>3, FS_Injection
<1> QED BY <1>1, <1>4, IntervalSize

(* The links lead through the list that they make, and then nowhere. *)
LEMMA WalkIs ==
  ASSUME NEW l, NEW head, NEW s, Linked(l, head, s), l.next[NULL] = NULL
  PROVE  \A n \in 1..(Size + 1) : Walk(l, head)[n] = At(s, n)
<1> DEFINE D == 1..(Size + 1)
           Follows(g) == g = [n \in D |-> IF n = 1 THEN head ELSE l.next[g[n - 1]]]
           at == CHOOSE g : Follows(g)
           w == [n \in D |-> At(s, n)]
<1>1. Walk(l, head) = at
  BY DEF Walk
<1>2. /\ Len(s) \in Nat /\ Size \in Nat /\ Len(s) <= Size
      /\ \A i \in 1..Len(s) : s[i] \in Entries /\ s[i] # NULL
      /\ DOMAIN s = 1..Len(s)
  BY ListIsShort, DIPFilesAssumption DEF Linked
<1>3. \A n \in D : w[n] = IF n = 1 THEN head ELSE l.next[w[n - 1]]
  <2>1. w[1] = head
    BY <1>2 DEF Linked
  <2>2. ASSUME NEW n \in D, n # 1 PROVE w[n] = l.next[w[n - 1]]
    <3>1. n - 1 \in D /\ w[n - 1] = At(s, n - 1)
      BY <1>2, <2>2
    <3>2. CASE n - 1 \in 1..Len(s)
      BY <3>1, <3>2, <1>2 DEF At, Linked
    <3>3. CASE n - 1 \notin 1..Len(s)
      BY <3>1, <3>3, <1>2, <2>2 DEF At
    <3> QED BY <3>2, <3>3
  <2> QED BY <2>1, <2>2
<1>4. Follows(w)
  BY <1>3
<1>5. Follows(at)
  BY <1>4
<1> HIDE DEF at
<1>6. ASSUME NEW n \in D PROVE at[n] = IF n = 1 THEN head ELSE l.next[at[n - 1]]
  BY <1>5
<1>7. \A n \in D : at[n] = At(s, n)
  <2> DEFINE T == {n \in D : at[n] # w[n]}
  <2>1. SUFFICES ASSUME T # {} PROVE FALSE
    OBVIOUS
  <2>2. PICK x \in T : \A y \in T : x <= y
    <3>1. T \subseteq Nat
      BY <1>2
    <3> HIDE DEF T
    <3> QED BY <2>1, <3>1, Smallest
  <2>3. x \in D /\ at[x] # w[x] /\ \A y \in D : at[y] # w[y] => x <= y
    BY <2>2
  <2> HIDE DEF w
  <2>4. CASE x = 1
    BY <1>3, <1>6, <2>3, <2>4
  <2>5. CASE x # 1
    <3>1. x - 1 \in D /\ ~(x <= x - 1)
      BY <1>2, <2>3, <2>5
    <3>2. at[x - 1] = w[x - 1]
      BY <2>3, <3>1
    <3> QED BY <1>3, <1>6, <2>3, <2>5, <3>2
  <2> QED BY <2>4, <2>5
<1> QED BY <1>1, <1>7

(* Chain follows the links and gives the list that they make. *)
LEMMA ChainIs ==
  ASSUME NEW l, NEW head, NEW s, Linked(l, head, s), l.next[NULL] = NULL
  PROVE  Chain(l, head) = s
<1> DEFINE D == 1..(Size + 1)
           at == Walk(l, head)
           N == {n \in D : \A m \in 1..n : at[m] # NULL}
<1>1. Chain(l, head) = [n \in 1..Cardinality(N) |-> at[n]]
  BY DEF Chain
<1>2. /\ Len(s) \in Nat /\ Size \in Nat /\ Len(s) <= Size
      /\ \A i \in 1..Len(s) : s[i] \in Entries /\ s[i] # NULL
      /\ DOMAIN s = 1..Len(s)
  BY ListIsShort, DIPFilesAssumption DEF Linked
<1>7. \A n \in D : at[n] = At(s, n)
  BY WalkIs
<1> HIDE DEF at
<1>8. N = 1..Len(s)
  <2>1. ASSUME NEW n \in N PROVE n \in 1..Len(s)
    <3>1. n \in D /\ n \in 1..n
      BY <1>2
    <3>2. at[n] # NULL
      BY <2>1, <3>1
    <3> QED BY <1>7, <3>1, <3>2 DEF At
  <2>2. ASSUME NEW n \in 1..Len(s) PROVE n \in N
    <3>1. n \in D /\ \A m \in 1..n : m \in D /\ m \in 1..Len(s)
      BY <1>2
    <3> QED BY <1>2, <1>7, <3>1 DEF At
  <2> QED BY <2>1, <2>2
<1> HIDE DEF N
<1>9. Cardinality(N) = Len(s)
  <2>1. Cardinality(1..Len(s)) = Len(s)
    BY <1>2, IntervalSize
  <2> QED BY <1>8, <2>1
<1>10. Chain(l, head) = [n \in 1..Len(s) |-> at[n]]
  BY <1>1, <1>9
<1>11. \A n \in 1..Len(s) : at[n] = s[n]
  BY <1>2, <1>7 DEF At
<1>12. Chain(l, head) = [n \in 1..Len(s) |-> s[n]]
  BY <1>10, <1>11
<1> QED BY <1>2, <1>12 DEF Linked

-----------------------------------------------------------------------------
(* What GetFile, ReadFile and HandleOther do to the lists.                  *)

(* The two lists, which are disjoint and have all entries. *)
Partition(l, o, f) ==
  /\ l \in [next : [Slots -> Slots], open : Slots, free : Slots] /\ l.next[NULL] = NULL
  /\ Linked(l, l.open, o) /\ Linked(l, l.free, f)
  /\ \A i \in 1..Len(o), j \in 1..Len(f) : o[i] # f[j]
  /\ \A e \in Entries : (\E i \in 1..Len(o) : o[i] = e) \/ (\E j \in 1..Len(f) : f[j] = e)

(* An entry put in front of a list, the list without its first entry, the
   first n entries, and the k-th entry moved to the front. *)
Push(e, s) == [i \in 1..(Len(s) + 1) |-> IF i = 1 THEN e ELSE s[i - 1]]
Pop(s) == [i \in 1..(Len(s) - 1) |-> s[i + 1]]
Cut(s, n) == [i \in 1..n |-> s[i]]
Moved(s, k) == [i \in 1..Len(s) |-> IF i = 1 THEN s[k] ELSE IF i <= k THEN s[i - 1] ELSE s[i]]

(* A function on 1..n is a sequence of length n. *)
LEMMA FunctionIsSeq ==
  ASSUME NEW S, NEW n \in Nat, NEW s \in [1..n -> S]
  PROVE  s \in Seq(S) /\ Len(s) = n /\ DOMAIN s = 1..n
  OBVIOUS

(* What is known of the two lists. *)
LEMMA PartitionIs ==
  ASSUME NEW l, NEW o, NEW f, Partition(l, o, f)
  PROVE  /\ Size \in Nat /\ Size > 1 /\ NULL \notin Entries
         /\ Len(o) \in 0..Size /\ Len(f) \in 0..Size
         /\ DOMAIN o = 1..Len(o) /\ DOMAIN f = 1..Len(f)
         /\ \A i \in 1..Len(o) : o[i] \in Entries
         /\ \A i \in 1..Len(f) : f[i] \in Entries
         /\ o \in Seq(Entries) /\ f \in Seq(Entries)
         /\ \A i, j \in 1..Len(o) : o[i] = o[j] => i = j
         /\ \A i, j \in 1..Len(f) : f[i] = f[j] => i = j
<1>1. Size \in Nat /\ Size > 1 /\ NULL \notin Entries
  BY DIPFilesAssumption
<1>2. ASSUME NEW s, NEW h, Linked(l, h, s)
      PROVE  /\ Len(s) \in 0..Size /\ DOMAIN s = 1..Len(s)
             /\ \A i \in 1..Len(s) : s[i] \in Entries
             /\ s \in Seq(Entries)
             /\ \A i, j \in 1..Len(s) : s[i] = s[j] => i = j
  <2>1. s \in Seq(Entries) /\ \A i, j \in 1..Len(s) : s[i] = s[j] => i = j
    BY <1>2 DEF Linked
  <2>2. Len(s) <= Size
    BY <2>1, ListIsShort
  <2> QED BY <1>1, <2>1, <2>2
<1> QED BY <1>1, <1>2 DEF Partition

(* The lists are those that the links make. *)
LEMMA PartitionChains ==
  ASSUME NEW l, NEW o, NEW f, Partition(l, o, f)
  PROVE  Chain(l, l.open) = o /\ Chain(l, l.free) = f
  BY ChainIs DEF Partition

(* The heads and their successors. *)
LEMMA HeadsAre ==
  ASSUME NEW l, NEW o, NEW f, Partition(l, o, f)
  PROVE  /\ l.open = At(o, 1) /\ l.free = At(f, 1)
         /\ \A i \in 1..Len(o) : l.next[o[i]] = At(o, i + 1)
         /\ \A i \in 1..Len(f) : l.next[f[i]] = At(f, i + 1)
  BY DEF Partition, Linked

(* The list with an entry put in front. *)
LEMMA PushIs ==
  ASSUME NEW s \in Seq(Entries), NEW e \in Entries
  PROVE  /\ Push(e, s) \in Seq(Entries) /\ Len(Push(e, s)) = Len(s) + 1
         /\ \A i \in 1..(Len(s) + 1) : Push(e, s)[i] = IF i = 1 THEN e ELSE s[i - 1]
         /\ At(Push(e, s), 1) = e
         /\ \A i \in 1..(Len(s) + 1) : At(Push(e, s), i + 1) = At(s, i)
<1>1. Push(e, s) \in [1..(Len(s) + 1) -> Entries] /\ Len(s) \in Nat
  BY DEF Push
<1>2. Push(e, s) \in Seq(Entries) /\ Len(Push(e, s)) = Len(s) + 1
  BY <1>1, FunctionIsSeq
<1>3. \A i \in 1..(Len(s) + 1) : Push(e, s)[i] = IF i = 1 THEN e ELSE s[i - 1]
  BY DEF Push
<1> QED BY <1>1, <1>2, <1>3 DEF At

(* The list without its first entry. *)
LEMMA PopIs ==
  ASSUME NEW s \in Seq(Entries), s # <<>>
  PROVE  /\ Pop(s) \in Seq(Entries) /\ Len(Pop(s)) = Len(s) - 1 /\ Len(s) \in Nat \ {0}
         /\ \A i \in 1..(Len(s) - 1) : Pop(s)[i] = s[i + 1]
         /\ \A i \in 1..Len(s) : At(Pop(s), i) = At(s, i + 1)
<1>1. Len(s) \in Nat \ {0}
  BY EmptySeq
<1>2. Pop(s) \in [1..(Len(s) - 1) -> Entries]
  BY <1>1 DEF Pop
<1>3. Pop(s) \in Seq(Entries) /\ Len(Pop(s)) = Len(s) - 1
  BY <1>1, <1>2, FunctionIsSeq
<1>4. \A i \in 1..(Len(s) - 1) : Pop(s)[i] = s[i + 1]
  BY DEF Pop
<1> QED BY <1>1, <1>3, <1>4 DEF At

(* The first entries of a list. *)
LEMMA CutIs ==
  ASSUME NEW s \in Seq(Entries), NEW n \in 0..Len(s)
  PROVE  /\ Cut(s, n) \in Seq(Entries) /\ Len(Cut(s, n)) = n
         /\ \A i \in 1..n : Cut(s, n)[i] = s[i]
         /\ \A i \in 1..n : At(Cut(s, n), i + 1) = IF i = n THEN NULL ELSE At(s, i + 1)
         /\ At(Cut(s, n), 1) = IF n = 0 THEN NULL ELSE At(s, 1)
<1>1. Cut(s, n) \in [1..n -> Entries] /\ n \in Nat /\ Len(s) \in Nat
  BY DEF Cut
<1>2. Cut(s, n) \in Seq(Entries) /\ Len(Cut(s, n)) = n
  BY <1>1, FunctionIsSeq
<1>3. \A i \in 1..n : Cut(s, n)[i] = s[i]
  BY DEF Cut
<1> QED BY <1>1, <1>2, <1>3 DEF At

(* The first free entry becomes the first open one. *)
LEMMA TakeFreeIs ==
  ASSUME NEW l, NEW o, NEW f, Partition(l, o, f), f # <<>>
  PROVE  Partition(TakeFree(l), Push(f[1], o), Pop(f))
<1> DEFINE e == f[1]
           r == TakeFree(l)
           p == Push(e, o)
           q == Pop(f)
           m == Len(o)
           n == Len(f)
<1>1. /\ m \in Nat /\ n \in Nat \ {0} /\ e \in Entries
      /\ o \in Seq(Entries) /\ f \in Seq(Entries)
      /\ \A i \in 1..m : o[i] \in Entries
      /\ \A i \in 1..n : f[i] \in Entries
      /\ \A i, j \in 1..m : o[i] = o[j] => i = j
      /\ \A i, j \in 1..n : f[i] = f[j] => i = j
  <2>1. n \in Nat \ {0}
    BY PartitionIs, EmptySeq
  <2> QED BY <2>1, PartitionIs
<1>2. /\ l.open = At(o, 1) /\ l.free = e
      /\ \A i \in 1..m : l.next[o[i]] = At(o, i + 1)
      /\ \A i \in 1..n : l.next[f[i]] = At(f, i + 1)
  BY <1>1, HeadsAre DEF At
<1>3. /\ \A i \in 1..m, j \in 1..n : o[i] # f[j]
      /\ \A x \in Entries : (\E i \in 1..m : o[i] = x) \/ (\E j \in 1..n : f[j] = x)
      /\ l \in [next : [Slots -> Slots], open : Slots, free : Slots] /\ l.next[NULL] = NULL
  BY DEF Partition
<1>4. /\ p \in Seq(Entries) /\ Len(p) = m + 1
      /\ \A i \in 1..(m + 1) : p[i] = IF i = 1 THEN e ELSE o[i - 1]
      /\ At(p, 1) = e /\ \A i \in 1..(m + 1) : At(p, i + 1) = At(o, i)
  <2>1. o \in Seq(Entries) /\ e \in Entries
    BY <1>1
  <2> QED BY <2>1, PushIs
<1>5. /\ q \in Seq(Entries) /\ Len(q) = n - 1
      /\ \A i \in 1..(n - 1) : q[i] = f[i + 1]
      /\ \A i \in 1..n : At(q, i) = At(f, i + 1)
  BY <1>1, PopIs
<1>6. /\ r.next = [l.next EXCEPT ![e] = l.open] /\ r.open = e /\ r.free = At(f, 2)
      /\ r = [next |-> r.next, open |-> r.open, free |-> r.free]
  BY <1>1, <1>2 DEF TakeFree
<1>7. /\ r \in [next : [Slots -> Slots], open : Slots, free : Slots] /\ r.next[NULL] = NULL
      /\ r.next[e] = l.open /\ \A x \in Entries : x # e => r.next[x] = l.next[x]
  <2>1. At(f, 2) \in Slots /\ e \in Slots /\ e # NULL /\ DOMAIN l.next = Slots
    BY <1>1, <1>3, DIPFilesAssumption DEF At, Slots
  <2>2. /\ r.next \in [Slots -> Slots] /\ r.next[NULL] = NULL
        /\ r.next[e] = l.open /\ \A x \in Entries : x # e => r.next[x] = l.next[x]
    BY <1>3, <1>6, <2>1 DEF Slots
  <2> QED BY <1>6, <2>1, <2>2
<1> HIDE DEF e, r, p, q, m, n
<1>8. Linked(r, r.open, p)
  <2>1. ASSUME NEW i \in 1..(m + 1), NEW j \in 1..(m + 1), p[i] = p[j] PROVE i = j
    <3>1. ASSUME NEW k \in 1..(m + 1), k # 1
          PROVE  k - 1 \in 1..m /\ p[k] = o[k - 1] /\ o[k - 1] # e
      BY <1>1, <1>3, <1>4, <3>1 DEF e
    <3>2. CASE i = 1 \/ j = 1
      BY <1>4, <2>1, <3>1, <3>2
    <3>3. CASE i # 1 /\ j # 1
      <4>1. o[i - 1] = o[j - 1] /\ i - 1 \in 1..m /\ j - 1 \in 1..m
        BY <2>1, <3>1, <3>3
      <4> QED BY <1>1, <4>1
    <3> QED BY <3>2, <3>3
  <2>2. ASSUME NEW i \in 1..(m + 1) PROVE r.next[p[i]] = At(p, i + 1)
    <3>1. CASE i = 1
      BY <1>1, <1>2, <1>4, <1>7, <3>1
    <3>2. CASE i # 1
      <4>1. i - 1 \in 1..m /\ p[i] = o[i - 1] /\ i - 1 + 1 = i
        BY <1>1, <1>4, <3>2
      <4>2. o[i - 1] # e /\ o[i - 1] \in Entries
        BY <1>1, <1>3, <4>1 DEF e
      <4>3. l.next[o[i - 1]] = At(o, i)
        BY <1>2, <4>1
      <4> QED BY <1>4, <1>7, <4>1, <4>2, <4>3
    <3> QED BY <3>1, <3>2
  <2> QED BY <1>4, <1>6, <2>1, <2>2 DEF Linked
<1>9. Linked(r, r.free, q)
  <2>1. \A i, j \in 1..(n - 1) : q[i] = q[j] => i = j
    BY <1>1, <1>5
  <2>2. ASSUME NEW i \in 1..(n - 1) PROVE r.next[q[i]] = At(q, i + 1)
    <3>1. i + 1 \in 1..n /\ q[i] = f[i + 1] /\ i + 1 # 1
      BY <1>1, <1>5
    <3>2. f[i + 1] # e /\ f[i + 1] \in Entries
      BY <1>1, <3>1 DEF e
    <3>3. l.next[f[i + 1]] = At(f, i + 1 + 1)
      BY <1>2, <3>1
    <3> QED BY <1>5, <1>7, <3>1, <3>2, <3>3
  <2>3. r.free = At(q, 1)
    BY <1>1, <1>5, <1>6
  <2> QED BY <1>5, <2>1, <2>2, <2>3 DEF Linked
<1>10. \A i \in 1..(m + 1), j \in 1..(n - 1) : p[i] # q[j]
  <2>1. ASSUME NEW i \in 1..(m + 1), NEW j \in 1..(n - 1) PROVE p[i] # q[j]
    <3>1. j + 1 \in 1..n /\ q[j] = f[j + 1] /\ f[j + 1] # e
      BY <1>1, <1>5 DEF e
    <3>2. p[i] = e \/ \E k \in 1..m : p[i] = o[k]
      BY <1>1, <1>4
    <3> QED BY <1>3, <3>1, <3>2
  <2> QED BY <2>1
<1>11. ASSUME NEW x \in Entries
       PROVE  (\E i \in 1..(m + 1) : p[i] = x) \/ (\E j \in 1..(n - 1) : q[j] = x)
  <2>1. CASE x = e
    BY <1>1, <1>4, <2>1
  <2>2. CASE \E i \in 1..m : o[i] = x
    <3>1. PICK i \in 1..m : o[i] = x
      BY <2>2
    <3>2. i + 1 \in 1..(m + 1) /\ p[i + 1] = x
      BY SMTT(30), <1>1, <1>4, <3>1
    <3> QED BY <3>2
  <2>3. CASE x # e /\ \E i \in 1..n : f[i] = x
    <3>1. PICK i \in 1..n : f[i] = x
      BY <2>3
    <3>2. i - 1 \in 1..(n - 1) /\ q[i - 1] = x
      BY SMTT(30), <1>1, <1>5, <2>3, <3>1 DEF e
    <3> QED BY <3>2
  <2> QED BY <1>3, <2>1, <2>2, <2>3
<1>12. Len(p) = m + 1 /\ Len(q) = n - 1
  BY <1>4, <1>5
<1>13. Partition(r, p, q)
  BY <1>7, <1>8, <1>9, <1>10, <1>11, <1>12 DEF Partition
<1> QED BY <1>13 DEF r, p, q, e

(* The lists with their names exchanged. *)
Mirror(l) == [next |-> l.next, open |-> l.free, free |-> l.open]

(* Exchanging the names keeps the lists. *)
LEMMA MirrorIs ==
  ASSUME NEW l, NEW o, NEW f, Partition(l, o, f)
  PROVE  Partition(Mirror(l), f, o)
<1>1. /\ Mirror(l).next = l.next /\ Mirror(l).open = l.free /\ Mirror(l).free = l.open
      /\ Mirror(l) \in [next : [Slots -> Slots], open : Slots, free : Slots]
  BY DEF Mirror, Partition
<1>2. Linked(Mirror(l), l.free, f) /\ Linked(Mirror(l), l.open, o)
  BY <1>1 DEF Partition, Linked
<1> QED BY <1>1, <1>2 DEF Partition

(* The first open entry becomes the first free one. *)
LEMMA PutBackIs ==
  ASSUME NEW l, NEW o, NEW f, Partition(l, o, f), o # <<>>
  PROVE  Partition(PutBack(l), Pop(o), Push(o[1], f))
<1>1. Partition(TakeFree(Mirror(l)), Push(o[1], f), Pop(o))
  BY MirrorIs, TakeFreeIs
<1>2. Partition(Mirror(TakeFree(Mirror(l))), Pop(o), Push(o[1], f))
  BY <1>1, MirrorIs
<1>3. Mirror(TakeFree(Mirror(l))) = PutBack(l)
  BY DEF Mirror, TakeFree, PutBack
<1> QED BY <1>2, <1>3

(* What two links of different entries are once both are set. *)
LEMMA TwoLinks ==
  ASSUME NEW g \in [Slots -> Slots], NEW d \in Slots, NEW e \in Slots, d # e,
         NEW x \in Slots, NEW y \in Slots
  PROVE  LET h == [g EXCEPT ![d] = x, ![e] = y]
         IN  /\ h \in [Slots -> Slots] /\ h[d] = x /\ h[e] = y
             /\ \A z \in Slots : z # d /\ z # e => h[z] = g[z]
  OBVIOUS

(* An open entry that is not the first becomes the first. *)
LEMMA MoveToFrontIs ==
  ASSUME NEW l, NEW o, NEW f, Partition(l, o, f), NEW k \in 2..Len(o)
  PROVE  Partition(MoveToFront(l, o[k - 1], o[k]), Moved(o, k), f)
<1> DEFINE e == o[k]
           d == o[k - 1]
           r == MoveToFront(l, d, e)
           p == Moved(o, k)
           m == Len(o)
           n == Len(f)
<1>1. /\ m \in Nat /\ n \in Nat /\ e \in Entries /\ d \in Entries /\ d # e
      /\ k \in 2..m /\ k - 1 \in 1..m /\ k \in 1..m
      /\ o \in Seq(Entries) /\ f \in Seq(Entries)
      /\ \A i \in 1..m : o[i] \in Entries
      /\ \A i \in 1..n : f[i] \in Entries
      /\ \A i, j \in 1..m : o[i] = o[j] => i = j
      /\ \A i, j \in 1..n : f[i] = f[j] => i = j
  <2>1. m \in Nat /\ k - 1 \in 1..m /\ k \in 1..m /\ k - 1 # k
    BY PartitionIs
  <2> QED BY <2>1, PartitionIs
<1>2. /\ l.open = o[1] /\ l.free = At(f, 1)
      /\ \A i \in 1..m : l.next[o[i]] = At(o, i + 1)
      /\ \A i \in 1..n : l.next[f[i]] = At(f, i + 1)
  BY <1>1, HeadsAre DEF At
<1>3. /\ \A i \in 1..m, j \in 1..n : o[i] # f[j]
      /\ \A x \in Entries : (\E i \in 1..m : o[i] = x) \/ (\E j \in 1..n : f[j] = x)
      /\ l \in [next : [Slots -> Slots], open : Slots, free : Slots] /\ l.next[NULL] = NULL
  BY DEF Partition
<1>4. /\ p \in Seq(Entries) /\ Len(p) = m
      /\ \A i \in 1..m : p[i] = IF i = 1 THEN e ELSE IF i <= k THEN o[i - 1] ELSE o[i]
  <2>1. p \in [1..m -> Entries]
    BY <1>1 DEF Moved
  <2> QED BY <1>1, <2>1, FunctionIsSeq DEF Moved
<1>5. /\ r.next = [l.next EXCEPT ![d] = l.next[e], ![e] = l.open] /\ r.open = e /\ r.free = l.free
      /\ r = [next |-> r.next, open |-> r.open, free |-> r.free]
  <2> DEFINE nx == [l.next EXCEPT ![d] = l.next[e], ![e] = l.open]
  <2>1. r = [l EXCEPT !.next = nx, !.open = e]
    BY DEF MoveToFront
  <2> HIDE DEF r, nx, e, d
  <2>2. r.next = nx /\ r.open = e /\ r.free = l.free
        /\ r = [next |-> r.next, open |-> r.open, free |-> r.free]
    BY <1>3, <2>1
  <2> QED BY <2>2 DEF nx
<1>6. /\ r \in [next : [Slots -> Slots], open : Slots, free : Slots] /\ r.next[NULL] = NULL
      /\ r.next[e] = o[1] /\ r.next[d] = At(o, k + 1)
      /\ \A x \in Entries : x # e /\ x # d => r.next[x] = l.next[x]
  <2>1. e \in Slots /\ d \in Slots /\ e # NULL /\ d # NULL /\ DOMAIN l.next = Slots
    BY <1>1, <1>3, DIPFilesAssumption DEF Slots
  <2>2. l.next[e] = At(o, k + 1)
    BY <1>1, <1>2
  <2>3. /\ r.next \in [Slots -> Slots] /\ r.next[NULL] = NULL
        /\ r.next[e] = l.open /\ r.next[d] = l.next[e]
        /\ \A x \in Entries : x # e /\ x # d => r.next[x] = l.next[x]
    <3>1. l.next \in [Slots -> Slots] /\ l.next[NULL] = NULL /\ l.next[e] \in Slots /\ l.open \in Slots
      BY <1>3, <2>1
    <3>2. r.next = [l.next EXCEPT ![d] = l.next[e], ![e] = l.open] /\ d # e /\ Entries \subseteq Slots
      BY <1>1, <1>5 DEF Slots
    <3> HIDE DEF e, d, r
    <3>3. /\ r.next \in [Slots -> Slots] /\ r.next[d] = l.next[e] /\ r.next[e] = l.open
          /\ \A z \in Slots : z # d /\ z # e => r.next[z] = l.next[z]
      BY SMTT(30), <2>1, <3>1, <3>2, TwoLinks
    <3> QED BY <2>1, <3>1, <3>2, <3>3 DEF Slots
  <2> QED BY <1>2, <1>3, <1>5, <2>1, <2>2, <2>3
<1> HIDE DEF e, r, p, m, n, d
<1>7. ASSUME NEW i \in 1..m, NEW j \in 1..m, p[i] = p[j] PROVE i = j
  <2> DEFINE from(x) == IF x = 1 THEN k ELSE IF x <= k THEN x - 1 ELSE x
  <2>1. \A x \in 1..m : from(x) \in 1..m /\ p[x] = o[from(x)]
    BY <1>1, <1>4 DEF e
  <2>2. \A x, y \in 1..m : from(x) = from(y) => x = y
    BY <1>1
  <2> HIDE DEF from
  <2>3. o[from(i)] = o[from(j)] /\ from(i) \in 1..m /\ from(j) \in 1..m
    BY <1>7, <2>1
  <2>4. from(i) = from(j)
    BY <1>1, <2>3
  <2> QED BY <2>2, <2>4
<1>8. ASSUME NEW i \in 1..m PROVE r.next[p[i]] = At(p, i + 1)
  <2>1. CASE i = 1
    <3>1. 2 \in 1..m /\ p[2] = o[1] /\ p[1] = e
      BY <1>1, <1>4
    <3> QED BY <1>4, <1>6, <2>1, <3>1 DEF At
  <2>2. CASE i # 1 /\ i < k
    <3>1. p[i] = o[i - 1] /\ i - 1 \in 1..m /\ i - 1 # k /\ i - 1 # k - 1 /\ i + 1 \in 1..m /\ p[i + 1] = o[i]
      BY <1>1, <1>4, <2>2
    <3>2. o[i - 1] # e /\ o[i - 1] # d /\ o[i - 1] \in Entries
      BY <1>1, <3>1 DEF e, d
    <3>3. l.next[o[i - 1]] = o[i]
      <4>1. l.next[o[i - 1]] = At(o, i - 1 + 1) /\ i - 1 + 1 = i
        BY SMTT(30), <1>2, <3>1
      <4> QED BY <4>1 DEF At, m
    <3>4. At(p, i + 1) = o[i]
      BY <1>4, <3>1 DEF At
    <3> QED BY <1>6, <3>1, <3>2, <3>3, <3>4
  <2>3. CASE i = k
    <3>1. p[i] = d
      BY <1>1, <1>4, <2>3 DEF d
    <3>2. At(p, k + 1) = At(o, k + 1)
      BY <1>1, <1>4 DEF At, m
    <3> QED BY <1>6, <2>3, <3>1, <3>2
  <2>4. CASE i > k
    <3>1. p[i] = o[i] /\ i # k /\ i # k - 1 /\ o[i] \in Entries
      BY <1>1, <1>4, <2>4
    <3>2. o[i] # e /\ o[i] # d
      BY <1>1, <3>1 DEF e, d
    <3>3. At(p, i + 1) = At(o, i + 1)
      BY <1>1, <1>4, <2>4 DEF At, m
    <3> QED BY <1>2, <1>6, <3>1, <3>2, <3>3
  <2> QED BY <1>1, <2>1, <2>2, <2>3, <2>4
<1>9. r.open = At(p, 1)
  <2>1. 1 \in 1..m /\ p[1] = e
    BY <1>1, <1>4
  <2> QED BY <1>4, <1>5, <2>1 DEF At
<1>10. Linked(r, r.open, p)
  BY <1>4, <1>7, <1>8, <1>9 DEF Linked
<1>11. Linked(r, r.free, f)
  <2>1. ASSUME NEW i \in 1..n PROVE r.next[f[i]] = At(f, i + 1)
    <3>1. f[i] # e /\ f[i] # d /\ f[i] \in Entries
      BY <1>1, <1>3 DEF e, d
    <3> QED BY <1>2, <1>6, <3>1
  <2> QED BY <1>1, <1>2, <1>5, <2>1 DEF Linked, n
<1>12. \A i \in 1..m, j \in 1..n : p[i] # f[j]
  <2>1. ASSUME NEW i \in 1..m PROVE \E x \in 1..m : p[i] = o[x]
    <3>1. p[i] = o[k] \/ p[i] = o[i] \/ (i - 1 \in 1..m /\ p[i] = o[i - 1])
      BY <1>1, <1>4 DEF e
    <3> QED BY <1>1, <3>1
  <2> QED BY <1>3, <2>1
<1>13. ASSUME NEW x \in Entries
       PROVE  (\E i \in 1..m : p[i] = x) \/ (\E j \in 1..n : f[j] = x)
  <2>1. ASSUME NEW i \in 1..m, o[i] = x PROVE \E j \in 1..m : p[j] = x
    <3>1. CASE i = k
      BY <1>1, <1>4, <2>1, <3>1 DEF e
    <3>2. CASE i < k
      <4>1. i + 1 \in 1..m /\ p[i + 1] = x
        BY <1>1, <1>4, <2>1, <3>2
      <4> QED BY <4>1
    <3>3. CASE i > k
      BY <1>1, <1>4, <2>1, <3>3
    <3> QED BY <1>1, <3>1, <3>2, <3>3
  <2> QED BY <1>3, <2>1
<1>14. Partition(r, p, f)
  BY <1>4, <1>6, <1>10, <1>11, <1>12, <1>13 DEF Partition, n
<1> QED BY <1>14 DEF r, p, d, e

(* The entries from the k-th on, the last of them first, before those of f. *)
Spill(s, k, f) ==
  [i \in 1..(Len(s) + 1 - k + Len(f)) |->
     IF i <= Len(s) + 1 - k THEN s[Len(s) + 1 - i] ELSE f[i - (Len(s) + 1 - k)]]

(* The open list is cut before its k-th entry, and the links of the entries
   after the cut are turned round. *)
Spilled(l, o, k, r) ==
  /\ r \in [next : [Slots -> Slots], open : Slots, free : Slots] /\ r.next[NULL] = NULL
  /\ k > 1 => r.next[o[k - 1]] = NULL
  /\ k <= Len(o) => r.next[o[k]] = l.free
  /\ \A i \in (k + 1)..Len(o) : r.next[o[i]] = o[i - 1]
  /\ \A x \in Entries : (\A i \in 1..Len(o) : i >= k - 1 => x # o[i]) => r.next[x] = l.next[x]
  /\ r.open = (IF k = 1 THEN NULL ELSE l.open)
  /\ r.free = (IF k <= Len(o) THEN o[Len(o)] ELSE l.free)

(* The entries after a cut, turned round and put in front of another list. *)
LEMMA SpillIs ==
  ASSUME NEW s \in Seq(Entries), NEW f \in Seq(Entries), NEW k \in 1..(Len(s) + 1)
  PROVE  /\ Spill(s, k, f) \in Seq(Entries) /\ Len(Spill(s, k, f)) = Len(s) + 1 - k + Len(f)
         /\ \A i \in 1..(Len(s) + 1 - k) : Spill(s, k, f)[i] = s[Len(s) + 1 - i]
         /\ \A i \in 1..Len(f) : Spill(s, k, f)[i + (Len(s) + 1 - k)] = f[i]
         /\ At(Spill(s, k, f), 1) = IF k <= Len(s) THEN s[Len(s)] ELSE At(f, 1)
         /\ At(Spill(s, k, f), Len(s) + 1 - k + 1) = At(f, 1)
         /\ \A i \in 1..Len(f) : At(Spill(s, k, f), i + (Len(s) + 1 - k) + 1) = At(f, i + 1)
<1> DEFINE w == Spill(s, k, f)
           m == Len(s)
           n == Len(f)
           c == m + 1 - k
<1>1. m \in Nat /\ n \in Nat /\ c \in Nat /\ k \in 1..(m + 1) /\ c <= m
      /\ (k <= m <=> 1 <= c) /\ \A i \in 1..m : s[i] \in Entries
  OBVIOUS
<1>1a. \A i \in 1..n : f[i] \in Entries
  OBVIOUS
<1>2. w = [i \in 1..(c + n) |-> IF i <= c THEN s[m + 1 - i] ELSE f[i - c]]
  BY DEF Spill
<1>3. c = m + 1 - k
  OBVIOUS
<1> HIDE DEF w, m, n, c
<1>4. w \in [1..(c + n) -> Entries]
  <2>1. ASSUME NEW i \in 1..(c + n)
        PROVE  (IF i <= c THEN s[m + 1 - i] ELSE f[i - c]) \in Entries
    <3>1. CASE i <= c
      <4>1. m + 1 - i \in 1..m
        BY <1>1, <3>1
      <4> QED BY <1>1, <3>1, <4>1
    <3>2. CASE ~(i <= c)
      <4>1. i - c \in 1..n
        BY <1>1, <3>2
      <4> QED BY <1>1a, <3>2, <4>1
    <3> QED BY <3>1, <3>2
  <2> QED BY <1>2, <2>1
<1>5. w \in Seq(Entries) /\ Len(w) = c + n
  BY <1>1, <1>4, FunctionIsSeq
<1>6. \A i \in 1..c : w[i] = s[m + 1 - i]
  <2>1. ASSUME NEW i \in 1..c PROVE w[i] = s[m + 1 - i]
    <3>1. i \in 1..(c + n) /\ i <= c
      BY <1>1
    <3> QED BY <1>2, <3>1
  <2> QED BY <2>1
<1>7. ASSUME NEW i \in 1..n PROVE w[i + c] = f[i]
  <2>1. i + c \in 1..(c + n) /\ ~(i + c <= c) /\ i + c - c = i
    BY <1>1
  <2>2. \A x \in 1..(c + n) : w[x] = IF x <= c THEN s[m + 1 - x] ELSE f[x - c]
    BY <1>2
  <2>3. ASSUME NEW x \in 1..(c + n), x = i + c PROVE w[x] = f[i]
    <3>1. ~(x <= c) /\ x - c = i
      BY <1>1, <2>3
    <3>2. w[x] = f[x - c]
      BY <2>2, <3>1
    <3> QED BY <3>1, <3>2
  <2> QED BY <2>1, <2>3
<1>8. At(w, c + 1) = At(f, 1)
  <2>1. CASE n = 0
    BY <1>1, <1>5, <2>1 DEF At, n
  <2>2. CASE n # 0
    <3>1. 1 \in 1..n /\ 1 + c \in 1..(c + n) /\ c + 1 = 1 + c
      BY <1>1, <2>2
    <3> QED BY <1>5, <1>7, <3>1 DEF At, n
  <2> QED BY <2>1, <2>2
<1>9. ASSUME NEW i \in 1..n PROVE At(w, i + c + 1) = At(f, i + 1)
  <2>1. CASE i = n
    BY <1>1, <1>5, <2>1 DEF At, n
  <2>2. CASE i # n
    <3>1. i + 1 \in 1..n /\ i + c + 1 \in 1..(c + n) /\ i + c + 1 = (i + 1) + c
      BY <1>1, <2>2
    <3> QED BY <1>5, <1>7, <3>1 DEF At, n
  <2> QED BY <2>1, <2>2
<1>10. At(w, 1) = IF k <= m THEN s[m] ELSE At(f, 1)
  <2>1. CASE k <= m
    <3>1. 1 \in 1..c /\ 1 \in 1..(c + n) /\ m + 1 - 1 = m
      BY <1>1, <2>1
    <3> QED BY <1>5, <1>6, <2>1, <3>1 DEF At
  <2>2. CASE ~(k <= m)
    <3>1. c = 0
      BY <1>1, <2>2
    <3> QED BY <1>8, <2>2, <3>1
  <2> QED BY <2>1, <2>2
<1> QED BY <1>5, <1>6, <1>7, <1>8, <1>9, <1>10 DEF w, m, n, c

(* A cut of the open list, by GetFile or by the sweep, keeps the partition. *)
LEMMA SpilledIs ==
  ASSUME NEW l, NEW o, NEW f, Partition(l, o, f), NEW k \in 1..(Len(o) + 1),
         NEW r, Spilled(l, o, k, r)
  PROVE  Partition(r, Cut(o, k - 1), Spill(o, k, f))
<1> DEFINE p == Cut(o, k - 1)
           w == Spill(o, k, f)
           m == Len(o)
           n == Len(f)
           c == m + 1 - k
<1>1. /\ m \in Nat /\ n \in Nat /\ c \in Nat /\ k \in 1..(m + 1) /\ k - 1 \in 0..m /\ c = m + 1 - k
      /\ o \in Seq(Entries) /\ f \in Seq(Entries)
      /\ \A i \in 1..m : o[i] \in Entries
      /\ \A i \in 1..n : f[i] \in Entries
      /\ \A i, j \in 1..m : o[i] = o[j] => i = j
      /\ \A i, j \in 1..n : f[i] = f[j] => i = j
  <2>1. m \in Nat /\ c \in Nat /\ k - 1 \in 0..m
    BY PartitionIs
  <2> QED BY <2>1, PartitionIs
<1>2. /\ l.open = At(o, 1) /\ l.free = At(f, 1)
      /\ \A i \in 1..m : l.next[o[i]] = At(o, i + 1)
      /\ \A i \in 1..n : l.next[f[i]] = At(f, i + 1)
  BY HeadsAre
<1>3. /\ \A i \in 1..m, j \in 1..n : o[i] # f[j]
      /\ \A x \in Entries : (\E i \in 1..m : o[i] = x) \/ (\E j \in 1..n : f[j] = x)
  BY DEF Partition
<1>4. /\ p \in Seq(Entries) /\ Len(p) = k - 1
      /\ \A i \in 1..(k - 1) : p[i] = o[i]
      /\ \A i \in 1..(k - 1) : At(p, i + 1) = IF i = k - 1 THEN NULL ELSE At(o, i + 1)
      /\ At(p, 1) = IF k = 1 THEN NULL ELSE At(o, 1)
  <2>1. k - 1 \in 0..Len(o) /\ (k - 1 = 0 <=> k = 1)
    BY <1>1
  <2>2. /\ p \in Seq(Entries) /\ Len(p) = k - 1
        /\ \A i \in 1..(k - 1) : p[i] = o[i]
        /\ \A i \in 1..(k - 1) : At(p, i + 1) = IF i = k - 1 THEN NULL ELSE At(o, i + 1)
        /\ At(p, 1) = IF k - 1 = 0 THEN NULL ELSE At(o, 1)
    BY <1>1, <2>1, CutIs
  <2> QED BY <2>1, <2>2
<1>5. /\ w \in Seq(Entries) /\ Len(w) = c + n
      /\ \A i \in 1..c : w[i] = o[m + 1 - i]
      /\ \A i \in 1..n : w[i + c] = f[i]
      /\ At(w, 1) = IF k <= m THEN o[m] ELSE At(f, 1)
      /\ At(w, c + 1) = At(f, 1)
      /\ \A i \in 1..n : At(w, i + c + 1) = At(f, i + 1)
  <2>1. o \in Seq(Entries) /\ f \in Seq(Entries) /\ k \in 1..(Len(o) + 1)
    BY <1>1
  <2> QED BY <2>1, SpillIs
<1>6. /\ r \in [next : [Slots -> Slots], open : Slots, free : Slots] /\ r.next[NULL] = NULL
      /\ k > 1 => r.next[o[k - 1]] = NULL
      /\ k <= m => r.next[o[k]] = At(f, 1)
      /\ \A i \in (k + 1)..m : r.next[o[i]] = o[i - 1]
      /\ \A x \in Entries : (\A i \in 1..m : i >= k - 1 => x # o[i]) => r.next[x] = l.next[x]
      /\ r.open = At(p, 1)
      /\ r.free = At(w, 1)
  BY <1>1, <1>2, <1>4, <1>5 DEF Spilled
<1> HIDE DEF p, w, m, n, c
<1>7. ASSUME NEW i \in 1..(k - 1) PROVE r.next[p[i]] = At(p, i + 1)
  <2>1. p[i] = o[i] /\ i \in 1..m
    BY <1>1, <1>4
  <2>2. CASE i = k - 1
    <3>1. k > 1
      BY <1>1
    <3> QED BY <1>4, <1>6, <2>1, <2>2, <3>1
  <2>3. CASE i # k - 1
    <3>1. ~(i >= k - 1)
      BY <1>1, <2>3
    <3>2. \A j \in 1..m : j >= k - 1 => o[i] # o[j]
      BY <1>1, <2>1, <3>1
    <3>3. r.next[o[i]] = l.next[o[i]]
      BY <1>1, <1>6, <2>1, <3>2
    <3> QED BY <1>2, <1>4, <2>1, <2>3, <3>3
  <2> QED BY <2>2, <2>3
<1>8. Linked(r, r.open, p)
  <2>1. ASSUME NEW i \in 1..(k - 1), NEW j \in 1..(k - 1), p[i] = p[j] PROVE i = j
    <3>1. i \in 1..m /\ j \in 1..m
      BY <1>1
    <3>2. o[i] = o[j]
      BY <1>4, <2>1
    <3> QED BY <1>1, <3>1, <3>2
  <2> QED BY <1>4, <1>6, <1>7, <2>1 DEF Linked
<1>9. ASSUME NEW i \in 1..(c + n) PROVE r.next[w[i]] = At(w, i + 1)
  <2>1. CASE i < c
    <3>1. i \in 1..c /\ i + 1 \in 1..c /\ i + 1 \in 1..(c + n) /\ m + 1 - i \in (k + 1)..m
          /\ m + 1 - i - 1 = m + 1 - (i + 1)
      BY <1>1, <2>1
    <3>2. w[i] = o[m + 1 - i] /\ w[i + 1] = o[m + 1 - (i + 1)]
      BY <1>5, <3>1
    <3>3. ASSUME NEW x \in (k + 1)..m, NEW y, y = x - 1 PROVE r.next[o[x]] = o[y]
      BY <1>6, <3>3
    <3>4. r.next[o[m + 1 - i]] = o[m + 1 - (i + 1)]
      <4>1. m \in Nat /\ i \in Nat /\ k \in Nat
        BY <1>1
      <4> QED BY <3>1, <3>3, <4>1
    <3> QED BY <1>5, <3>1, <3>2, <3>4 DEF At
  <2>2. CASE i = c
    <3>1. i \in 1..c /\ m + 1 - i = k /\ k <= m
      BY <1>1, <2>2
    <3>2. w[i] = o[k] /\ r.next[o[k]] = At(f, 1)
      BY <1>5, <1>6, <3>1
    <3> QED BY <1>5, <2>2, <3>2
  <2>3. CASE i > c
    <3>1. i - c \in 1..n /\ i - c + c = i
      BY <1>1, <2>3
    <3>2. w[i] = f[i - c] /\ At(w, i + 1) = At(f, i - c + 1)
      BY <1>5, <3>1
    <3>3. \A j \in 1..m : f[i - c] # o[j]
      BY <1>3, <3>1
    <3>4. r.next[f[i - c]] = l.next[f[i - c]]
      BY <1>1, <1>6, <3>1, <3>3
    <3> QED BY <1>2, <3>1, <3>2, <3>4
  <2> QED BY <1>1, <2>1, <2>2, <2>3
<1>10. ASSUME NEW i \in 1..(c + n)
       PROVE  \/ i \in 1..c /\ m + 1 - i \in 1..m /\ m + 1 - i >= k /\ w[i] = o[m + 1 - i]
              \/ i > c /\ i - c \in 1..n /\ w[i] = f[i - c]
  <2>1. CASE i <= c
    <3>1. i \in 1..c /\ m + 1 - i \in 1..m /\ m + 1 - i >= k
      BY <1>1, <2>1
    <3> QED BY <1>5, <3>1
  <2>2. CASE i > c
    <3>1. i - c \in 1..n /\ i - c + c = i
      BY <1>1, <2>2
    <3>2. w[i - c + c] = f[i - c]
      BY <1>5, <3>1
    <3> QED BY <2>2, <3>1, <3>2
  <2> QED BY <1>1, <2>1, <2>2
<1>11. ASSUME NEW i \in 1..(c + n), NEW j \in 1..(c + n), w[i] = w[j] PROVE i = j
  <2>1. CASE i \in 1..c /\ j \in 1..c /\ m + 1 - i \in 1..m /\ m + 1 - j \in 1..m
             /\ o[m + 1 - i] = o[m + 1 - j]
    <3>1. m + 1 - i = m + 1 - j
      BY <1>1, <2>1
    <3> QED BY <1>1, <3>1
  <2>2. CASE i - c \in 1..n /\ j - c \in 1..n /\ f[i - c] = f[j - c]
    <3>1. i - c = j - c
      BY <1>1, <2>2
    <3> QED BY <1>1, <3>1
  <2>3. ~(m + 1 - i \in 1..m /\ j - c \in 1..n /\ o[m + 1 - i] = f[j - c])
    BY <1>3
  <2>4. ~(m + 1 - j \in 1..m /\ i - c \in 1..n /\ o[m + 1 - j] = f[i - c])
    BY <1>3
  <2> HIDE <1>3
  <2> QED BY <1>10, <1>11, <2>1, <2>2, <2>3, <2>4
<1>12. Linked(r, r.free, w)
  BY <1>5, <1>6, <1>9, <1>11 DEF Linked
<1>13. ASSUME NEW i \in 1..(k - 1), NEW j \in 1..(c + n) PROVE p[i] # w[j]
  <2>1. p[i] = o[i] /\ i \in 1..m /\ ~(i >= k)
    BY SMTT(30), <1>1, <1>4
  <2>2. CASE m + 1 - j \in 1..m /\ m + 1 - j >= k /\ w[j] = o[m + 1 - j]
    <3>1. i # m + 1 - j
      BY <2>1, <2>2
    <3> QED BY <1>1, <2>1, <2>2, <3>1
  <2>3. CASE j - c \in 1..n /\ w[j] = f[j - c]
    BY <1>3, <2>1, <2>3
  <2> QED BY <1>10, <2>2, <2>3
<1>14. ASSUME NEW x \in Entries
       PROVE  (\E i \in 1..(k - 1) : p[i] = x) \/ (\E j \in 1..(c + n) : w[j] = x)
  <2>1. ASSUME NEW i \in 1..m, o[i] = x, i < k PROVE \E j \in 1..(k - 1) : p[j] = x
    <3>1. i \in 1..(k - 1)
      BY <1>1, <2>1
    <3> QED BY <1>4, <2>1, <3>1
  <2>2. ASSUME NEW i \in 1..m, o[i] = x, ~(i < k) PROVE \E j \in 1..(c + n) : w[j] = x
    <3>1. m + 1 - i \in 1..c /\ m + 1 - i \in 1..(c + n) /\ m + 1 - (m + 1 - i) = i
      BY <1>1, <2>2
    <3>2. w[m + 1 - i] = o[m + 1 - (m + 1 - i)]
      BY <1>5, <3>1
    <3> QED BY <2>2, <3>1, <3>2
  <2>3. ASSUME NEW i \in 1..n, f[i] = x PROVE \E j \in 1..(c + n) : w[j] = x
    <3>1. i + c \in 1..(c + n)
      BY <1>1
    <3> QED BY <1>5, <2>3, <3>1
  <2> QED BY <1>3, <2>1, <2>2, <2>3
<1>15. Partition(r, p, w)
  <2>1. \A i \in 1..Len(p), j \in 1..Len(w) : p[i] # w[j]
    BY <1>4, <1>5, <1>13
  <2>2. \A x \in Entries : (\E i \in 1..Len(p) : p[i] = x) \/ (\E j \in 1..Len(w) : w[j] = x)
    BY <1>4, <1>5, <1>14
  <2>3. r \in [next : [Slots -> Slots], open : Slots, free : Slots] /\ r.next[NULL] = NULL
    BY <1>6
  <2> QED BY <1>8, <1>12, <2>1, <2>2, <2>3 DEF Partition
<1> QED BY <1>15 DEF p, w

(* No entry is lost: the lists have all of them between them. *)
LEMMA LengthsAre ==
  ASSUME NEW l, NEW o, NEW f, Partition(l, o, f)
  PROVE  /\ Len(o) + Len(f) = Size /\ Len(o \o f) = Size /\ ToSet(o \o f) = Entries
         /\ ToSet(o) = {o[i] : i \in 1..Len(o)} /\ ToSet(f) = {f[i] : i \in 1..Len(f)}
<1> DEFINE m == Len(o)
           n == Len(f)
           s == o \o f
<1>1. /\ m \in Nat /\ n \in Nat /\ o \in Seq(Entries) /\ f \in Seq(Entries) /\ Size \in Nat
      /\ DOMAIN o = 1..m /\ DOMAIN f = 1..n
      /\ \A i \in 1..m : o[i] \in Entries
      /\ \A i \in 1..n : f[i] \in Entries
      /\ \A i, j \in 1..m : o[i] = o[j] => i = j
      /\ \A i, j \in 1..n : f[i] = f[j] => i = j
  BY PartitionIs
<1>2. /\ \A i \in 1..m, j \in 1..n : o[i] # f[j]
      /\ \A x \in Entries : (\E i \in 1..m : o[i] = x) \/ (\E j \in 1..n : f[j] = x)
  BY DEF Partition
<1>3. s \in Seq(Entries) /\ Len(s) = m + n /\ DOMAIN s = 1..(m + n)
      /\ \A i \in 1..(m + n) : s[i] = IF i <= m THEN o[i] ELSE f[i - m]
  BY <1>1, ConcatProperties
<1> HIDE DEF s, m, n
<1>4. ASSUME NEW i \in 1..(m + n)
      PROVE  \/ i \in 1..m /\ s[i] = o[i]
             \/ ~(i \in 1..m) /\ i - m \in 1..n /\ s[i] = f[i - m]
  <2>1. CASE i <= m
    BY <1>1, <1>3, <2>1
  <2>2. CASE ~(i <= m)
    <3>1. ~(i \in 1..m) /\ i - m \in 1..n
      BY <1>1, <2>2
    <3>2. s[i] = f[i - m]
      BY <1>3, <2>2
    <3> QED BY <3>1, <3>2
  <2> QED BY <2>1, <2>2
<1>5. ASSUME NEW i \in 1..(m + n), NEW j \in 1..(m + n), s[i] = s[j] PROVE i = j
  <2>1. CASE i \in 1..m /\ j \in 1..m /\ o[i] = o[j]
    BY <1>1, <2>1
  <2>2. CASE i - m \in 1..n /\ j - m \in 1..n /\ f[i - m] = f[j - m]
    <3>1. i - m = j - m
      BY <1>1, <2>2
    <3> QED BY <1>1, <3>1
  <2>3. ~(i \in 1..m /\ j - m \in 1..n /\ o[i] = f[j - m])
    BY <1>2
  <2>4. ~(j \in 1..m /\ i - m \in 1..n /\ o[j] = f[i - m])
    BY <1>2
  <2> HIDE <1>2
  <2> QED BY <1>4, <1>5, <2>1, <2>2, <2>3, <2>4
<1>6. ASSUME NEW x \in Entries PROVE \E i \in 1..(m + n) : s[i] = x
  <2>1. ASSUME NEW i \in 1..m, o[i] = x PROVE \E j \in 1..(m + n) : s[j] = x
    <3>1. i \in 1..(m + n) /\ i <= m
      BY <1>1
    <3> QED BY <1>3, <2>1, <3>1
  <2>2. ASSUME NEW i \in 1..n, f[i] = x PROVE \E j \in 1..(m + n) : s[j] = x
    <3>1. i + m \in 1..(m + n) /\ ~(i + m <= m) /\ i + m - m = i
      BY <1>1
    <3>2. s[i + m] = f[i + m - m]
      <4>1. \A z \in 1..(m + n) : ~(z <= m) => s[z] = f[z - m]
        BY <1>3
      <4>2. m \in Nat /\ i \in Nat /\ n \in Nat
        BY <1>1
      <4> HIDE <1>3
      <4> QED BY <3>1, <4>1, <4>2
    <3> QED BY <2>2, <3>1, <3>2
  <2> QED BY <1>2, <2>1, <2>2
<1>7. s \in Bijection(1..(m + n), Entries)
  <2>1. s \in [1..(m + n) -> Entries]
    BY <1>3
  <2> QED BY <2>1, <1>5, <1>6 DEF Bijection, Injection, Surjection, IsInjective
<1>8. m + n = Size
  <2>1. IsFiniteSet(1..(m + n)) /\ Cardinality(1..(m + n)) = m + n
    BY <1>1, IntervalSize
  <2>2. Cardinality(Entries) = Size
    BY <1>1, IntervalSize DEF Entries
  <2>3. ExistsBijection(1..(m + n), Entries)
    BY <1>7 DEF ExistsBijection
  <2> QED BY <2>1, <2>2, <2>3, FS_Bijection
<1>9. ToSet(s) = Entries
  <2>1. ToSet(s) = {s[i] : i \in 1..(m + n)}
    BY <1>3 DEF ToSet
  <2>2. \A i \in 1..(m + n) : s[i] \in Entries
    BY <1>3
  <2> QED BY <2>1, <2>2, <1>6
<1>10. ToSet(o) = {o[i] : i \in 1..m} /\ ToSet(f) = {f[i] : i \in 1..n}
  BY <1>1 DEF ToSet
<1> QED BY <1>3, <1>8, <1>9, <1>10 DEF m, n, s

-----------------------------------------------------------------------------
(* What GetFile, ReadFile and HandleOther look for.                         *)

(* Min is the least member of a set of numbers. *)
LEMMA MinIs ==
  ASSUME NEW T, T \subseteq Nat, T # {}
  PROVE  Min(T) \in T /\ \A y \in T : Min(T) <= y
  BY Smallest DEF Min

(* The search of an open list that does not begin with the file, when nothing
   has the id that is read through the null pointer: it ends at the file, or at
   the last entry, or past the only one. *)
LEMMA StopIs ==
  ASSUME NullFile \notin Files, NEW o, NEW f, Partition(lists, o, f), Len(o) > 0, NEW x \in Files
  PROVE  LET at == Walk(lists, lists.open)
             i == Stop(at, x)
         IN  \/ i \in 2..Len(o) /\ at[i] = o[i] /\ at[i - 1] = o[i - 1] /\ fileid[o[i]] = x
             \/ /\ FileId(at[i]) # x /\ \A k \in 2..Len(o) : fileid[o[k]] # x
                /\ Len(o) > 1 => at[i] = o[Len(o)] /\ at[i - 1] = o[Len(o) - 1]
<1> DEFINE m == Len(o)
           at == Walk(lists, lists.open)
           T == {k \in 2..(Size + 1) : FileId(at[k]) = x \/ lists.next[at[k]] = NULL}
           i == Stop(at, x)
<1>1. /\ m \in Nat /\ m > 0 /\ m <= Size /\ Size \in Nat /\ Size > 1
      /\ \A k \in 1..m : o[k] \in Entries /\ o[k] # NULL
      /\ lists.next[NULL] = NULL
      /\ \A k \in 1..m : lists.next[o[k]] = At(o, k + 1)
  <2>1. /\ m \in 0..Size /\ Size \in Nat /\ Size > 1 /\ NULL \notin Entries
        /\ \A k \in 1..m : o[k] \in Entries
    BY PartitionIs
  <2>2. \A k \in 1..m : lists.next[o[k]] = At(o, k + 1)
    BY HeadsAre
  <2>3. lists.next[NULL] = NULL
    BY DEF Partition
  <2> QED BY <2>1, <2>2, <2>3
<1>2. \A k \in 1..(Size + 1) : at[k] = At(o, k)
  BY WalkIs DEF Partition
<1>3. i = Min(T)
  BY DEF Stop
<1> HIDE DEF at, i
<1>4. \A k \in 1..m : at[k] = o[k] /\ FileId(at[k]) = fileid[o[k]] /\ lists.next[at[k]] = At(o, k + 1)
  BY <1>1, <1>2 DEF At, FileId
<1>5. \A k \in (m + 1)..(Size + 1) : at[k] = NULL /\ FileId(at[k]) # x /\ lists.next[at[k]] = NULL
  BY <1>1, <1>2 DEF At, FileId
<1>6. \A k \in 1..m : k # m => At(o, k + 1) # NULL
  BY <1>1 DEF At
<1>7. At(o, m + 1) = NULL
  BY <1>1 DEF At
<1> DEFINE z == IF m = 1 THEN 2 ELSE m
<1>8. z \in T
  <2>1. CASE m = 1
    <3>1. 2 \in (m + 1)..(Size + 1) /\ 2 \in 2..(Size + 1)
      BY <1>1, <2>1
    <3>2. lists.next[at[2]] = NULL /\ z = 2
      BY <1>5, <2>1, <3>1
    <3> QED BY <3>1, <3>2
  <2>2. CASE m # 1
    <3>0. m \in Nat /\ m > 0 /\ m <= Size /\ Size \in Nat
      BY <1>1
    <3>1. m \in 1..m /\ m \in 2..(Size + 1)
      <4> HIDE DEF m
      <4> QED BY <2>2, <3>0
    <3> QED BY <1>4, <1>7, <2>2, <3>1
  <2> QED BY <2>1, <2>2
<1>9. T \subseteq Nat /\ T \subseteq 2..(Size + 1)
  BY <1>1
<1>10. i \in T /\ \A k \in T : i <= k
  <2> HIDE DEF T
  <2> QED BY <1>3, <1>8, <1>9, MinIs
<1>11. i \in 2..z
  BY <1>1, <1>8, <1>9, <1>10
<1>12. CASE FileId(at[i]) = x
  <2>1. i \in 2..m /\ i - 1 \in 1..m /\ i \in 1..m
    BY <1>1, <1>5, <1>11, <1>12
  <2> QED BY <1>4, <1>12, <2>1 DEF at, i
<1>13. CASE FileId(at[i]) # x
  <2>1. i = z
    <3>1. lists.next[at[i]] = NULL
      BY <1>10, <1>13
    <3>2. CASE m = 1
      BY <1>11, <3>2
    <3>3. CASE m # 1
      BY <1>1, <1>4, <1>6, <1>11, <3>1, <3>3
    <3> QED BY <3>2, <3>3
  <2>2. ASSUME NEW k \in 2..m PROVE fileid[o[k]] # x
    <3>1. CASE k = z
      BY <1>1, <1>4, <1>13, <2>1, <3>1
    <3>2. CASE k # z
      <4>1. k \notin T
        BY <1>1, <1>10, <2>1, <3>2
      <4>2. k \in 2..(Size + 1) /\ k \in 1..m
        BY <1>1
      <4> QED BY <1>4, <4>1, <4>2
    <3> QED BY <3>1, <3>2
  <2>3. m > 1 => at[i] = o[m] /\ at[i - 1] = o[m - 1]
    BY <1>1, <1>4, <2>1
  <2> QED BY <1>13, <2>2, <2>3 DEF at, i
<1> QED BY <1>12, <1>13

(* The last open entry becomes the first free one. *)
LEMMA EvictIs ==
  ASSUME NEW l, NEW o, NEW f, Partition(l, o, f), NEW n, n = Len(o), n > 1
  PROVE  Partition(Evict(l, o[n - 1], o[n]), Cut(o, n - 1), Spill(o, n, f))
<1> DEFINE e == o[n]
           d == o[n - 1]
           r == Evict(l, d, e)
<1>1. /\ n \in Nat /\ n - 1 \in 1..n /\ n \in 1..n /\ n - 1 # n
      /\ \A i \in 1..n : o[i] \in Entries
      /\ \A i, j \in 1..n : o[i] = o[j] => i = j
  <2>1. n \in Nat /\ n - 1 \in 1..n /\ n \in 1..n /\ n - 1 # n
    BY PartitionIs
  <2> QED BY <2>1, PartitionIs
<1>2. /\ e \in Entries /\ d \in Entries /\ d # e /\ e \in Slots /\ d \in Slots
      /\ Entries \subseteq Slots /\ NULL \in Slots /\ NULL \notin Entries
  BY <1>1, DIPFilesAssumption DEF Slots
<1>3. l \in [next : [Slots -> Slots], open : Slots, free : Slots] /\ l.next[NULL] = NULL
  BY DEF Partition
<1>4. l.next[e] = NULL
  <2>1. l.next[o[n]] = At(o, n + 1)
    BY <1>1, HeadsAre
  <2> QED BY <1>1, <2>1 DEF At
<1>5. /\ r.next = [l.next EXCEPT ![d] = l.next[e], ![e] = l.free] /\ r.open = l.open /\ r.free = e
      /\ r = [next |-> r.next, open |-> r.open, free |-> r.free]
  <2> DEFINE nx == [l.next EXCEPT ![d] = l.next[e], ![e] = l.free]
  <2>1. r = [l EXCEPT !.next = nx, !.free = e]
    BY DEF Evict
  <2> HIDE DEF r, nx, e, d
  <2>2. r.next = nx /\ r.open = l.open /\ r.free = e
        /\ r = [next |-> r.next, open |-> r.open, free |-> r.free]
    BY <1>3, <2>1
  <2> QED BY <2>2 DEF nx
<1> HIDE DEF r, e, d
<1>6. /\ r.next \in [Slots -> Slots] /\ r.next[d] = NULL /\ r.next[e] = l.free
      /\ \A z \in Slots : z # d /\ z # e => r.next[z] = l.next[z]
  <2>1. l.next \in [Slots -> Slots] /\ l.free \in Slots
    BY <1>3
  <2> QED BY <1>2, <1>4, <1>5, <2>1, TwoLinks
<1>7. r \in [next : [Slots -> Slots], open : Slots, free : Slots] /\ r.next[NULL] = NULL
  <2>1. l.open \in Slots
    BY <1>3
  <2> QED BY <1>2, <1>3, <1>5, <1>6, <2>1
<1>8. Spilled(l, o, n, r)
  <2>1. \A i \in (n + 1)..n : FALSE
    BY <1>1
  <2>2. ASSUME NEW x \in Entries, \A i \in 1..n : i >= n - 1 => x # o[i]
        PROVE  r.next[x] = l.next[x]
    <3>1. x # d /\ x # e
      BY <1>1, <2>2 DEF d, e
    <3> QED BY <1>2, <1>6, <3>1
  <2>3. /\ n > 1 => r.next[o[n - 1]] = NULL
        /\ n <= n => r.next[o[n]] = l.free
        /\ r.open = (IF n = 1 THEN NULL ELSE l.open)
        /\ r.free = (IF n <= n THEN o[n] ELSE l.free)
    BY <1>1, <1>5, <1>6 DEF d, e
  <2> QED BY <1>7, <2>1, <2>2, <2>3 DEF Spilled
<1>9. n \in 1..(Len(o) + 1)
  BY <1>1
<1> QED BY <1>8, <1>9, SpilledIs DEF r, d, e

(* How many open entries stay when one more file is opened. *)
Staying(o) == IF Len(o) = Size THEN Size - 1 ELSE Len(o)

(* What GetFile gives when the file is open, and when it is not. *)
Hit(got, o, f, x) ==
  /\ got.victim = NULL
  /\ \E k \in 1..Len(o) : fileid[o[k]] = x /\ Partition(got.lists, Moved(o, k), f)

Miss(got, o, f, x) ==
  /\ \A i \in 1..Len(o) : fileid[o[i]] # x
  /\ \E e \in Entries, f2 \in Seq(Entries) :
       /\ Partition(got.lists, Push(e, Cut(o, Staying(o))), f2)
       /\ IF Len(o) = Size THEN e = o[Size] /\ f2 = <<>> /\ got.victim = o[Size]
          ELSE Len(f) > 0 /\ e = f[1] /\ f2 = Pop(f) /\ got.victim = NULL

(* GetFile finds an entry for the file or makes one. *)
LEMMA GetFileIs ==
  ASSUME NullFile \notin Files, NEW o, NEW f, Partition(lists, o, f), NEW x \in Files
  PROVE  Hit(GetFile(x), o, f, x) \/ Miss(GetFile(x), o, f, x)
<1> DEFINE n == Len(o)
           at == Walk(lists, lists.open)
           stop == Stop(at, x)
           prev == at[stop - 1]
           this == at[stop]
           got == GetFile(x)
<1>1. /\ n \in Nat /\ Len(f) \in Nat /\ n + Len(f) = Size /\ Size \in Nat /\ Size > 1
      /\ o \in Seq(Entries) /\ f \in Seq(Entries)
      /\ \A i \in 1..n : o[i] \in Entries
      /\ NULL \notin Entries /\ lists.open = At(o, 1)
  BY PartitionIs, LengthsAre, HeadsAre
<1>2. got = CASE lists.open = NULL -> [lists |-> TakeFree(lists), victim |-> NULL]
              [] lists.open # NULL /\ fileid[lists.open] = x -> [lists |-> lists, victim |-> NULL]
              [] OTHER ->
                   CASE FileId(this) = x -> [lists |-> MoveToFront(lists, prev, this), victim |-> NULL]
                     [] FileId(this) # x /\ lists.free # NULL ->
                          [lists |-> TakeFree(lists), victim |-> NULL]
                     [] OTHER -> [lists |-> TakeFree(Evict(lists, prev, this)), victim |-> this]
  BY DEF GetFile
<1>4. n > 0 =>
        \/ stop \in 2..n /\ this = o[stop] /\ prev = o[stop - 1] /\ fileid[o[stop]] = x
        \/ /\ FileId(this) # x /\ \A k \in 2..n : fileid[o[k]] # x
           /\ n > 1 => this = o[n] /\ prev = o[n - 1]
  BY StopIs
<1> HIDE DEF got, this, prev, stop, at
<1>3. /\ o = <<>> <=> n = 0
      /\ n > 0 => lists.open = o[1] /\ lists.open # NULL /\ o[1] \in Entries
      /\ n = 0 => lists.open = NULL
  BY <1>1, EmptySeq DEF At
<1>5. ASSUME Len(f) > 0, got = [lists |-> TakeFree(lists), victim |-> NULL],
             \A i \in 1..n : fileid[o[i]] # x
      PROVE  Miss(got, o, f, x)
  <2>1. Staying(o) = n /\ n # Size
    BY <1>1, <1>5 DEF Staying
  <2>2. Cut(o, n) = o
    BY <1>1 DEF Cut
  <2>3. f[1] \in Entries /\ f # <<>>
    BY <1>1, <1>5, EmptySeq
  <2>4. Partition(TakeFree(lists), Push(f[1], o), Pop(f))
    BY <2>3, TakeFreeIs
  <2>5. Pop(f) \in Seq(Entries)
    BY <1>1, <2>3, PopIs
  <2>6. got.lists = TakeFree(lists) /\ got.victim = NULL
    BY <1>5
  <2> QED BY <1>5, <2>1, <2>2, <2>3, <2>4, <2>5, <2>6 DEF Miss
<1>6. CASE o = <<>>
  <2>1. got = [lists |-> TakeFree(lists), victim |-> NULL]
    BY <1>2, <1>3, <1>6
  <2>2. Len(f) > 0 /\ \A i \in 1..n : fileid[o[i]] # x
    BY <1>1, <1>3, <1>6
  <2> QED BY <1>5, <2>1, <2>2 DEF got
<1>7. CASE o # <<>> /\ fileid[o[1]] = x
  <2>1. got = [lists |-> lists, victim |-> NULL]
    BY <1>1, <1>2, <1>3, <1>7
  <2>2. Moved(o, 1) = o
    BY <1>1 DEF Moved
  <2>3. 1 \in 1..n
    BY <1>1, <1>3, <1>7
  <2>4. got.lists = lists /\ got.victim = NULL
    BY <2>1
  <2>5. Partition(got.lists, Moved(o, 1), f)
    BY <2>2, <2>4
  <2> QED BY <1>7, <2>3, <2>4, <2>5 DEF Hit, got
<1>8. CASE o # <<>> /\ fileid[o[1]] # x /\ (\E k \in 2..n : fileid[o[k]] = x)
  <2>1. n > 0 /\ stop \in 2..n /\ this = o[stop] /\ prev = o[stop - 1] /\ fileid[o[stop]] = x
    BY <1>1, <1>3, <1>4, <1>8
  <2>2. stop \in 1..n /\ FileId(this) = x
    BY <1>1, <2>1 DEF FileId
  <2>3. got = [lists |-> MoveToFront(lists, o[stop - 1], o[stop]), victim |-> NULL]
    BY <1>2, <1>3, <1>8, <2>1, <2>2
  <2>4. Partition(MoveToFront(lists, o[stop - 1], o[stop]), Moved(o, stop), f)
    BY <2>1, MoveToFrontIs
  <2>5. got.lists = MoveToFront(lists, o[stop - 1], o[stop]) /\ got.victim = NULL
    BY <2>3
  <2> QED BY <2>1, <2>2, <2>4, <2>5 DEF Hit, got
<1>9. CASE o # <<>> /\ fileid[o[1]] # x /\ ~(\E k \in 2..n : fileid[o[k]] = x)
  <2>1. n > 0
    BY <1>1, <1>3, <1>9
  <2>2. /\ FileId(this) # x /\ \A i \in 1..n : fileid[o[i]] # x
        /\ n > 1 => this = o[n] /\ prev = o[n - 1]
    <3>1. \A i \in 1..n : i = 1 \/ i \in 2..n
      BY <1>1
    <3> QED BY <1>4, <1>9, <2>1, <3>1
  <2>3. got = IF lists.free # NULL THEN [lists |-> TakeFree(lists), victim |-> NULL]
              ELSE [lists |-> TakeFree(Evict(lists, prev, this)), victim |-> this]
    BY <1>2, <1>3, <1>9, <2>1, <2>2
  <2>4. lists.free = At(f, 1)
    BY HeadsAre
  <2>5. CASE Len(f) > 0
    <3>1. lists.free # NULL
      BY <1>1, <2>4, <2>5 DEF At
    <3> QED BY <1>5, <2>2, <2>3, <2>5, <3>1 DEF got
  <2>6. CASE ~(Len(f) > 0)
    <3>1. n = Size /\ n > 1 /\ Len(f) = 0 /\ f = <<>>
      BY <1>1, <2>6, EmptySeq
    <3>2. lists.free = NULL
      BY <1>1, <2>4, <2>6 DEF At
    <3>3. got.lists = TakeFree(Evict(lists, o[n - 1], o[n])) /\ got.victim = o[n]
      BY <2>2, <2>3, <3>1, <3>2
    <3> DEFINE w == Spill(o, n, f)
    <3>4. Partition(Evict(lists, o[n - 1], o[n]), Cut(o, n - 1), w)
      BY <3>1, EvictIs
    <3>5. Len(w) = 1 /\ w[1] = o[n] /\ w \in Seq(Entries)
      <4>1. Len(o) + 1 - n = 1 /\ Len(o) + 1 - n + Len(f) = 1
        BY <1>1, <3>1
      <4>2. w = [i \in 1..1 |-> IF i <= 1 THEN o[Len(o) + 1 - i] ELSE f[i - 1]]
        BY <4>1 DEF Spill
      <4>3. \A i \in 1..1 : i = 1 /\ i <= 1 /\ Len(o) + 1 - i = n
        BY <1>1
      <4>4. w = [i \in 1..1 |-> o[n]]
        BY <4>2, <4>3
      <4>5. o[n] \in Entries
        BY <1>1, <3>1
      <4> HIDE DEF w
      <4> QED BY <4>4, <4>5
    <3> HIDE DEF w
    <3>6. w # <<>>
      BY SMTT(30), <3>5, EmptySeq
    <3>7. Partition(TakeFree(Evict(lists, o[n - 1], o[n])), Push(o[n], Cut(o, n - 1)), Pop(w))
      BY <3>4, <3>5, <3>6, TakeFreeIs
    <3>8. Pop(w) = <<>> /\ Pop(w) \in Seq(Entries)
      <4>1. Pop(w) \in Seq(Entries) /\ Len(Pop(w)) = Len(w) - 1
        BY <3>5, <3>6, PopIs
      <4>2. Len(Pop(w)) = 0
        BY <3>5, <4>1
      <4> QED BY <4>1, <4>2, EmptySeq
    <3>9. Staying(o) = n - 1 /\ o[n] \in Entries
      BY <1>1, <3>1 DEF Staying
    <3>10. Partition(got.lists, Push(o[n], Cut(o, Staying(o))), <<>>)
      BY <3>3, <3>7, <3>8, <3>9
    <3>11. <<>> \in Seq(Entries)
      OBVIOUS
    <3> QED BY <2>2, <3>1, <3>3, <3>9, <3>10, <3>11 DEF Miss, got
  <2> QED BY <2>5, <2>6
<1> QED BY <1>6, <1>7, <1>8, <1>9

-----------------------------------------------------------------------------
(* The inductive invariant: the lists have all entries between them, the     *)
(* open entries own the descriptors, and their times are in order.           *)

On(o) == {o[i] : i \in 1..Len(o)}

(* Each entry of E has a descriptor of its own, on its file; no other entry
   has one, and there is no other. *)
OwnedBy(fds, files, ids, E) ==
  /\ \A e \in E : fds[e] \in Fds /\ ids[e] \in Files /\ files[fds[e]] = ids[e]
  /\ \A e, g \in E : fds[e] = fds[g] => e = g
  /\ \A e \in Entries : e \notin E => fds[e] = Closed
  /\ \A d \in Fds : files[d] # NULL => \E e \in E : fds[e] = d

(* The times since the entries of a list were used increase along the list,
   and are less than the timeout by the time the sweep is due. *)
AgedBy(ages, w, o) ==
  /\ \A i \in 1..Len(o) : ages[o[i]] < Timeout + w
  /\ \A i, j \in 1..Len(o) : i <= j => ages[o[i]] <= ages[o[j]]

Ages == [e \in Entries |-> Elapsed(e)]

Typed ==
  /\ fileid \in [Entries -> Files \union {NULL}]
  /\ fd \in [Entries -> Fds \union {Closed}]
  /\ lastaccess \in [Entries -> 0..(Wrap - 1)]
  /\ file \in [Fds -> Files \union {NULL}]
  /\ now \in 0..(Wrap - 1) /\ waited \in 0..(Interval + Lag)

FilesInv(o, f) ==
  /\ Partition(lists, o, f) /\ Typed
  /\ OwnedBy(fd, file, fileid, On(o))
  /\ AgedBy(Ages, waited, o)

(* The file module after File_Close on the files of the entries of V, and the
   entries themselves. *)
ClosedFds(V) == [e \in Entries |-> IF e \in V THEN Closed ELSE fd[e]]

(* Closing the files of some open entries, which become free ones. *)
LEMMA ClosingKeepsOwners ==
  ASSUME Typed, NEW E, E \subseteq Entries, OwnedBy(fd, file, fileid, E), NEW V, V \subseteq E
  PROVE  /\ OwnedBy(ClosedFds(V), FilesAfterClose(V), fileid, E \ V)
         /\ ClosedFds(V) \in [Entries -> Fds \union {Closed}]
         /\ FilesAfterClose(V) \in [Fds -> Files \union {NULL}]
<1>1. /\ \A e \in Entries : ClosedFds(V)[e] = IF e \in V THEN Closed ELSE fd[e]
      /\ \A d \in Fds : FilesAfterClose(V)[d] = IF \E e \in V : fd[e] = d THEN NULL ELSE file[d]
  BY DEF ClosedFds, FilesAfterClose
<1>2. /\ ClosedFds(V) \in [Entries -> Fds \union {Closed}]
      /\ FilesAfterClose(V) \in [Fds -> Files \union {NULL}]
  BY DEF ClosedFds, FilesAfterClose, Typed
<1>3. /\ \A e \in E : fd[e] \in Fds /\ fileid[e] \in Files /\ file[fd[e]] = fileid[e]
      /\ \A e, g \in E : fd[e] = fd[g] => e = g
      /\ \A e \in Entries : e \notin E => fd[e] = Closed
      /\ \A d \in Fds : file[d] # NULL => \E e \in E : fd[e] = d
  BY DEF OwnedBy
<1>4. ASSUME NEW e \in E \ V
      PROVE  ClosedFds(V)[e] = fd[e] /\ FilesAfterClose(V)[fd[e]] = file[fd[e]]
  BY <1>1, <1>3
<1>5. ASSUME NEW d \in Fds, FilesAfterClose(V)[d] # NULL
      PROVE  \E e \in E \ V : ClosedFds(V)[e] = d
  <2>1. file[d] # NULL /\ ~ \E e \in V : fd[e] = d
    BY <1>1, <1>5
  <2>2. PICK e \in E : fd[e] = d
    BY <1>3, <2>1
  <2>3. e \in E \ V
    BY <2>1, <2>2
  <2> QED BY <1>4, <2>2, <2>3
<1>6. \A e \in Entries : e \notin E \ V => ClosedFds(V)[e] = Closed
  BY <1>1, <1>3
<1>7. \A e \in E \ V : ClosedFds(V)[e] \in Fds /\ fileid[e] \in Files
                       /\ FilesAfterClose(V)[ClosedFds(V)[e]] = fileid[e]
  BY <1>3, <1>4
<1>8. \A e, g \in E \ V : ClosedFds(V)[e] = ClosedFds(V)[g] => e = g
  BY <1>3, <1>4
<1> QED BY <1>2, <1>5, <1>6, <1>7, <1>8 DEF OwnedBy

(* Opening a file on an entry without one. *)
LEMMA OpeningKeepsOwners ==
  ASSUME NEW fds \in [Entries -> Fds \union {Closed}], NEW files \in [Fds -> Files \union {NULL}],
         NEW ids \in [Entries -> Files \union {NULL}],
         NEW E, E \subseteq Entries, OwnedBy(fds, files, ids, E),
         NEW e \in Entries, e \notin E, NEW d \in Fds, files[d] = NULL, NEW x \in Files
  PROVE  /\ OwnedBy([fds EXCEPT ![e] = d], [files EXCEPT ![d] = x], [ids EXCEPT ![e] = x], E \union {e})
         /\ [fds EXCEPT ![e] = d] \in [Entries -> Fds \union {Closed}]
         /\ [files EXCEPT ![d] = x] \in [Fds -> Files \union {NULL}]
         /\ [ids EXCEPT ![e] = x] \in [Entries -> Files \union {NULL}]
<1> DEFINE fds2 == [fds EXCEPT ![e] = d]
           files2 == [files EXCEPT ![d] = x]
           ids2 == [ids EXCEPT ![e] = x]
<1>1. /\ fds2[e] = d /\ files2[d] = x /\ ids2[e] = x
      /\ \A g \in Entries : g # e => fds2[g] = fds[g] /\ ids2[g] = ids[g]
      /\ \A c \in Fds : c # d => files2[c] = files[c]
      /\ fds2 \in [Entries -> Fds \union {Closed}] /\ files2 \in [Fds -> Files \union {NULL}]
      /\ ids2 \in [Entries -> Files \union {NULL}]
  OBVIOUS
<1>2. /\ \A g \in E : fds[g] \in Fds /\ ids[g] \in Files /\ files[fds[g]] = ids[g]
      /\ \A g, h \in E : fds[g] = fds[h] => g = h
      /\ \A g \in Entries : g \notin E => fds[g] = Closed
      /\ \A c \in Fds : files[c] # NULL => \E g \in E : fds[g] = c
  BY DEF OwnedBy
<1> HIDE DEF fds2, files2, ids2
<1>3. \A g \in E : g # e /\ g \in Entries /\ fds[g] # d
  BY <1>2, DIPFilesAssumption
<1>4. \A g \in E \union {e} : fds2[g] \in Fds /\ ids2[g] \in Files /\ files2[fds2[g]] = ids2[g]
  BY <1>1, <1>2, <1>3
<1>5. \A g, h \in E \union {e} : fds2[g] = fds2[h] => g = h
  BY <1>1, <1>2, <1>3
<1>6. \A g \in Entries : g \notin E \union {e} => fds2[g] = Closed
  BY <1>1, <1>2
<1>7. \A c \in Fds : files2[c] # NULL => \E g \in E \union {e} : fds2[g] = c
  BY <1>1, <1>2, <1>3
<1>8. OwnedBy(fds2, files2, ids2, E \union {e})
  BY <1>4, <1>5, <1>6, <1>7 DEF OwnedBy
<1> QED BY <1>1, <1>8 DEF fds2, files2, ids2

(* The entries of the lists that a step makes. *)
LEMMA OnMoved ==
  ASSUME NEW o \in Seq(Entries), NEW k \in 1..Len(o)
  PROVE  On(Moved(o, k)) = On(o) /\ Len(Moved(o, k)) = Len(o)
<1> DEFINE m == Len(o)
           p == Moved(o, k)
<1>1. m \in Nat /\ k \in 1..m /\ p = [i \in 1..m |-> IF i = 1 THEN o[k] ELSE IF i <= k THEN o[i - 1] ELSE o[i]]
      /\ \A i \in 1..m : o[i] \in Entries
  BY DEF Moved
<1> HIDE DEF m, p
<1>2. \A i \in 1..m : p[i] = IF i = 1 THEN o[k] ELSE IF i <= k THEN o[i - 1] ELSE o[i]
  BY <1>1
<1>3. ASSUME NEW i \in 1..m PROVE p[i] \in {o[j] : j \in 1..m}
  <2>1. CASE i # 1 /\ i <= k
    <3>1. i - 1 \in 1..m
      BY <1>1, <2>1
    <3> QED BY <1>2, <2>1, <3>1
  <2>2. CASE ~(i # 1 /\ i <= k)
    BY <1>1, <1>2, <2>2
  <2> QED BY <2>1, <2>2
<1>4. ASSUME NEW i \in 1..m PROVE o[i] \in {p[j] : j \in 1..m}
  <2>1. CASE i = k
    <3>1. 1 \in 1..m /\ p[1] = o[i]
      BY <1>1, <1>2, <2>1
    <3> QED BY <3>1
  <2>2. CASE i < k
    <3>1. i + 1 \in 1..m /\ i + 1 # 1 /\ i + 1 <= k /\ i + 1 - 1 = i
      BY <1>1, <2>2
    <3>2. p[i + 1] = o[i]
      BY <1>2, <3>1
    <3> QED BY <3>1, <3>2
  <2>3. CASE i > k
    <3>1. p[i] = o[i]
      BY <1>1, <1>2, <2>3
    <3> QED BY <3>1
  <2> QED BY <1>1, <2>1, <2>2, <2>3
<1>5. \A i \in 1..m : p[i] \in Entries
  BY <1>1, <1>3
<1>6. Len(p) = m
  <2>1. p \in [1..m -> Entries]
    BY <1>1, <1>5
  <2> QED BY <1>1, <2>1, FunctionIsSeq
<1>7. {p[i] : i \in 1..m} = {o[i] : i \in 1..m}
  BY <1>3, <1>4
<1> QED BY <1>6, <1>7 DEF On, p, m

(* The entries with one more. *)
LEMMA OnPush ==
  ASSUME NEW s \in Seq(Entries), NEW e \in Entries
  PROVE  On(Push(e, s)) = On(s) \union {e}
<1>1. /\ Len(Push(e, s)) = Len(s) + 1 /\ Len(s) \in Nat
      /\ \A i \in 1..(Len(s) + 1) : Push(e, s)[i] = IF i = 1 THEN e ELSE s[i - 1]
  <2>1. Len(s) \in Nat
    OBVIOUS
  <2>2. Len(Push(e, s)) = Len(s) + 1
    BY PushIs
  <2>3. \A i \in 1..(Len(s) + 1) : Push(e, s)[i] = IF i = 1 THEN e ELSE s[i - 1]
    BY DEF Push
  <2> QED BY <2>1, <2>2, <2>3
<1>2. ASSUME NEW i \in 1..(Len(s) + 1) PROVE Push(e, s)[i] \in On(s) \union {e}
  <2>1. CASE i = 1
    BY <1>1, <2>1
  <2>2. CASE i # 1
    <3>1. i - 1 \in 1..Len(s) /\ Push(e, s)[i] = s[i - 1]
      BY <1>1, <2>2
    <3> QED BY <3>1 DEF On
  <2> QED BY <2>1, <2>2
<1>3. ASSUME NEW i \in 1..Len(s) PROVE s[i] \in On(Push(e, s))
  <2>1. i + 1 \in 1..(Len(s) + 1) /\ i + 1 # 1 /\ i + 1 - 1 = i
    BY <1>1
  <2>2. Push(e, s)[i + 1] = s[i]
    BY <1>1, <2>1
  <2> QED BY <1>1, <2>1, <2>2 DEF On
<1>4. e \in On(Push(e, s))
  <2>1. 1 \in 1..(Len(s) + 1) /\ Push(e, s)[1] = e
    BY <1>1
  <2> QED BY <1>1, <2>1 DEF On
<1>5. On(Push(e, s)) \subseteq On(s) \union {e}
  BY <1>1, <1>2 DEF On
<1>6. On(s) \subseteq On(Push(e, s))
  BY <1>3 DEF On
<1> QED BY <1>4, <1>5, <1>6

(* The entries before and after a cut. *)
LEMMA OnCut ==
  ASSUME NEW s \in Seq(Entries), \A i, j \in 1..Len(s) : s[i] = s[j] => i = j,
         NEW n \in 0..Len(s)
  PROVE  /\ On(Cut(s, n)) \subseteq On(s) /\ On(s) \subseteq Entries
         /\ On(s) \ On(Cut(s, n)) = {s[i] : i \in (n + 1)..Len(s)}
<1>1. Len(Cut(s, n)) = n /\ (\A i \in 1..n : Cut(s, n)[i] = s[i]) /\ Len(s) \in Nat /\ n \in Nat
  BY CutIs
<1>2. On(Cut(s, n)) = {s[i] : i \in 1..n}
  BY <1>1 DEF On
<1>3. \A i \in 1..Len(s) : (i \in 1..n <=> i \notin (n + 1)..Len(s)) /\ s[i] \in Entries
  BY <1>1
<1>4. \A i \in 1..n : i \in 1..Len(s)
  BY <1>1
<1>5. \A i \in (n + 1)..Len(s) : i \in 1..Len(s)
  BY <1>1
<1>6. ASSUME NEW i \in (n + 1)..Len(s), NEW j \in 1..n PROVE s[i] # s[j]
  BY <1>1, <1>3, <1>4, <1>5
<1>7. On(s) \ On(Cut(s, n)) \subseteq {s[i] : i \in (n + 1)..Len(s)}
  BY <1>2, <1>3 DEF On
<1>8. {s[i] : i \in (n + 1)..Len(s)} \subseteq On(s) \ On(Cut(s, n))
  BY <1>2, <1>5, <1>6 DEF On
<1>9. On(Cut(s, n)) \subseteq On(s) /\ On(s) \subseteq Entries
  BY <1>2, <1>3, <1>4 DEF On
<1> QED BY <1>7, <1>8, <1>9

(* The lists that a step makes are still in the order of their times. *)
LEMMA AgesOfMoved ==
  ASSUME NEW ages \in [Entries -> Nat], NEW w \in Nat, NEW o \in Seq(Entries),
         \A i, j \in 1..Len(o) : o[i] = o[j] => i = j,
         AgedBy(ages, w, o), NEW k \in 1..Len(o)
  PROVE  AgedBy([ages EXCEPT ![o[k]] = 0], w, Moved(o, k))
<1> DEFINE m == Len(o)
           p == Moved(o, k)
           a == [ages EXCEPT ![o[k]] = 0]
<1>1. /\ m \in Nat /\ k \in 1..m /\ Len(p) = m /\ Timeout \in Nat \ {0}
      /\ \A i \in 1..m : p[i] = IF i = 1 THEN o[k] ELSE IF i <= k THEN o[i - 1] ELSE o[i]
      /\ \A i \in 1..m : o[i] \in Entries
      /\ \A i, j \in 1..m : o[i] = o[j] => i = j
      /\ \A i \in 1..m : ages[o[i]] < Timeout + w /\ ages[o[i]] \in Nat
      /\ \A i, j \in 1..m : i <= j => ages[o[i]] <= ages[o[j]]
  BY SMTT(30), OnMoved, DIPFilesAssumption DEF Moved, AgedBy
<1>2. a[o[k]] = 0 /\ \A e \in Entries : e # o[k] => a[e] = ages[e]
  BY <1>1
<1> HIDE DEF m, p, a
<1>3. ASSUME NEW i \in 1..m
      PROVE  \/ i = 1 /\ a[p[i]] = 0
             \/ i # 1 /\ i <= k /\ i - 1 \in 1..m /\ a[p[i]] = ages[o[i - 1]]
             \/ i > k /\ a[p[i]] = ages[o[i]]
  <2>1. CASE i = 1
    BY <1>1, <1>2, <2>1
  <2>2. CASE i # 1 /\ i <= k
    <3>1. p[i] = o[i - 1] /\ i - 1 \in 1..m /\ i - 1 # k
      BY <1>1, <2>2
    <3>2. o[i - 1] # o[k] /\ o[i - 1] \in Entries
      BY <1>1, <3>1
    <3> QED BY <1>2, <2>2, <3>1, <3>2
  <2>3. CASE i > k
    <3>1. p[i] = o[i] /\ i # k
      BY <1>1, <2>3
    <3>2. o[i] # o[k] /\ o[i] \in Entries
      BY <1>1, <3>1
    <3> QED BY <1>2, <2>3, <3>1, <3>2
  <2> QED BY <1>1, <2>1, <2>2, <2>3
<1>4. ASSUME NEW i \in 1..m PROVE a[p[i]] < Timeout + w
  BY SMTT(30), <1>1, <1>3
<1>5. ASSUME NEW i \in 1..m, NEW j \in 1..m, i <= j PROVE a[p[i]] <= a[p[j]]
  <2>1. CASE i = 1
    <3>1. a[p[j]] \in Nat
      BY SMTT(30), <1>1, <1>3
    <3> QED BY <1>3, <2>1, <3>1
  <2>2. CASE i # 1 /\ i <= k
    <3>1. i - 1 \in 1..m /\ a[p[i]] = ages[o[i - 1]]
      BY <1>1, <1>3, <2>2
    <3>2. CASE j <= k
      <4>1. j - 1 \in 1..m /\ a[p[j]] = ages[o[j - 1]] /\ i - 1 <= j - 1
        BY <1>1, <1>3, <1>5, <2>2, <3>2
      <4> QED BY <1>1, <3>1, <4>1
    <3>3. CASE j > k
      <4>1. a[p[j]] = ages[o[j]] /\ i - 1 <= j
        BY <1>1, <1>3, <1>5, <2>2, <3>3
      <4> QED BY <1>1, <3>1, <4>1
    <3> QED BY <1>1, <3>2, <3>3
  <2>3. CASE i > k
    <3>1. a[p[i]] = ages[o[i]] /\ a[p[j]] = ages[o[j]]
      BY <1>1, <1>3, <1>5, <2>3
    <3> QED BY <1>1, <1>5, <3>1
  <2> QED BY <1>1, <2>1, <2>2, <2>3
<1>6. AgedBy(a, w, p)
  BY <1>1, <1>4, <1>5 DEF AgedBy
<1> QED BY <1>6 DEF a, p

(* An entry used now, in front of a list. *)
LEMMA AgesOfPush ==
  ASSUME NEW ages \in [Entries -> Nat], NEW w \in Nat, NEW s \in Seq(Entries),
         AgedBy(ages, w, s), NEW e \in Entries, e \notin On(s)
  PROVE  AgedBy([ages EXCEPT ![e] = 0], w, Push(e, s))
<1> DEFINE m == Len(s)
           p == Push(e, s)
           a == [ages EXCEPT ![e] = 0]
<1>1. /\ m \in Nat /\ Len(p) = m + 1 /\ Timeout \in Nat \ {0}
      /\ \A i \in 1..(m + 1) : p[i] = IF i = 1 THEN e ELSE s[i - 1]
      /\ \A i \in 1..m : s[i] \in Entries /\ s[i] # e
      /\ \A i \in 1..m : ages[s[i]] < Timeout + w /\ ages[s[i]] \in Nat
      /\ \A i, j \in 1..m : i <= j => ages[s[i]] <= ages[s[j]]
  <2>1. m \in Nat /\ Timeout \in Nat \ {0}
    BY DIPFilesAssumption
  <2>2. Len(p) = m + 1
    BY PushIs
  <2>3. \A i \in 1..(m + 1) : p[i] = IF i = 1 THEN e ELSE s[i - 1]
    BY DEF Push
  <2>4. \A i \in 1..m : s[i] \in Entries /\ s[i] # e
    BY DEF On
  <2> QED BY <2>1, <2>2, <2>3, <2>4 DEF AgedBy
<1>2. a[e] = 0 /\ \A g \in Entries : g # e => a[g] = ages[g]
  OBVIOUS
<1> HIDE DEF m, p, a
<1>3. ASSUME NEW i \in 1..(m + 1)
      PROVE  \/ i = 1 /\ a[p[i]] = 0
             \/ i # 1 /\ i - 1 \in 1..m /\ a[p[i]] = ages[s[i - 1]]
  <2>1. CASE i = 1
    BY <1>1, <1>2, <2>1
  <2>2. CASE i # 1
    <3>1. i - 1 \in 1..m /\ p[i] = s[i - 1]
      BY <1>1, <2>2
    <3> QED BY <1>1, <1>2, <2>2, <3>1
  <2> QED BY <2>1, <2>2
<1>4. ASSUME NEW i \in 1..(m + 1) PROVE a[p[i]] < Timeout + w
  BY <1>1, <1>3
<1>5. ASSUME NEW i \in 1..(m + 1), NEW j \in 1..(m + 1), i <= j PROVE a[p[i]] <= a[p[j]]
  <2>1. CASE i = 1
    <3>1. a[p[j]] \in Nat
      <4>1. CASE j = 1
        BY <1>3, <4>1
      <4>2. CASE j # 1
        <5>1. j - 1 \in 1..m /\ a[p[j]] = ages[s[j - 1]]
          BY <1>3, <4>2
        <5> QED BY <1>1, <5>1
      <4> QED BY <4>1, <4>2
    <3> QED BY <1>3, <2>1, <3>1
  <2>2. CASE i # 1
    <3>1. i - 1 \in 1..m /\ j - 1 \in 1..m /\ i - 1 <= j - 1
          /\ a[p[i]] = ages[s[i - 1]] /\ a[p[j]] = ages[s[j - 1]]
      BY <1>1, <1>3, <1>5, <2>2
    <3> QED BY <1>1, <3>1
  <2> QED BY <2>1, <2>2
<1>6. AgedBy(a, w, p)
  BY <1>1, <1>4, <1>5 DEF AgedBy
<1> QED BY <1>6 DEF a, p

(* The first entries of a list. *)
LEMMA AgesOfCut ==
  ASSUME NEW ages \in [Entries -> Nat], NEW w \in Nat, NEW s \in Seq(Entries),
         AgedBy(ages, w, s), NEW n \in 0..Len(s)
  PROVE  AgedBy(ages, w, Cut(s, n))
<1>1. Len(Cut(s, n)) = n /\ (\A i \in 1..n : Cut(s, n)[i] = s[i]) /\ Len(s) \in Nat /\ n \in Nat
  BY CutIs
<1>2. \A i \in 1..n : i \in 1..Len(s)
  BY <1>1
<1> DEFINE c == Cut(s, n)
<1>3. Len(c) = n /\ \A i \in 1..n : c[i] = s[i] /\ i \in 1..Len(s)
  BY <1>1, <1>2
<1> HIDE DEF c
<1>4. \A i \in 1..n : ages[c[i]] < Timeout + w
  BY <1>3 DEF AgedBy
<1>5. \A i, j \in 1..n : i <= j => ages[c[i]] <= ages[c[j]]
  BY <1>3 DEF AgedBy
<1>6. AgedBy(ages, w, c)
  BY <1>3, <1>4, <1>5 DEF AgedBy
<1> QED BY <1>6 DEF c

(* The times since the entries were used, before and after a step. *)
LEMMA AgesAre ==
  ASSUME Typed
  PROVE  /\ Ages \in [Entries -> Nat] /\ \A e \in Entries : Ages[e] = Elapsed(e) /\ Ages[e] \in 0..(Wrap - 1)
         /\ waited \in Nat /\ Wrap \in Nat \ {0} /\ Timeout \in Nat \ {0} /\ Interval \in Nat \ {0}
         /\ Lag \in Nat
<1>1. /\ Timeout \in Nat \ {0} /\ Interval \in Nat \ {0} /\ Lag \in Nat /\ Wrap \in Nat
      /\ Timeout + Interval + Lag < Wrap
  BY DIPFilesAssumption
<1>2. Wrap \in Nat \ {0} /\ now \in Int /\ waited \in Nat
  BY <1>1 DEF Typed
<1>3. ASSUME NEW e \in Entries PROVE Elapsed(e) \in 0..(Wrap - 1)
  <2>1. lastaccess[e] \in Int
    BY <1>1 DEF Typed
  <2> QED BY <1>2, <2>1 DEF Elapsed
<1> QED BY <1>1, <1>2, <1>3 DEF Ages

(* A file is read: its entry was used now. *)
LEMMA AgesAccessed ==
  ASSUME Typed, NEW e \in Entries, lastaccess' = Accessed(e), now' = now
  PROVE  Ages' = [Ages EXCEPT ![e] = 0] /\ lastaccess' \in [Entries -> 0..(Wrap - 1)]
<1>1. now \in 0..(Wrap - 1) /\ Wrap \in Nat \ {0} /\ lastaccess \in [Entries -> 0..(Wrap - 1)]
  BY AgesAre DEF Typed
<1>2. lastaccess' = [lastaccess EXCEPT ![e] = now]
  BY DEF Accessed
<1>3. Ages' = [g \in Entries |-> (now - lastaccess'[g]) % Wrap]
  BY DEF Ages, Elapsed
<1>4. Ages = [g \in Entries |-> (now - lastaccess[g]) % Wrap]
  BY DEF Ages, Elapsed
<1>5. (now - now) % Wrap = 0
  BY <1>1
<1>6. lastaccess'[e] = now /\ \A g \in Entries : g # e => lastaccess'[g] = lastaccess[g]
  BY <1>1, <1>2
<1>7. lastaccess' \in [Entries -> 0..(Wrap - 1)]
  BY <1>1, <1>2
<1>8. \A g \in Entries : Ages'[g] = IF g = e THEN 0 ELSE Ages[g]
  BY <1>3, <1>4, <1>5, <1>6
<1> QED BY <1>3, <1>4, <1>7, <1>8

(* A tick makes an entry one tick older, unless the clock has gone round. *)
LEMMA AgesTick ==
  ASSUME Typed, Tick
  PROVE  \A e \in Entries : Ages[e] + 1 < Wrap => Ages'[e] = Ages[e] + 1
<1> SUFFICES ASSUME NEW e \in Entries, Ages[e] + 1 < Wrap PROVE Ages'[e] = Ages[e] + 1
  OBVIOUS
<1> DEFINE a == lastaccess[e]
<1>1. now \in 0..(Wrap - 1) /\ Wrap \in Nat \ {0} /\ a \in 0..(Wrap - 1)
  BY AgesAre DEF Typed
<1>2. Ages[e] = (now - a) % Wrap /\ Ages'[e] = (((now + 1) % Wrap) - a) % Wrap
  BY DEF Ages, Elapsed, Tick
<1> HIDE DEF a
<1>3. CASE now >= a
  <2>1. Ages[e] = now - a
    BY <1>1, <1>2, <1>3
  <2>2. CASE now + 1 < Wrap
    <3>1. (now + 1) % Wrap = now + 1
      BY <1>1, <2>2
    <3>2. now + 1 - a \in 0..(Wrap - 1)
      BY <1>1, <1>3, <2>2
    <3>3. (now + 1 - a) % Wrap = now + 1 - a
      BY <1>1, <3>2
    <3> QED BY <1>1, <1>2, <2>1, <3>1, <3>3
  <2>3. CASE ~(now + 1 < Wrap)
    <3>1. now + 1 = Wrap
      BY <1>1, <2>3
    <3>2. Wrap % Wrap = 0
      BY <1>1
    <3>3. a # 0
      BY <1>1, <2>1, <3>1
    <3>4. (0 - a) % Wrap = Wrap - a
      BY <1>1, <3>3
    <3> QED BY <1>1, <1>2, <2>1, <3>1, <3>2, <3>4
  <2> QED BY <2>2, <2>3
<1>4. CASE now < a
  <2>1. Ages[e] = now - a + Wrap
    BY <1>1, <1>2, <1>4
  <2>2. now + 1 < Wrap /\ now + 1 < a
    BY <1>1, <1>4, <2>1
  <2>3. (now + 1) % Wrap = now + 1
    BY <1>1, <2>2
  <2>4. now + 1 - a \in Int /\ now + 1 - a < 0 /\ -Wrap <= now + 1 - a
    BY <1>1, <2>2
  <2>5. (now + 1 - a) % Wrap = now + 1 - a + Wrap
    BY <1>1, <2>4
  <2> QED BY <1>1, <1>2, <2>1, <2>3, <2>5
<1> QED BY <1>1, <1>3, <1>4

-----------------------------------------------------------------------------
(* Every step keeps the invariant.                                          *)

Victims(x) == {GetFile(x).victim} \ {NULL}

(* What ReadFile does when GetFile has found or made an entry. *)
ReadsWith(e, l, V, x) ==
  /\ \/ /\ ClosedFds(V)[e] # Closed
        /\ lists' = l /\ fd' = ClosedFds(V) /\ file' = FilesAfterClose(V)
        /\ lastaccess' = Accessed(e) /\ fileid' = fileid
     \/ /\ ClosedFds(V)[e] = Closed
        /\ \E d \in Fds :
             /\ FilesAfterClose(V)[d] = NULL
             /\ fd' = [ClosedFds(V) EXCEPT ![e] = d]
             /\ file' = [FilesAfterClose(V) EXCEPT ![d] = x]
        /\ lists' = l
        /\ fileid' = [fileid EXCEPT ![e] = x]
        /\ lastaccess' = Accessed(e)
     \/ /\ ClosedFds(V)[e] = Closed
        /\ lists' = PutBack(l) /\ fd' = ClosedFds(V) /\ file' = FilesAfterClose(V)
        /\ fileid' = fileid /\ lastaccess' = lastaccess
  /\ now' = now /\ waited' = waited

(* ReadFile, once GetFile has given an entry: only the null pointer's match of a
   single open file gives none. *)
LEMMA ReadFileIs ==
  ASSUME NEW x, ReadFile(x), Typed, GetFile(x).lists.open # NULL
  PROVE  ReadsWith(GetFile(x).lists.open, GetFile(x).lists, Victims(x), x)
<1> DEFINE V == Victims(x)
           files == IF V = {} THEN file ELSE FilesAfterClose(V)
           this == GetFile(x).lists.open
<1>1. files = FilesAfterClose(V)
  <2>1. CASE V = {}
    <3>1. file \in [Fds -> Files \union {NULL}]
      BY DEF Typed
    <3>2. FilesAfterClose(V) = [d \in Fds |-> file[d]]
      BY <2>1 DEF FilesAfterClose
    <3> QED BY <2>1, <3>1, <3>2
  <2>2. CASE V # {}
    BY <2>2
  <2> QED BY <2>1, <2>2
<1>2. /\ \/ /\ ClosedFds(V)[this] # Closed
            /\ lists' = GetFile(x).lists /\ fd' = ClosedFds(V) /\ file' = files
            /\ lastaccess' = Accessed(this) /\ fileid' = fileid
         \/ /\ ClosedFds(V)[this] = Closed
            /\ \E d \in Fds :
                 /\ files[d] = NULL
                 /\ fd' = [ClosedFds(V) EXCEPT ![this] = d]
                 /\ file' = [files EXCEPT ![d] = x]
            /\ lists' = GetFile(x).lists
            /\ fileid' = [fileid EXCEPT ![this] = x]
            /\ lastaccess' = Accessed(this)
         \/ /\ ClosedFds(V)[this] = Closed
            /\ lists' = PutBack(GetFile(x).lists) /\ fd' = ClosedFds(V) /\ file' = files
            /\ fileid' = fileid /\ lastaccess' = lastaccess
      /\ now' = now /\ waited' = waited
  BY Zenon DEF ReadFile, ClosedFds, Victims
<1> HIDE DEF files, V, this
<1>3. ReadsWith(this, GetFile(x).lists, V, x)
  BY <1>1, <1>2 DEF ReadsWith
<1> QED BY <1>3 DEF this, V

(* The entry that GetFile leaves in front of the open list. *)
LEMMA FrontIs ==
  ASSUME NEW l, NEW o, NEW f, NEW e, Partition(l, Push(e, o), f), o \in Seq(Entries), e \in Entries
  PROVE  l.open = e
<1>1. l.open = At(Push(e, o), 1)
  BY HeadsAre
<1>2. At(Push(e, o), 1) = e
  BY PushIs
<1> QED BY <1>1, <1>2

(* A file that is open is read. *)
LEMMA HitKeepsInv ==
  ASSUME NEW o, NEW f, FilesInv(o, f), NEW x \in Files, ReadFile(x), Hit(GetFile(x), o, f, x)
  PROVE  \E k \in 1..Len(o) :
           /\ fileid[o[k]] = x /\ FilesInv(Moved(o, k), f)'
           /\ Ages' = [Ages EXCEPT ![o[k]] = 0] /\ fileid' = fileid
<1> DEFINE got == GetFile(x)
<1>1. got.victim = NULL /\ Typed /\ Partition(lists, o, f) /\ OwnedBy(fd, file, fileid, On(o))
      /\ AgedBy(Ages, waited, o)
  BY DEF Hit, FilesInv
<1>2. PICK k \in 1..Len(o) : fileid[o[k]] = x /\ Partition(got.lists, Moved(o, k), f)
  BY DEF Hit
<1> DEFINE e == o[k]
<1>3. /\ o \in Seq(Entries) /\ (\A i, j \in 1..Len(o) : o[i] = o[j] => i = j)
      /\ e \in Entries /\ e \in On(o) /\ On(o) \subseteq Entries
  BY <1>1, PartitionIs DEF On
<1>4. got.lists.open = e
  <2>1. got.lists.open = At(Moved(o, k), 1)
    BY <1>2, HeadsAre
  <2>2. Len(Moved(o, k)) = Len(o) /\ Len(o) \in Nat /\ 1 \in 1..Len(o)
    BY <1>2, <1>3, OnMoved
  <2>3. Moved(o, k)[1] = o[k]
    BY <2>2 DEF Moved
  <2> QED BY <2>1, <2>2, <2>3 DEF At
<1>5. ClosedFds({}) = fd /\ FilesAfterClose({}) = file
  BY <1>1 DEF ClosedFds, FilesAfterClose, Typed
<1>6. fd[e] # Closed
  BY <1>1, <1>3, DIPFilesAssumption DEF OwnedBy, Fds, Closed
<1>7. Victims(x) = {}
  BY <1>1 DEF Victims
<1> HIDE DEF got, e
<1>8. /\ lists' = got.lists /\ fd' = fd /\ file' = file
      /\ lastaccess' = Accessed(e) /\ fileid' = fileid
      /\ now' = now /\ waited' = waited
  <2>1. e # NULL
    BY <1>3, DIPFilesAssumption
  <2>2. ReadsWith(e, got.lists, {}, x)
    BY <1>1, <1>4, <1>7, <2>1, ReadFileIs DEF got
  <2> QED BY <1>5, <1>6, <2>2 DEF ReadsWith
<1>9. Ages' = [Ages EXCEPT ![e] = 0] /\ lastaccess' \in [Entries -> 0..(Wrap - 1)]
  BY <1>1, <1>3, <1>8, AgesAccessed
<1>10. Typed'
  BY <1>1, <1>8, <1>9 DEF Typed
<1>11. OwnedBy(fd', file', fileid', On(Moved(o, k)))
  BY <1>1, <1>3, <1>8, OnMoved
<1>12. AgedBy(Ages', waited', Moved(o, k))
  BY <1>1, <1>2, <1>3, <1>8, <1>9, AgesAre, AgesOfMoved DEF e
<1>13. FilesInv(Moved(o, k), f)'
  BY <1>2, <1>8, <1>10, <1>11, <1>12 DEF FilesInv
<1> QED BY <1>2, <1>8, <1>9, <1>13 DEF e

(* A file that is not open is opened, or cannot be. *)
LEMMA MissKeepsInv ==
  ASSUME NEW o, NEW f, FilesInv(o, f), NEW x \in Files, ReadFile(x), Miss(GetFile(x), o, f, x)
  PROVE  LET stay == Cut(o, Staying(o))
         IN  \/ \E e \in Entries : \E f2 :
                  /\ FilesInv(Push(e, stay), f2)' /\ e \notin On(stay)
                  /\ Ages' = [Ages EXCEPT ![e] = 0] /\ fileid' = [fileid EXCEPT ![e] = x]
             \/ \E f2 : FilesInv(stay, f2)' /\ Ages' = Ages /\ fileid' = fileid
<1> DEFINE got == GetFile(x)
           n == Staying(o)
           stay == Cut(o, n)
<1>1. Typed /\ Partition(lists, o, f) /\ OwnedBy(fd, file, fileid, On(o))
      /\ AgedBy(Ages, waited, o)
  BY DEF FilesInv
<1>2. PICK e \in Entries, f2 \in Seq(Entries) :
        /\ Partition(got.lists, Push(e, stay), f2)
        /\ IF Len(o) = Size THEN e = o[Size] /\ f2 = <<>> /\ got.victim = o[Size]
           ELSE Len(f) > 0 /\ e = f[1] /\ f2 = Pop(f) /\ got.victim = NULL
  BY DEF Miss
<1>3. /\ o \in Seq(Entries) /\ f \in Seq(Entries) /\ (\A i, j \in 1..Len(o) : o[i] = o[j] => i = j)
      /\ Len(o) \in Nat /\ Len(f) \in Nat /\ n \in 0..Len(o) /\ Size \in Nat /\ Size > 1
      /\ NULL \notin Entries
      /\ \A i \in 1..Len(o) : o[i] \in Entries
  BY <1>1, PartitionIs DEF Staying
<1>4. stay \in Seq(Entries) /\ Len(stay) = n /\ On(stay) \subseteq On(o) /\ On(o) \subseteq Entries
      /\ On(o) \ On(stay) = {o[i] : i \in (n + 1)..Len(o)}
  BY <1>3, CutIs, OnCut
<1> DEFINE V == {got.victim} \ {NULL}
<1>5. V = On(o) \ On(stay) /\ V \subseteq On(o) /\ On(o) \ V = On(stay)
  <2>1. CASE Len(o) = Size
    <3>1. n = Size - 1
      BY <2>1 DEF Staying
    <3>2. (n + 1)..Len(o) = {Size}
      BY <1>3, <2>1, <3>1
    <3>3. V = {o[Size]}
      <4>1. o[Size] \in Entries
        BY <1>3, <2>1
      <4> QED BY <1>2, <1>3, <2>1, <4>1
    <3>4. {o[i] : i \in {Size}} = {o[Size]}
      OBVIOUS
    <3>5. On(o) \ On(stay) = V
      BY <1>4, <3>2, <3>3, <3>4
    <3> QED BY <1>4, <3>5
  <2>2. CASE Len(o) # Size
    <3>1. n = Len(o)
      BY <2>2 DEF Staying
    <3>2. (n + 1)..Len(o) = {}
      BY <1>3, <3>1
    <3>3. V = {}
      BY <1>2, <2>2
    <3> QED BY <1>4, <3>2, <3>3
  <2> QED BY <2>1, <2>2
<1>6. e \notin On(stay)
  <2>1. CASE Len(o) = Size
    <3>1. n = Size - 1 /\ Size \in (n + 1)..Len(o)
      BY <1>3, <2>1 DEF Staying
    <3>2. o[Size] \in On(o) \ On(stay)
      BY <1>4, <3>1
    <3> QED BY <1>2, <2>1, <3>2
  <2>2. CASE Len(o) # Size
    <3>1. e = f[1] /\ 1 \in 1..Len(f)
      BY <1>2, <1>3, <2>2
    <3>2. e \notin On(o)
      BY <1>1, <3>1 DEF Partition, On
    <3> QED BY <1>4, <3>2
  <2> QED BY <2>1, <2>2
<1>7. /\ OwnedBy(ClosedFds(V), FilesAfterClose(V), fileid, On(stay))
      /\ ClosedFds(V) \in [Entries -> Fds \union {Closed}]
      /\ FilesAfterClose(V) \in [Fds -> Files \union {NULL}]
  <2> HIDE DEF V, stay
  <2>1. /\ OwnedBy(ClosedFds(V), FilesAfterClose(V), fileid, On(o) \ V)
        /\ ClosedFds(V) \in [Entries -> Fds \union {Closed}]
        /\ FilesAfterClose(V) \in [Fds -> Files \union {NULL}]
    BY <1>1, <1>4, <1>5, ClosingKeepsOwners
  <2> QED BY <1>5, <2>1
<1>8. ClosedFds(V)[e] = Closed
  BY <1>6, <1>7 DEF OwnedBy
<1>9. got.lists.open = e
  BY <1>2, <1>4, FrontIs
<1>10. Ages \in [Entries -> Nat] /\ waited \in Nat /\ AgedBy(Ages, waited, stay)
  BY <1>1, <1>3, AgesAre, AgesOfCut
<1> HIDE DEF stay, n
<1>11. CASE /\ lists' = got.lists
            /\ \E d \in Fds :
                 /\ FilesAfterClose(V)[d] = NULL
                 /\ fd' = [ClosedFds(V) EXCEPT ![e] = d]
                 /\ file' = [FilesAfterClose(V) EXCEPT ![d] = x]
            /\ fileid' = [fileid EXCEPT ![e] = x]
            /\ lastaccess' = Accessed(e)
            /\ now' = now /\ waited' = waited
  <2>1. PICK d \in Fds : /\ FilesAfterClose(V)[d] = NULL
                         /\ fd' = [ClosedFds(V) EXCEPT ![e] = d]
                         /\ file' = [FilesAfterClose(V) EXCEPT ![d] = x]
    BY <1>11
  <2>2. Ages' = [Ages EXCEPT ![e] = 0] /\ lastaccess' \in [Entries -> 0..(Wrap - 1)]
    BY <1>1, <1>11, AgesAccessed
  <2>3. fileid \in [Entries -> Files \union {NULL}] /\ On(stay) \subseteq Entries
    BY <1>1, <1>4 DEF Typed
  <2> HIDE DEF V
  <2>4. /\ OwnedBy(fd', file', fileid', On(stay) \union {e})
        /\ fd' \in [Entries -> Fds \union {Closed}]
        /\ file' \in [Fds -> Files \union {NULL}]
        /\ fileid' \in [Entries -> Files \union {NULL}]
    BY <1>6, <1>7, <1>11, <2>1, <2>3, OpeningKeepsOwners
  <2>5. On(Push(e, stay)) = On(stay) \union {e}
    BY <1>4, OnPush
  <2>6. AgedBy(Ages', waited', Push(e, stay))
    BY <1>4, <1>6, <1>10, <1>11, <2>2, AgesOfPush
  <2>7. Typed'
    BY <1>1, <1>11, <2>2, <2>4 DEF Typed
  <2>8. FilesInv(Push(e, stay), f2)'
    BY <1>2, <1>11, <2>4, <2>5, <2>6, <2>7 DEF FilesInv
  <2> QED BY <1>6, <1>11, <2>2, <2>8 DEF stay, n
<1>12. CASE /\ lists' = PutBack(got.lists) /\ fd' = ClosedFds(V) /\ file' = FilesAfterClose(V)
            /\ fileid' = fileid /\ lastaccess' = lastaccess
            /\ now' = now /\ waited' = waited
  <2>1. Push(e, stay) # <<>> /\ Push(e, stay)[1] = e /\ Pop(Push(e, stay)) = stay
    <3>1. /\ Push(e, stay) \in Seq(Entries) /\ Len(Push(e, stay)) = Len(stay) + 1 /\ Len(stay) \in Nat
          /\ \A i \in 1..(Len(stay) + 1) : Push(e, stay)[i] = IF i = 1 THEN e ELSE stay[i - 1]
          /\ 1 \in 1..(Len(stay) + 1)
      <4>1. Len(stay) \in Nat
        BY <1>4
      <4>2. Push(e, stay) \in Seq(Entries) /\ Len(Push(e, stay)) = Len(stay) + 1
        BY <1>4, PushIs
      <4>3. \A i \in 1..(Len(stay) + 1) : Push(e, stay)[i] = IF i = 1 THEN e ELSE stay[i - 1]
        BY DEF Push
      <4> QED BY <4>1, <4>2, <4>3
    <3>2. Push(e, stay) # <<>>
      BY <3>1
    <3>3. Push(e, stay)[1] = e
      BY <3>1
    <3>4. /\ Pop(Push(e, stay)) \in Seq(Entries) /\ Len(Pop(Push(e, stay))) = Len(stay)
          /\ \A i \in 1..Len(stay) : Pop(Push(e, stay))[i] = Push(e, stay)[i + 1]
      <4>1. Len(stay) + 1 - 1 = Len(stay)
        BY <3>1
      <4> QED BY SMTT(30), <3>1, <3>2, <4>1, PopIs
    <3>5. ASSUME NEW i \in 1..Len(stay) PROVE Pop(Push(e, stay))[i] = stay[i]
      <4>1. i + 1 \in 1..(Len(stay) + 1) /\ i + 1 # 1 /\ i + 1 - 1 = i
        BY <3>1
      <4>2. Push(e, stay)[i + 1] = stay[i + 1 - 1]
        BY <3>1, <4>1
      <4> QED BY <3>4, <4>1, <4>2
    <3>6. Pop(Push(e, stay)) = stay
      BY <1>4, <3>4, <3>5
    <3> QED BY <3>2, <3>3, <3>6
  <2>2. Partition(PutBack(got.lists), stay, Push(e, f2))
    BY <1>2, <2>1, PutBackIs
  <2>3. Ages' = Ages
    BY <1>12 DEF Ages, Elapsed
  <2>4. Typed'
    BY <1>1, <1>7, <1>12 DEF Typed
  <2> HIDE DEF V
  <2>5. FilesInv(stay, Push(e, f2))'
    BY <1>7, <1>10, <1>12, <2>2, <2>3, <2>4 DEF FilesInv
  <2> QED BY <1>12, <2>3, <2>5 DEF stay, n
<1>13. \/ /\ lists' = got.lists
          /\ \E d \in Fds :
               /\ FilesAfterClose(V)[d] = NULL
               /\ fd' = [ClosedFds(V) EXCEPT ![e] = d]
               /\ file' = [FilesAfterClose(V) EXCEPT ![d] = x]
          /\ fileid' = [fileid EXCEPT ![e] = x]
          /\ lastaccess' = Accessed(e)
          /\ now' = now /\ waited' = waited
       \/ /\ lists' = PutBack(got.lists) /\ fd' = ClosedFds(V) /\ file' = FilesAfterClose(V)
          /\ fileid' = fileid /\ lastaccess' = lastaccess
          /\ now' = now /\ waited' = waited
  <2>1. e # NULL
    BY <1>3
  <2>2. V = Victims(x)
    BY DEF Victims
  <2> HIDE DEF V
  <2>3. ReadsWith(e, got.lists, V, x)
    BY <1>1, <1>9, <2>1, <2>2, ReadFileIs
  <2> QED BY <1>8, <2>3 DEF ReadsWith
<1> QED BY <1>11, <1>12, <1>13

(* Where the sweep cuts the open list. *)
LEMMA FirstExpiredIs ==
  ASSUME NEW o \in Seq(Entries), Typed, AgedBy(Ages, waited, o)
  PROVE  /\ FirstExpired(o) \in 1..(Len(o) + 1)
         /\ \A i \in 1..Len(o) : i <= FirstExpired(o) - 1 <=> Ages[o[i]] < Timeout
<1> DEFINE m == Len(o)
           T == {i \in 1..m : Elapsed(o[i]) >= Timeout} \union {m + 1}
           k == FirstExpired(o)
<1>1. m \in Nat /\ DOMAIN o = 1..m /\ Timeout \in Nat
      /\ \A i \in 1..m : o[i] \in Entries /\ Elapsed(o[i]) = Ages[o[i]] /\ Ages[o[i]] \in Nat
  BY AgesAre
<1>2. k = Min(T)
  BY <1>1 DEF FirstExpired
<1>3. T \subseteq Nat /\ T # {} /\ T \subseteq 1..(m + 1)
  BY <1>1
<1> HIDE DEF k
<1>4. k \in T /\ \A i \in T : k <= i
  <2> HIDE DEF T
  <2> QED BY <1>2, <1>3, MinIs
<1>5. k \in 1..(m + 1)
  BY <1>3, <1>4
<1>6. ASSUME NEW i \in 1..m, i <= k - 1 PROVE Ages[o[i]] < Timeout
  <2>1. ~(k <= i)
    BY <1>5, <1>6
  <2>2. i \notin T
    BY <1>4, <2>1
  <2>3. ~(Elapsed(o[i]) >= Timeout)
    BY <2>2
  <2> QED BY <1>1, <2>3
<1>7. ASSUME NEW i \in 1..m, ~(i <= k - 1) PROVE ~(Ages[o[i]] < Timeout)
  <2>1. k <= i /\ k \in 1..m
    BY <1>1, <1>5, <1>7
  <2>2. Elapsed(o[k]) >= Timeout
    BY <1>1, <1>4, <2>1
  <2>3. Ages[o[k]] <= Ages[o[i]]
    BY <2>1 DEF AgedBy
  <2> QED BY <1>1, <2>1, <2>2, <2>3
<1> QED BY <1>5, <1>6, <1>7 DEF k

(* The idle sweep closes the entries that have expired, and no other. *)
LEMMA SweepKeepsInv ==
  ASSUME NEW o, NEW f, FilesInv(o, f), HandleOther
  PROVE  \E n \in 0..Len(o) :
           /\ \A i \in 1..Len(o) : i <= n <=> Ages[o[i]] < Timeout
           /\ \E f2 : FilesInv(Cut(o, n), f2)'
           /\ Ages' = Ages /\ fileid' = fileid
<1>1. Typed /\ Partition(lists, o, f) /\ OwnedBy(fd, file, fileid, On(o)) /\ AgedBy(Ages, waited, o)
  BY DEF FilesInv
<1>2. /\ o \in Seq(Entries) /\ f \in Seq(Entries) /\ (\A i, j \in 1..Len(o) : o[i] = o[j] => i = j)
      /\ Len(o) \in Nat /\ Size \in Nat /\ Size > 1 /\ NULL \notin Entries
      /\ \A i \in 1..Len(o) : o[i] \in Entries
  BY <1>1, PartitionIs
<1>3. PICK k \in 1..(Len(o) + 1) : k = FirstExpired(o)
  BY <1>1, <1>2, FirstExpiredIs
<1> DEFINE m == Len(o)
           closed == {o[i] : i \in k..m}
           next == [e \in Slots |->
                     CASE k > 1 /\ e = o[k - 1] -> NULL
                       [] k <= m /\ e = o[k] -> lists.free
                       [] \E i \in (k + 1)..m : e = o[i] ->
                            o[(CHOOSE i \in (k + 1)..m : e = o[i]) - 1]
                       [] OTHER -> lists.next[e]]
<1>4. /\ lists' = [next |-> next, open |-> IF k = 1 THEN NULL ELSE lists.open,
                   free |-> IF k <= m THEN o[m] ELSE lists.free]
      /\ fd' = ClosedFds(closed) /\ file' = FilesAfterClose(closed)
      /\ waited' = 0 /\ fileid' = fileid /\ lastaccess' = lastaccess /\ now' = now
  <2>1. Chain(lists, lists.open) = o
    BY <1>1, PartitionChains
  <2>2. Last(o) = o[m]
    BY DEF Last
  <2> DEFINE Swept(s, j) ==
               /\ lists' = [next |-> [e \in Slots |->
                               CASE j > 1 /\ e = s[j - 1] -> NULL
                                 [] j <= Len(s) /\ e = s[j] -> lists.free
                                 [] \E i \in (j + 1)..Len(s) : e = s[i] ->
                                      s[(CHOOSE i \in (j + 1)..Len(s) : e = s[i]) - 1]
                                 [] OTHER -> lists.next[e]],
                            open |-> IF j = 1 THEN NULL ELSE lists.open,
                            free |-> IF j <= Len(s) THEN Last(s) ELSE lists.free]
               /\ fd' = ClosedFds({s[i] : i \in j..Len(s)})
               /\ file' = FilesAfterClose({s[i] : i \in j..Len(s)})
               /\ waited' = 0 /\ fileid' = fileid /\ lastaccess' = lastaccess /\ now' = now
  <2>3. Swept(Chain(lists, lists.open), FirstExpired(Chain(lists, lists.open)))
    BY Zenon DEF HandleOther, ClosedFds
  <2> HIDE DEF Swept
  <2>4. Swept(o, k)
    BY <1>3, <2>1, <2>3
  <2> USE DEF Swept
  <2> QED BY <2>2, <2>4, Zenon
<1>5. /\ m \in Nat /\ k \in 1..(m + 1) /\ k - 1 \in 0..m
      /\ \A i \in 1..m : i <= k - 1 <=> Ages[o[i]] < Timeout
  BY <1>1, <1>2, <1>3, FirstExpiredIs
<1> HIDE DEF next
<1>6. /\ lists'.next = next /\ lists'.open = (IF k = 1 THEN NULL ELSE lists.open)
      /\ lists'.free = IF k <= m THEN o[m] ELSE lists.free
      /\ lists' = [next |-> lists'.next, open |-> lists'.open, free |-> lists'.free]
  BY <1>4
<1>7. ASSUME k > 1 PROVE next[o[k - 1]] = NULL
  <2>1. k - 1 \in 1..m
    BY <1>5, <1>7
  <2>2. o[k - 1] \in Slots
    BY <1>2, <2>1 DEF Slots
  <2>3. ~(k <= m /\ o[k - 1] = o[k]) /\ ~ \E i \in (k + 1)..m : o[k - 1] = o[i]
    BY <1>2, <1>5, <2>1
  <2> QED BY <1>7, <2>2, <2>3 DEF next
<1>8. ASSUME k <= m PROVE next[o[k]] = lists.free
  <2>1. k \in 1..m
    BY <1>5, <1>8
  <2>2. o[k] \in Slots
    BY <1>2, <2>1 DEF Slots
  <2>3. ~(k > 1 /\ o[k] = o[k - 1]) /\ ~ \E i \in (k + 1)..m : o[k] = o[i]
    BY <1>2, <1>5, <2>1
  <2> QED BY <1>8, <2>2, <2>3 DEF next
<1>9. ASSUME NEW i \in (k + 1)..m PROVE next[o[i]] = o[i - 1]
  <2>1. i \in 1..m /\ k \in 1..m /\ i # k /\ i # k - 1 /\ (k > 1 => k - 1 \in 1..m)
    BY <1>5
  <2>2. o[i] \in Slots
    BY <1>2, <2>1 DEF Slots
  <2>3. ~(k > 1 /\ o[i] = o[k - 1]) /\ ~(k <= m /\ o[i] = o[k])
    BY <1>2, <2>1
  <2>4. (CHOOSE j \in (k + 1)..m : o[i] = o[j]) = i
    <3>1. \A j \in (k + 1)..m : o[i] = o[j] => i = j
      BY <1>2, <1>5, <2>1
    <3> QED BY <3>1
  <2> QED BY <2>2, <2>3, <2>4 DEF next
<1>10. ASSUME NEW x \in Slots, \A i \in 1..m : i >= k - 1 => x # o[i]
       PROVE  next[x] = lists.next[x]
  <2>1. ~(k > 1 /\ x = o[k - 1]) /\ ~(k <= m /\ x = o[k]) /\ ~ \E i \in (k + 1)..m : x = o[i]
    BY <1>5, <1>10
  <2> QED BY <2>1 DEF next
<1>11. /\ lists \in [next : [Slots -> Slots], open : Slots, free : Slots] /\ lists.next[NULL] = NULL
       /\ NULL \in Slots /\ Entries \subseteq Slots
  BY <1>1 DEF Partition, Slots
<1>12. ASSUME NEW x \in Slots PROVE next[x] \in Slots
  <2>1. CASE \A i \in 1..m : i >= k - 1 => x # o[i]
    <3>1. next[x] = lists.next[x]
      BY <1>10, <2>1
    <3> QED BY <1>11, <3>1
  <2>2. CASE \E i \in 1..m : i >= k - 1 /\ x = o[i]
    <3>1. PICK i \in 1..m : i >= k - 1 /\ x = o[i]
      BY <2>2
    <3>2. CASE i = k - 1
      BY <1>5, <1>7, <1>11, <3>1, <3>2
    <3>3. CASE i = k
      BY <1>5, <1>8, <1>11, <3>1, <3>3
    <3>4. CASE i # k - 1 /\ i # k
      <4>1. i \in (k + 1)..m /\ i - 1 \in 1..m
        BY <1>5, <3>1, <3>4
      <4> QED BY <1>2, <1>9, <1>11, <3>1, <4>1
    <3> QED BY <3>2, <3>3, <3>4
  <2> QED BY <2>1, <2>2
<1>13. next \in [Slots -> Slots] /\ next[NULL] = NULL
  <2>1. \A i \in 1..m : NULL # o[i]
    BY <1>2
  <2>2. next[NULL] = lists.next[NULL]
    BY <1>10, <1>11, <2>1
  <2> QED BY <1>11, <1>12, <2>2 DEF next
<1>14. Spilled(lists, o, k, lists')
  <2>1. lists' \in [next : [Slots -> Slots], open : Slots, free : Slots]
    <3>1. lists'.open \in Slots
      BY <1>6, <1>11
    <3>2. lists'.free \in Slots
      BY <1>2, <1>5, <1>6, <1>11
    <3> QED BY <1>6, <1>13, <3>1, <3>2
  <2>2. lists'.next = next /\ lists'.next[NULL] = NULL
    BY <1>6, <1>13
  <2>3. \A x \in Entries : (\A i \in 1..m : i >= k - 1 => x # o[i]) => lists'.next[x] = lists.next[x]
    BY <1>10, <1>11, <2>2
  <2> QED BY <1>6, <1>7, <1>8, <1>9, <2>1, <2>2, <2>3 DEF Spilled
<1>15. Partition(lists', Cut(o, k - 1), Spill(o, k, f))
  BY <1>1, <1>14, SpilledIs
<1>16. closed = On(o) \ On(Cut(o, k - 1)) /\ closed \subseteq On(o)
       /\ On(o) \ closed = On(Cut(o, k - 1)) /\ On(o) \subseteq Entries
  <2>1. k - 1 + 1 = k
    BY <1>5
  <2>2. On(o) \ On(Cut(o, k - 1)) = {o[i] : i \in (k - 1 + 1)..m}
        /\ On(Cut(o, k - 1)) \subseteq On(o) /\ On(o) \subseteq Entries
    BY <1>2, <1>5, OnCut
  <2>3. closed = On(o) \ On(Cut(o, k - 1))
    BY <2>1, <2>2
  <2> HIDE DEF closed
  <2> QED BY <2>2, <2>3
<1> HIDE DEF closed
<1>17. /\ OwnedBy(fd', file', fileid', On(Cut(o, k - 1)))
       /\ fd' \in [Entries -> Fds \union {Closed}]
       /\ file' \in [Fds -> Files \union {NULL}]
  <2>1. /\ OwnedBy(ClosedFds(closed), FilesAfterClose(closed), fileid, On(o) \ closed)
        /\ ClosedFds(closed) \in [Entries -> Fds \union {Closed}]
        /\ FilesAfterClose(closed) \in [Fds -> Files \union {NULL}]
    BY <1>1, <1>16, ClosingKeepsOwners
  <2> QED BY <1>4, <1>16, <2>1
<1>18. Ages' = Ages
  BY <1>4 DEF Ages, Elapsed
<1>19. AgedBy(Ages', waited', Cut(o, k - 1))
  <2> DEFINE c == Cut(o, k - 1)
  <2>1. AgedBy(Ages, waited, c)
    BY <1>1, <1>2, <1>5, AgesAre, AgesOfCut
  <2>2. Len(c) = k - 1 /\ \A i \in 1..(k - 1) : c[i] = o[i]
    BY <1>2, <1>5, CutIs
  <2> HIDE DEF c
  <2>3. ASSUME NEW i \in 1..Len(c) PROVE Ages[c[i]] < Timeout + 0
    <3>1. i \in 1..m /\ i <= k - 1 /\ c[i] = o[i]
      BY <1>5, <2>2
    <3>2. Timeout \in Nat
      BY <1>1, AgesAre
    <3> QED BY <1>5, <3>1, <3>2
  <2>4. AgedBy(Ages, 0, c)
    BY <2>1, <2>3 DEF AgedBy
  <2> QED BY <1>4, <1>18, <2>4 DEF c
<1>20. Typed'
  <2>1. 0 \in 0..(Interval + Lag)
    BY <1>1, AgesAre
  <2> QED BY <1>1, <1>4, <1>17, <2>1 DEF Typed
<1>21. FilesInv(Cut(o, k - 1), Spill(o, k, f))'
  BY <1>15, <1>17, <1>19, <1>20 DEF FilesInv
<1> QED BY <1>4, <1>5, <1>18, <1>21

(* Time passes; the open files are closed before the clock could wrap. *)
LEMMA TickKeepsInv ==
  ASSUME NEW o, NEW f, FilesInv(o, f), Tick
  PROVE  /\ FilesInv(o, f)' /\ fileid' = fileid
         /\ \A i \in 1..Len(o) : Ages'[o[i]] = Ages[o[i]] + 1
<1>1. Typed /\ Partition(lists, o, f) /\ OwnedBy(fd, file, fileid, On(o)) /\ AgedBy(Ages, waited, o)
  BY DEF FilesInv
<1>2. \A i \in 1..Len(o) : o[i] \in Entries
  BY <1>1, PartitionIs
<1>3. waited < Interval + Lag /\ waited' = waited + 1 /\ now' = (now + 1) % Wrap
      /\ lists' = lists /\ fileid' = fileid /\ fd' = fd /\ lastaccess' = lastaccess /\ file' = file
  BY DEF Tick
<1>4. /\ waited \in Nat /\ Timeout \in Nat \ {0} /\ Interval \in Nat \ {0} /\ Lag \in Nat
      /\ Wrap \in Nat \ {0} /\ Timeout + Interval + Lag < Wrap
      /\ \A e \in Entries : Ages[e] \in Nat
  BY <1>1, AgesAre, DIPFilesAssumption
<1>5. ASSUME NEW i \in 1..Len(o)
      PROVE  Ages'[o[i]] = Ages[o[i]] + 1 /\ Ages[o[i]] < Timeout + waited /\ Ages[o[i]] \in Nat
  <2>1. Ages[o[i]] < Timeout + waited /\ o[i] \in Entries /\ Ages[o[i]] \in Nat
    BY <1>1, <1>2, <1>4 DEF AgedBy
  <2>2. Ages[o[i]] + 1 < Wrap
    BY <1>3, <1>4, <2>1
  <2> QED BY <1>1, <2>1, <2>2, AgesTick
<1>6. AgedBy(Ages', waited', o)
  <2>1. ASSUME NEW i \in 1..Len(o) PROVE Ages'[o[i]] < Timeout + waited'
    <3>1. waited \in Nat /\ Timeout \in Nat /\ waited' = waited + 1
      BY <1>3, <1>4
    <3> QED BY <1>5, <3>1
  <2>2. \A i, j \in 1..Len(o) : i <= j => Ages'[o[i]] <= Ages'[o[j]]
    BY <1>1, <1>5 DEF AgedBy
  <2> QED BY <2>1, <2>2 DEF AgedBy
<1>7. Typed'
  <2>1. (now + 1) % Wrap \in 0..(Wrap - 1) /\ waited + 1 \in 0..(Interval + Lag)
    <3>1. now \in 0..(Wrap - 1)
      BY <1>1 DEF Typed
    <3> QED BY <1>3, <1>4, <3>1
  <2> QED BY <1>1, <1>3, <2>1 DEF Typed
<1> QED BY <1>1, <1>3, <1>5, <1>6, <1>7 DEF FilesInv

(* The lists of the state are those that the links make. *)
LEMMA ListsAre ==
  ASSUME NEW o, NEW f, FilesInv(o, f)
  PROVE  openList = o /\ freeList = f
  BY PartitionChains DEF FilesInv, openList, freeList

(* The same for the state after a step. *)
LEMMA ListsAreAfter ==
  ASSUME NEW o, NEW f, FilesInv(o, f)'
  PROVE  openList' = o /\ freeList' = f
<1>1. Partition(lists', o, f)
  BY DEF FilesInv
<1> QED BY <1>1, PartitionChains DEF openList, freeList

Inv == FilesInv(openList, freeList)

(* The lists found after a step witness the invariant. *)
LEMMA InvAfter ==
  ASSUME NEW o, NEW f, FilesInv(o, f)'
  PROVE  Inv'
<1>1. openList' = o /\ freeList' = f
  BY ListsAreAfter
<1>2. /\ Partition(lists', o, f) /\ Typed' /\ OwnedBy(fd', file', fileid', On(o))
      /\ AgedBy(Ages', waited', o)
  BY DEF FilesInv
<1> QED BY <1>1, <1>2 DEF Inv, FilesInv

(* The constructor links all entries as free. *)
LEMMA InitInv == Init => Inv /\ openList = <<>>
<1> SUFFICES ASSUME Init PROVE Inv /\ openList = <<>>
  OBVIOUS
<1> DEFINE f == [i \in 1..Size |-> i]
<1>1. Size \in Nat /\ Size > 1 /\ NULL \notin Entries /\ NULL \notin Files /\ Timeout \in Nat \ {0}
      /\ Interval \in Nat \ {0} /\ Lag \in Nat /\ Wrap \in Nat \ {0}
  BY DIPFilesAssumption
<1>2. f \in Seq(Entries) /\ Len(f) = Size /\ \A i \in 1..Size : f[i] = i
  BY <1>1 DEF Entries
<1>3. lists = [next |-> AllLinked, open |-> NULL, free |-> 1]
  BY DEF Init
<1>4. /\ 1 \in Entries /\ Entries \subseteq Slots /\ NULL \in Slots
      /\ \A i \in Entries : i # Size => i + 1 \in Entries
  BY <1>1 DEF Entries, Slots
<1>5. /\ AllLinked \in [Slots -> Slots] /\ AllLinked[NULL] = NULL
      /\ \A i \in 1..Size : AllLinked[i] = IF i = Size THEN NULL ELSE i + 1
  <2>1. \A e \in Slots : e \notin {NULL, Size} => e \in Entries /\ e # Size
    BY DEF Slots
  <2> QED BY <1>1, <1>4, <2>1 DEF AllLinked, Entries
<1> HIDE DEF f
<1>6. Linked(lists, 1, f)
  <2>1. 1 = At(f, 1)
    BY <1>1, <1>2 DEF At
  <2>2. ASSUME NEW i \in 1..Len(f) PROVE lists.next[f[i]] = At(f, i + 1)
    <3>1. CASE i = Size
      BY <1>1, <1>2, <1>3, <1>5, <3>1 DEF At
    <3>2. CASE i # Size
      <4>1. i + 1 \in 1..Size /\ i \in 1..Size
        BY <1>1, <1>2, <3>2
      <4> QED BY <1>2, <1>3, <1>5, <3>2, <4>1 DEF At
    <3> QED BY <3>1, <3>2
  <2>3. \A i, j \in 1..Len(f) : f[i] = f[j] => i = j
    BY <1>2
  <2> QED BY <1>2, <2>1, <2>2, <2>3 DEF Linked
<1>7. Linked(lists, NULL, <<>>)
  <2>1. <<>> \in Seq(Entries) /\ Len(<<>>) = 0 /\ 1..0 = {}
    OBVIOUS
  <2> QED BY <2>1 DEF Linked, At
<1>8. Partition(lists, <<>>, f)
  <2>1. lists \in [next : [Slots -> Slots], open : Slots, free : Slots] /\ lists.next[NULL] = NULL
    BY <1>3, <1>4, <1>5
  <2>2. Len(<<>>) = 0 /\ 1..0 = {}
    OBVIOUS
  <2>3. \A e \in Entries : \E j \in 1..Len(f) : f[j] = e
    BY <1>2 DEF Entries
  <2> QED BY <1>3, <1>6, <1>7, <2>1, <2>2, <2>3 DEF Partition
<1>9. On(<<>>) = {}
  <2>1. Len(<<>>) = 0 /\ 1..0 = {}
    OBVIOUS
  <2> QED BY <2>1 DEF On
<1>10. OwnedBy(fd, file, fileid, On(<<>>))
  BY <1>9 DEF Init, OwnedBy
<1>11. AgedBy(Ages, waited, <<>>)
  <2>1. Len(<<>>) = 0 /\ 1..0 = {}
    OBVIOUS
  <2> QED BY <2>1 DEF AgedBy
<1>12. Typed
  BY <1>1 DEF Init, Typed
<1>13. FilesInv(<<>>, f)
  BY <1>8, <1>10, <1>11, <1>12 DEF FilesInv
<1> QED BY <1>13, ListsAre DEF Inv

(* Nothing changes. *)
LEMMA StutterKeepsInv ==
  ASSUME NEW o, NEW f, FilesInv(o, f), UNCHANGED vars
  PROVE  FilesInv(o, f)' /\ Ages' = Ages /\ fileid' = fileid
<1>1. Ages' = Ages
  BY DEF Ages, Elapsed, vars
<1> QED BY <1>1 DEF FilesInv, Typed, vars

(* Every step keeps the invariant. *)
LEMMA InvNext == NullFile \notin Files /\ Inv /\ [Next]_vars => Inv'
<1> SUFFICES ASSUME NullFile \notin Files, Inv, [Next]_vars PROVE Inv'
  OBVIOUS
<1>1. PICK o, f : FilesInv(o, f)
  BY DEF Inv
<1>2. ASSUME NEW x \in Files, ReadFile(x) PROVE Inv'
  <2>1. Partition(lists, o, f)
    BY <1>1 DEF FilesInv
  <2>2. CASE Hit(GetFile(x), o, f, x)
    BY <1>1, <1>2, <2>2, HitKeepsInv, InvAfter
  <2>3. CASE Miss(GetFile(x), o, f, x)
    BY <1>1, <1>2, <2>3, MissKeepsInv, InvAfter
  <2> QED BY <2>1, <2>2, <2>3, GetFileIs
<1>3. CASE HandleOther
  BY <1>1, <1>3, SweepKeepsInv, InvAfter
<1>4. CASE Tick
  BY <1>1, <1>4, TickKeepsInv, InvAfter
<1>5. CASE UNCHANGED vars
  BY <1>1, <1>5, StutterKeepsInv, InvAfter
<1> QED BY <1>2, <1>3, <1>4, <1>5 DEF Next

(* The invariant holds in every reachable state. *)
LEMMA Invariance == ASSUME NullFile \notin Files PROVE Spec => []Inv
<1>1. Init => Inv
  BY InitInv
<1>2. Inv /\ [Next]_vars => Inv'
  BY InvNext
<1> QED BY <1>1, <1>2, PTL DEF Spec

-----------------------------------------------------------------------------
(* The properties that the invariant gives.  They need the hypothesis that   *)
(* the halfword at address 0 is the id of no file: GetFile looks there when   *)
(* it searches an open list of one entry, and takes it for the file's entry.  *)

(* No link of the lists, descriptor or time is ever out of range: GetFile and
   HandleOther never follow a link out of the array of entries. *)
THEOREM LinksInRange == NullFile \notin Files => (Spec => []TypeOK)
<1> SUFFICES ASSUME NullFile \notin Files PROVE Spec => []TypeOK
  OBVIOUS
<1>0. Spec => []Inv
  BY Invariance
<1>1. Inv => TypeOK
  BY DEF Inv, FilesInv, Typed, Partition, TypeOK
<1> QED BY <1>0, <1>1, PTL

(* Through every sequence of hits, evictions, failures and sweeps of GetFile,
   ReadFile and HandleOther, each entry is on one of the two lists, once. *)
THEOREM NoEntryLost == NullFile \notin Files => (Spec => []ListsPartition)
<1> SUFFICES ASSUME NullFile \notin Files PROVE Spec => []ListsPartition
  OBVIOUS
<1>0. Spec => []Inv
  BY Invariance
<1>1. Inv => ListsPartition
  BY LengthsAre DEF Inv, FilesInv, ListsPartition
<1> QED BY <1>0, <1>1, PTL

(* The descriptors that are open in the file module are those of the entries
   of the open list, one each, on the file that the entry is for. *)
THEOREM NoDescriptorLeaks == NullFile \notin Files => (Spec => []DescriptorsOwned)
<1> SUFFICES ASSUME NullFile \notin Files PROVE Spec => []DescriptorsOwned
  OBVIOUS
<1>0. Spec => []Inv
  BY Invariance
<1>1. ASSUME Inv PROVE DescriptorsOwned
  <2> DEFINE o == openList
             f == freeList
             D == {d \in Fds : file[d] # NULL}
             g == [i \in 1..Len(o) |-> fd[o[i]]]
  <2>1. Partition(lists, o, f) /\ Typed /\ OwnedBy(fd, file, fileid, On(o))
    BY <1>1 DEF Inv, FilesInv
  <2>2. /\ ToSet(o) = On(o)
        /\ ToSet(f) = {f[i] : i \in 1..Len(f)}
    BY <2>1, LengthsAre DEF On
  <2>3. /\ \A i \in 1..Len(o) : o[i] \in On(o)
        /\ \A e \in On(o) : \E i \in 1..Len(o) : o[i] = e
        /\ \A i, j \in 1..Len(o) : o[i] = o[j] => i = j
        /\ \A j \in 1..Len(f) : f[j] \in Entries /\ f[j] \notin On(o)
        /\ Len(o) \in Nat
    <3>1. \A j \in 1..Len(f) : f[j] \in Entries /\ f[j] \notin On(o)
      <4> HIDE DEF o, f
      <4>1. \A j \in 1..Len(f) : f[j] \in Entries
        BY <2>1, PartitionIs
      <4>2. \A i \in 1..Len(o), j \in 1..Len(f) : o[i] # f[j]
        BY <2>1 DEF Partition
      <4> QED BY <4>1, <4>2 DEF On
    <3>2. Len(o) \in Nat /\ \A i, j \in 1..Len(o) : o[i] = o[j] => i = j
      BY <2>1, PartitionIs
    <3> QED BY <3>1, <3>2 DEF On
  <2> HIDE DEF o, f
  <2>4. \A e \in ToSet(o) : fd[e] \in Fds /\ file[fd[e]] = fileid[e]
    BY <2>1, <2>2 DEF OwnedBy
  <2>5. \A e \in ToSet(f) : fd[e] = Closed
    BY <2>1, <2>2, <2>3 DEF OwnedBy
  <2>6. g \in Bijection(1..Len(o), D)
    <3>1. ASSUME NEW i \in 1..Len(o) PROVE g[i] = fd[o[i]] /\ g[i] \in D
      <4>1. fd[o[i]] \in Fds /\ file[fd[o[i]]] \in Files
        BY <2>1, <2>3 DEF OwnedBy
      <4> QED BY <4>1, DIPFilesAssumption
    <3>2. g \in [1..Len(o) -> D]
      BY <3>1
    <3>3. \A i, j \in 1..Len(o) : g[i] = g[j] => i = j
      BY <2>1, <2>3 DEF OwnedBy
    <3>4. ASSUME NEW d \in D PROVE \E i \in 1..Len(o) : g[i] = d
      <4>1. PICK e \in On(o) : fd[e] = d
        BY <2>1 DEF OwnedBy
      <4> QED BY <2>3, <4>1
    <3> HIDE DEF g, D
    <3> QED BY <3>2, <3>3, <3>4 DEF Bijection, Injection, Surjection, IsInjective
  <2>7. Cardinality(D) = Len(o)
    <3>1. IsFiniteSet(1..Len(o)) /\ Cardinality(1..Len(o)) = Len(o)
      BY <2>3, IntervalSize
    <3>2. ExistsBijection(1..Len(o), D)
      BY <2>6 DEF ExistsBijection
    <3> HIDE DEF D
    <3> QED BY <3>1, <3>2, FS_Bijection
  <2> QED BY <2>4, <2>5, <2>7 DEF DescriptorsOwned, o, f
<1> QED BY <1>0, <1>1, PTL

(* A file nobody reads is closed before Timeout, the period of the idle timer
   and its lateness have passed, though the clock wraps around. *)
THEOREM IdleAreClosed == NullFile \notin Files => (Spec => []IdleFilesClose)
<1> SUFFICES ASSUME NullFile \notin Files PROVE Spec => []IdleFilesClose
  OBVIOUS
<1>0. Spec => []Inv
  BY Invariance
<1>1. ASSUME Inv PROVE IdleFilesClose
  <2>1. Partition(lists, openList, freeList) /\ Typed /\ AgedBy(Ages, waited, openList)
    BY <1>1 DEF Inv, FilesInv
  <2>2. ToSet(openList) = {openList[i] : i \in 1..Len(openList)}
        /\ \A i \in 1..Len(openList) : openList[i] \in Entries
    BY <2>1, LengthsAre, PartitionIs
  <2>3. waited \in 0..(Interval + Lag) /\ Timeout \in Nat /\ Interval \in Nat /\ Lag \in Nat
    BY <2>1, AgesAre DEF Typed
  <2>4. ASSUME NEW i \in 1..Len(openList)
        PROVE  Elapsed(openList[i]) < Timeout + Interval + Lag
    <3>1. Ages[openList[i]] < Timeout + waited /\ Ages[openList[i]] = Elapsed(openList[i])
          /\ Ages[openList[i]] \in Nat
      BY <2>1, <2>2, AgesAre DEF AgedBy
    <3> QED BY <2>3, <3>1
  <2> QED BY <2>2, <2>4 DEF IdleFilesClose
<1> QED BY <1>0, <1>1, PTL

-----------------------------------------------------------------------------
(* The steps are those of FilePool.                                         *)

(* The files of a list of entries, as FilePool has them. *)
View(ages, ids, o) == [i \in 1..Len(o) |-> [file |-> ids[o[i]], age |-> ages[o[i]]]]

(* The refinement mapping, before a step. *)
LEMMA ViewIs ==
  ASSUME NEW o, NEW f, FilesInv(o, f)
  PROVE  /\ openFiles = View(Ages, fileid, o)
         /\ DOMAIN openFiles = 1..Len(o) /\ Len(openFiles) = Len(o) /\ Len(o) \in 0..Size
         /\ \A i \in 1..Len(o) : openFiles[i] = [file |-> fileid[o[i]], age |-> Ages[o[i]]]
<1>1. openList = o /\ DOMAIN o = 1..Len(o) /\ Len(o) \in 0..Size /\ \A i \in 1..Len(o) : o[i] \in Entries
  BY ListsAre, PartitionIs DEF FilesInv
<1>2. \A e \in Entries : Ages[e] = Elapsed(e)
  BY DEF Ages
<1>3. openFiles = View(Ages, fileid, o)
  BY <1>1, <1>2 DEF openFiles, View
<1>4. openFiles \in [1..Len(o) -> {[file |-> fileid[o[i]], age |-> Ages[o[i]]] : i \in 1..Len(o)}]
  BY <1>3 DEF View
<1>5. Len(o) \in Nat
  BY <1>1, DIPFilesAssumption
<1>6. DOMAIN openFiles = 1..Len(o) /\ Len(openFiles) = Len(o)
  BY <1>4, <1>5, FunctionIsSeq
<1>7. \A i \in 1..Len(o) : openFiles[i] = [file |-> fileid[o[i]], age |-> Ages[o[i]]]
  BY <1>3 DEF View
<1> QED BY <1>1, <1>3, <1>6, <1>7

(* The refinement mapping, after a step. *)
LEMMA ViewAfter ==
  ASSUME NEW o, NEW f, FilesInv(o, f)'
  PROVE  openFiles' = View(Ages', fileid', o)
<1>1. openList' = o
  BY ListsAreAfter
<1>2. Partition(lists', o, f)
  BY DEF FilesInv
<1>3. DOMAIN o = 1..Len(o) /\ \A i \in 1..Len(o) : o[i] \in Entries
  BY <1>2, PartitionIs
<1>4. \A e \in Entries : Ages'[e] = Elapsed(e)'
  BY DEF Ages
<1>5. openFiles' = [i \in DOMAIN o |-> [file |-> fileid'[o[i]], age |-> Elapsed(o[i])']]
  BY <1>1 DEF openFiles
<1> QED BY <1>3, <1>4, <1>5 DEF View

(* A hit uses the file. *)
LEMMA HitUses ==
  ASSUME NEW o, NEW f, FilesInv(o, f), NEW x \in Files, ReadFile(x), Hit(GetFile(x), o, f, x)
  PROVE  Pool!Use(x)
<1>1. PICK k \in 1..Len(o) : /\ fileid[o[k]] = x /\ FilesInv(Moved(o, k), f)'
                            /\ Ages' = [Ages EXCEPT ![o[k]] = 0] /\ fileid' = fileid
  BY HitKeepsInv
<1>2. /\ DOMAIN openFiles = 1..Len(o) /\ Len(o) \in Nat
      /\ \A i \in 1..Len(o) : openFiles[i] = [file |-> fileid[o[i]], age |-> Ages[o[i]]]
  BY ViewIs, DIPFilesAssumption
<1>3. openFiles' = View(Ages', fileid, Moved(o, k))
  BY <1>1, ViewAfter
<1>4. /\ o \in Seq(Entries) /\ (\A i, j \in 1..Len(o) : o[i] = o[j] => i = j)
      /\ \A i \in 1..Len(o) : o[i] \in Entries
  BY PartitionIs DEF FilesInv
<1>5. Len(Moved(o, k)) = Len(o)
  BY <1>4, OnMoved
<1>6. \A i \in 1..Len(o) : Moved(o, k)[i] = IF i = 1 THEN o[k] ELSE IF i <= k THEN o[i - 1] ELSE o[i]
  BY DEF Moved
<1>7. Ages'[o[k]] = 0 /\ \A e \in Entries : e # o[k] => Ages'[e] = Ages[e]
  BY <1>1, <1>4 DEF Ages
<1>8. ASSUME NEW i \in 1..Len(o)
      PROVE  [file |-> fileid[Moved(o, k)[i]], age |-> Ages'[Moved(o, k)[i]]]
               = IF i = 1 THEN [file |-> openFiles[k].file, age |-> 0]
                 ELSE IF i <= k THEN openFiles[i - 1] ELSE openFiles[i]
  <2>1. CASE i = 1
    BY <1>2, <1>6, <1>7, <2>1
  <2>2. CASE i # 1 /\ i <= k
    <3>1. Moved(o, k)[i] = o[i - 1] /\ i - 1 \in 1..Len(o) /\ i - 1 # k
      BY <1>2, <1>6, <2>2
    <3>2. o[i - 1] # o[k] /\ o[i - 1] \in Entries
      BY <1>4, <3>1
    <3> QED BY <1>2, <1>7, <2>2, <3>1, <3>2
  <2>3. CASE i > k
    <3>1. Moved(o, k)[i] = o[i] /\ i # k /\ i # 1 /\ ~(i <= k)
      BY <1>2, <1>6, <2>3
    <3>2. o[i] # o[k] /\ o[i] \in Entries
      BY <1>4, <3>1
    <3> QED BY <1>2, <1>7, <3>1, <3>2
  <2> QED BY <1>2, <2>1, <2>2, <2>3
<1>9. View(Ages', fileid, Moved(o, k))
        = [i \in 1..Len(o) |-> IF i = 1 THEN [file |-> openFiles[k].file, age |-> 0]
                               ELSE IF i <= k THEN openFiles[i - 1] ELSE openFiles[i]]
  BY <1>5, <1>8 DEF View
<1>10. openFiles' = Pool!ToFront(k)
  BY <1>2, <1>3, <1>9 DEF Pool!ToFront, Pool!Used
<1>11. openFiles[k].file = x
  BY <1>1, <1>2
<1> QED BY <1>2, <1>10, <1>11 DEF Pool!Use

(* How much of the list a file that is not open leaves. *)
LEMMA StayingIs ==
  ASSUME NEW o, NEW f, FilesInv(o, f), NEW x \in Files, Miss(GetFile(x), o, f, x)
  PROVE  Pool!Kept = Staying(o) /\ Staying(o) \in 0..Len(o) /\ ~Pool!IsOpen(x)
<1>1. /\ DOMAIN openFiles = 1..Len(o) /\ Len(openFiles) = Len(o) /\ Len(o) \in 0..Size
      /\ Size \in Nat /\ Size > 1
      /\ \A i \in 1..Len(o) : openFiles[i] = [file |-> fileid[o[i]], age |-> Ages[o[i]]]
  BY ViewIs, DIPFilesAssumption
<1>2. \A i \in 1..Len(o) : fileid[o[i]] # x
  BY DEF Miss
<1>3. ~Pool!IsOpen(x)
  BY <1>1, <1>2 DEF Pool!IsOpen
<1>4. Pool!Kept = Staying(o) /\ Staying(o) \in 0..Len(o)
  <2>1. Staying(o) \in 0..Len(o)
    BY <1>1 DEF Staying
  <2>2. Pool!Kept = IF Len(openFiles) = Size THEN Size - 1 ELSE Len(openFiles)
    BY Zenon DEF Pool!Kept
  <2> QED BY <1>1, <2>1, <2>2 DEF Staying
<1> QED BY <1>3, <1>4

(* The first entries of a list are the first files. *)
LEMMA ViewOfCut ==
  ASSUME NEW o, NEW f, FilesInv(o, f), NEW n \in 0..Len(o)
  PROVE  /\ View(Ages, fileid, Cut(o, n)) = SubSeq(openFiles, 1, n)
         /\ \A i \in 1..n : openFiles[i] = [file |-> fileid[Cut(o, n)[i]], age |-> Ages[Cut(o, n)[i]]]
<1>1. /\ DOMAIN openFiles = 1..Len(o) /\ Len(o) \in Nat /\ n \in Nat
      /\ \A i \in 1..Len(o) : openFiles[i] = [file |-> fileid[o[i]], age |-> Ages[o[i]]]
  BY ViewIs, DIPFilesAssumption
<1>2. Len(Cut(o, n)) = n /\ \A i \in 1..n : Cut(o, n)[i] = o[i]
  BY CutIs, PartitionIs DEF FilesInv
<1>3. \A i \in 1..n : i \in 1..Len(o)
  BY <1>1
<1>4. \A i \in 1..n : openFiles[i] = [file |-> fileid[Cut(o, n)[i]], age |-> Ages[Cut(o, n)[i]]]
  BY <1>1, <1>2, <1>3
<1>5. SubSeq(openFiles, 1, n) = [i \in 1..n |-> openFiles[i]]
  <2>1. \A i \in 1..n : 1 + i - 1 = i
    BY <1>1
  <2>2. SubSeq(openFiles, 1, n) = [i \in 1..n |-> openFiles[1 + i - 1]]
    BY <1>1
  <2> QED BY <2>1, <2>2
<1> QED BY <1>2, <1>4, <1>5 DEF View

(* A miss uses the file or fails. *)
LEMMA MissUsesOrFails ==
  ASSUME NEW o, NEW f, FilesInv(o, f), NEW x \in Files, ReadFile(x), Miss(GetFile(x), o, f, x)
  PROVE  Pool!Use(x) \/ Pool!Fail(x)
<1> DEFINE n == Staying(o)
           stay == Cut(o, n)
<1>1. Pool!Kept = n /\ n \in 0..Len(o) /\ ~Pool!IsOpen(x)
  BY StayingIs
<1>2. o \in Seq(Entries) /\ stay \in Seq(Entries) /\ Len(stay) = n /\ Len(o) \in Nat
  BY <1>1, CutIs, PartitionIs DEF FilesInv
<1>3. /\ View(Ages, fileid, stay) = SubSeq(openFiles, 1, n)
      /\ \A i \in 1..n : openFiles[i] = [file |-> fileid[stay[i]], age |-> Ages[stay[i]]]
  BY <1>1, ViewOfCut
<1> HIDE DEF stay, n
<1>4. ASSUME NEW e \in Entries, NEW f2, FilesInv(Push(e, stay), f2)', e \notin On(stay),
             Ages' = [Ages EXCEPT ![e] = 0], fileid' = [fileid EXCEPT ![e] = x]
      PROVE  Pool!Use(x)
  <2>1. openFiles' = View(Ages', fileid', Push(e, stay))
    BY <1>4, ViewAfter
  <2>2. Len(Push(e, stay)) = n + 1 /\ n \in Nat
    BY <1>1, <1>2, PushIs
  <2>3. \A i \in 1..(n + 1) : Push(e, stay)[i] = IF i = 1 THEN e ELSE stay[i - 1]
    BY <1>2 DEF Push
  <2>4. \A i \in 1..n : stay[i] \in Entries /\ stay[i] # e
    BY <1>2, <1>4 DEF On
  <2>5. fileid \in [Entries -> Files \union {NULL}] /\ DOMAIN Ages = Entries
    BY DEF FilesInv, Typed, Ages
  <2>6. /\ fileid'[e] = x /\ Ages'[e] = 0
        /\ \A g \in Entries : g # e => fileid'[g] = fileid[g] /\ Ages'[g] = Ages[g]
    BY <1>4, <2>5
  <2>7. ASSUME NEW i \in 1..(n + 1)
        PROVE  [file |-> fileid'[Push(e, stay)[i]], age |-> Ages'[Push(e, stay)[i]]]
                 = IF i = 1 THEN [file |-> x, age |-> 0] ELSE openFiles[i - 1]
    <3>1. CASE i = 1
      BY <2>3, <2>6, <3>1
    <3>2. CASE i # 1
      <4>1. i - 1 \in 1..n /\ Push(e, stay)[i] = stay[i - 1]
        BY <2>2, <2>3, <3>2
      <4>2. stay[i - 1] \in Entries /\ stay[i - 1] # e
        BY <2>4, <4>1
      <4> QED BY <1>3, <2>6, <3>2, <4>1, <4>2
    <3> QED BY <3>1, <3>2
  <2>8. openFiles' = [i \in 1..(n + 1) |-> IF i = 1 THEN [file |-> x, age |-> 0] ELSE openFiles[i - 1]]
    BY <2>1, <2>2, <2>7 DEF View
  <2> QED BY <1>1, <2>8 DEF Pool!Use, Pool!Opened, Pool!Used
<1>5. ASSUME NEW f2, FilesInv(stay, f2)', Ages' = Ages, fileid' = fileid
      PROVE  Pool!Fail(x)
  <2>1. openFiles' = View(Ages, fileid, stay)
    BY <1>5, ViewAfter
  <2> QED BY <1>1, <1>3, <2>1 DEF Pool!Fail
<1>6. \/ \E e \in Entries : \E f2 :
           /\ FilesInv(Push(e, stay), f2)' /\ e \notin On(stay)
           /\ Ages' = [Ages EXCEPT ![e] = 0] /\ fileid' = [fileid EXCEPT ![e] = x]
      \/ \E f2 : FilesInv(stay, f2)' /\ Ages' = Ages /\ fileid' = fileid
  BY MissKeepsInv DEF stay, n
<1> QED BY <1>4, <1>5, <1>6

(* HandleOther is a sweep. *)
LEMMA SweepSweeps ==
  ASSUME NEW o, NEW f, FilesInv(o, f), HandleOther
  PROVE  Pool!Sweep
<1>1. PICK n \in 0..Len(o) : /\ \A i \in 1..Len(o) : i <= n <=> Ages[o[i]] < Timeout
                             /\ \E f2 : FilesInv(Cut(o, n), f2)'
                             /\ Ages' = Ages /\ fileid' = fileid
  BY SweepKeepsInv
<1>2. openFiles' = View(Ages, fileid, Cut(o, n))
  BY <1>1, ViewAfter
<1>3. openFiles' = SubSeq(openFiles, 1, n)
  BY <1>2, ViewOfCut
<1>4. /\ DOMAIN openFiles = 1..Len(o) /\ Len(openFiles) = Len(o)
      /\ \A i \in 1..Len(o) : openFiles[i] = [file |-> fileid[o[i]], age |-> Ages[o[i]]]
  BY ViewIs
<1>5. \A i \in DOMAIN openFiles : i <= n <=> openFiles[i].age < Timeout
  BY <1>1, <1>4
<1> QED BY <1>3, <1>4, <1>5 DEF Pool!Sweep

(* The clock's ticks are those of the true time. *)
LEMMA TickTicks ==
  ASSUME NEW o, NEW f, FilesInv(o, f), Tick
  PROVE  Pool!Tick
<1>1. /\ FilesInv(o, f)' /\ fileid' = fileid
      /\ \A i \in 1..Len(o) : Ages'[o[i]] = Ages[o[i]] + 1
  BY TickKeepsInv
<1>2. openFiles' = View(Ages', fileid, o)
  BY <1>1, ViewAfter
<1>3. /\ DOMAIN openFiles = 1..Len(o)
      /\ \A i \in 1..Len(o) : openFiles[i] = [file |-> fileid[o[i]], age |-> Ages[o[i]]]
  BY ViewIs
<1>4. \A i \in 1..Len(o) : [file |-> fileid[o[i]], age |-> Ages'[o[i]]]
                             = [file |-> openFiles[i].file, age |-> openFiles[i].age + 1]
  BY <1>1, <1>3
<1>5. openFiles' = [i \in DOMAIN openFiles |->
                      [file |-> openFiles[i].file, age |-> openFiles[i].age + 1]]
  BY <1>2, <1>3, <1>4 DEF View
<1> QED BY <1>5 DEF Pool!Tick

(* FilePool starts with no file open. *)
LEMMA PoolInit == Init => Pool!Init
<1> SUFFICES ASSUME Init PROVE openFiles = <<>>
  BY DEF Pool!Init
<1>1. openList = <<>>
  BY InitInv
<1> QED BY <1>1 DEF openFiles

(* A step of the lists is one of the pool, or none. *)
LEMMA PoolNext == NullFile \notin Files /\ Inv /\ [Next]_vars => [Pool!Next]_openFiles
<1> SUFFICES ASSUME NullFile \notin Files, Inv, [Next]_vars PROVE Pool!Next \/ UNCHANGED openFiles
  OBVIOUS
<1>1. PICK o, f : FilesInv(o, f)
  BY DEF Inv
<1>2. ASSUME NEW x \in Files, ReadFile(x) PROVE Pool!Next
  <2>1. Partition(lists, o, f)
    BY <1>1 DEF FilesInv
  <2>2. Pool!Use(x) \/ Pool!Fail(x)
    BY <1>1, <1>2, <2>1, GetFileIs, HitUses, MissUsesOrFails
  <2> QED BY <2>2 DEF Pool!Next
<1>3. CASE HandleOther
  BY <1>1, <1>3, SweepSweeps DEF Pool!Next
<1>4. CASE Tick
  BY <1>1, <1>4, TickTicks DEF Pool!Next
<1>5. CASE UNCHANGED vars
  <2>1. FilesInv(o, f)' /\ Ages' = Ages /\ fileid' = fileid
    BY <1>1, <1>5, StutterKeepsInv
  <2>2. openFiles' = openFiles
    BY <1>1, <2>1, ViewIs, ViewAfter
  <2> QED BY <2>2
<1> QED BY <1>2, <1>3, <1>4, <1>5 DEF Next

(* GetFile, ReadFile and HandleOther, on linked lists and a clock that wraps,
   keep the promises of FilePool: they implement it step by step. *)
THEOREM ImplementsFilePool == NullFile \notin Files => (Spec => PoolSpec)
<1> SUFFICES ASSUME NullFile \notin Files PROVE Spec => PoolSpec
  OBVIOUS
<1>0. Spec => []Inv
  BY Invariance
<1>1. Init => Pool!Init
  BY PoolInit
<1>2. Inv /\ [Next]_vars => [Pool!Next]_openFiles
  BY PoolNext
<1> QED BY <1>0, <1>1, <1>2, PTL DEF Spec, PoolSpec, Pool!Spec
=============================================================================
