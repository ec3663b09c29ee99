--------------------------- MODULE Session_proofs ---------------------------
(***************************************************************************)
(* Proofs about Session, for every size of the mount table, every number of*)
(* servers and every list of updates: the filesystems that the game uses   *)
(* stay mounted and its paths lead to them, no handler of an open file is  *)
(* deleted, the log goes to a filesystem that is mounted, the network stays*)
(* up under a server, the updater has the devices for itself, and the      *)
(* version it records is the one that is installed.                        *)
(*                                                                         *)
(* The first lemmas say what the operators of FileModule return.  Then     *)
(* there is one lemma for each of the two ways a mount table changes, a    *)
(* filesystem more (Added) and one less (Removed), and one for each step.  *)
(* SessionInv is inductive by itself; TableInv and CommonInv, about paths, *)
(* and LauncherInv, about types, are inductive with it, and UpdateInv and  *)
(* CardInv, about the updater, by themselves.                              *)
(***************************************************************************)
EXTENDS Session, TLAPS, WellFoundedInduction

(* The mount points of RiiFS servers. *)
Servers == {"net"} \X (Nat \ {0})

(* What an operator of the file module returns, given the state f. *)
Mounts(f, r, ms) ==
  /\ r.fs \in FileSystems /\ r.ret \in Slots \union {-1}
  /\ r.fs.logfs = f.logfs
  /\ r.ret = -1 => r.fs.mounted = f.mounted
  /\ r.ret # -1 =>
       /\ f.mounted[r.ret] = None
       /\ f.mounted[0] = None \/ f.mounted[1] = None => r.ret \in {0, 1}
       /\ \E m \in ms : r.fs.mounted = [f.mounted EXCEPT ![r.ret] = m]

(* A state of the file module in which the log goes to a filesystem that is
   mounted; devices have the first two slots; ToMount has the servers. *)
Logged(f) == f.logfs # -1 => f.mounted[f.logfs] # None
FatLow(f) == \A i \in Slots, d \in Disks : f.mounted[i] = Fat(d) => i \in {0, 1}
Listed(f, s) == \A i \in Slots : f.mounted[i] \in Servers => i \in InRange(s)
LowFree(f) == f.mounted[0] = None \/ f.mounted[1] = None
Home(f, c) == f.mounted[c.slot] = c.home

(* At start-up one of the first two slots is free, so a device goes there, and
   what Haxx_Mount unmounts by the number of the device is one of them. *)
ModuleInv ==
  /\ fs \in FileSystems /\ Logged(fs) /\ FatLow(fs)
  /\ pc \in {"sd", "usb", "broadcast"} => LowFree(fs)

(* In the menu every choice's slot holds the filesystem its XML file was read
   from; once the game is being launched those of the used ones still do. *)
ChoicesInv ==
  /\ used \subseteq choices /\ choices \subseteq [slot : Slots, home : MountPoints]
  /\ pc = "menu" => \A c \in choices : Home(fs, c)
  /\ IF Launched THEN \A c \in used : Home(fs, c) ELSE used = {}

(* Every server that is mounted is in ToMount, by which the game is patched and
   the network is left up. *)
NetworkInv ==
  /\ tomount \in Seq(Slots) /\ Listed(fs, tomount)
  /\ pc \in {"unmount", "game"} /\ tomount # <<>> => patched
  /\ pc = "game" /\ tomount # <<>> => network

(* Neither of the first two slots is mounted, and no device is elsewhere. *)
DevicesInv == pc = "update" => \A i \in Slots, d \in Disks : fs.mounted[i] # Fat(d)

(* The inductive invariant of the first four theorems. *)
SessionInv == ModuleInv /\ ChoicesInv /\ NetworkInv /\ DevicesInv
-----------------------------------------------------------------------------
(* A set of numbers has a least member. *)
LEMMA Smallest ==
  ASSUME NEW T, T \subseteq Nat, T # {}
  PROVE  \E x \in T : \A y \in T : x <= y
<1> DEFINE R == OpToRel(<, Nat)
<1>1. IsWellFoundedOn(R, Nat)
  BY NatLessThanWellFounded
<1>2. \A i, j \in Nat : i < j => <<i, j>> \in R
  BY DEF OpToRel
<1> HIDE DEF R
<1>3. PICK x \in T : \A y \in T : ~ (<<y, x>> \in R)
  BY <1>1, WFMin
<1>4. \A y \in T : ~(y < x)
  BY <1>2, <1>3
<1> QED BY <1>3, <1>4

(* The slots, and the numbers that are none. *)
LEMMA SlotsAre ==
  /\ MaxMounted \in Nat /\ {0, 1} \subseteq Slots /\ -1 \notin Slots /\ MaxMounted \notin Slots
  /\ \A i : i \in 0..MaxMounted /\ i # MaxMounted => i \in Slots
  /\ \A i \in Slots : i >= 0 /\ i \in Nat
BY FileModuleAssumption DEF Slots

(* FirstFree finds the first place that is free, or MaxMounted. *)
LEMMA FirstFreeIs ==
  ASSUME NEW places
  PROVE  LET i == FirstFree(places) IN
         /\ i \in 0..MaxMounted
         /\ \A j \in 0..(i - 1) : places[j] # None
         /\ i \in Slots => places[i] = None
<1> DEFINE T == {i \in 0..MaxMounted : i \in Slots => places[i] = None}
<1>1. T \subseteq Nat /\ MaxMounted \in T
  BY SlotsAre
<1>2. PICK x \in T : \A y \in T : x <= y
  BY <1>1, Smallest
<1>3. \A j \in 0..(x - 1) : j \in 0..MaxMounted /\ j < x
  BY <1>1, <1>2, SlotsAre
<1>4. \A j \in 0..(x - 1) : places[j] # None
  BY <1>1, <1>2, <1>3
<1> QED BY <1>2, <1>4 DEF FirstFree

(* The fields of the file module's state. *)
LEMMA FileSystemIs ==
  ASSUME NEW f \in FileSystems
  PROVE  /\ f.mounted \in [Slots -> MountPoints \union {None}]
         /\ f.disk \in [Slots -> Disks \union {None}]
         /\ f.default \in Slots /\ f.logfs \in Slots \union {-1} /\ f.servers \in Nat
BY DEF FileSystems

(* The ioctls of the file module: Mount takes the first free slot. *)
LEMMA MountIs ==
  ASSUME NEW f \in FileSystems, NEW m \in MountPoints, NEW ok \in BOOLEAN
  PROVE  Mounts(f, Mount(f, m, ok), {m}) /\ Mount(f, m, ok).fs.servers = f.servers
<1> DEFINE i == FirstFree(f.mounted)
<1>1. /\ i \in 0..MaxMounted
      /\ i \in Slots => f.mounted[i] = None
      /\ \A j \in 0..(i - 1) : f.mounted[j] # None
  BY FirstFreeIs
<1>2. Mount(f, m, ok) = IF i = MaxMounted \/ ~ok THEN [ret |-> -1, fs |-> f]
                        ELSE [ret |-> i, fs |-> [f EXCEPT !.mounted[i] = m]]
  BY DEF Mount, Failed
<1> HIDE DEF i
<1>3. CASE i = MaxMounted \/ ~ok
  BY <1>2, <1>3, FileSystemIs DEF Mounts
<1>4. CASE i # MaxMounted /\ ok
  <2>1. i \in Slots /\ f.mounted[i] = None
    BY <1>1, <1>4, SlotsAre
  <2>2. f.mounted[0] = None \/ f.mounted[1] = None => i \in {0, 1}
    BY <1>1, <2>1, SlotsAre
  <2>3. [f EXCEPT !.mounted[i] = m] \in FileSystems
    BY <2>1 DEF FileSystems
  <2>4. Mount(f, m, ok) = [ret |-> i, fs |-> [f EXCEPT !.mounted[i] = m]]
    BY <1>2, <1>4
  <2>5. [f EXCEPT !.mounted[i] = m].mounted = [f.mounted EXCEPT ![i] = m]
        /\ [f EXCEPT !.mounted[i] = m].logfs = f.logfs
        /\ [f EXCEPT !.mounted[i] = m].servers = f.servers
    BY DEF FileSystems
  <2>6. i # -1
    BY <2>1, SlotsAre
  <2> DEFINE g == [f EXCEPT !.mounted[i] = m]
  <2>7. Mount(f, m, ok).ret = i /\ Mount(f, m, ok).fs = g
    BY <2>4
  <2> HIDE DEF g
  <2>8. g \in FileSystems /\ g.mounted = [f.mounted EXCEPT ![i] = m]
        /\ g.logfs = f.logfs /\ g.servers = f.servers
    BY <2>3, <2>5 DEF g
  <2> QED BY <2>1, <2>2, <2>6, <2>7, <2>8 DEF Mounts
<1> QED BY <1>3, <1>4

(* A device is started and mounted. *)
LEMMA FatMountIs ==
  ASSUME NEW f \in FileSystems, NEW d \in Disks, NEW device
  PROVE  Mounts(f, FatMount(f, d, device), {Fat(d)})
<1> DEFINE started == InitDisc(f, d, device # "absent")
           i == FirstFree(f.disk)
<1>1. i \in 0..MaxMounted
  BY FirstFreeIs
<1>2. CASE i = MaxMounted \/ device = "absent"
  <2>1. started = [ret |-> -1, fs |-> f]
    BY <1>2 DEF InitDisc, Failed
  <2>2. FatMount(f, d, device) = [ret |-> -1, fs |-> f]
    BY <2>1 DEF FatMount
  <2> QED BY <2>2 DEF Mounts
<1>3. CASE i # MaxMounted /\ device # "absent"
  <2> DEFINE g == [f EXCEPT !.disk[i] = d]
  <2>1. i \in Slots
    BY <1>1, <1>3, SlotsAre
  <2>2. started = [ret |-> i, fs |-> g]
    BY <1>3 DEF InitDisc
  <2>3. g \in FileSystems /\ g.mounted = f.mounted /\ g.logfs = f.logfs
    BY <2>1 DEF FileSystems
  <2>4. ~(i < 0)
    BY <2>1, SlotsAre
  <2>5. FatMount(f, d, device) = Mount(g, Fat(d), device = "fat")
    BY <2>2, <2>4 DEF FatMount
  <2>6. Fat(d) \in MountPoints
    BY DEF Fat, MountPoints, Disks
  <2> HIDE DEF g, i, started
  <2>7. Mounts(g, Mount(g, Fat(d), device = "fat"), {Fat(d)})
    BY <2>3, <2>6, MountIs
  <2> QED BY <2>3, <2>5, <2>7 DEF Mounts
<1> QED BY <1>2, <1>3

(* A server is mounted. *)
LEMMA RiiFSMountIs ==
  ASSUME NEW f \in FileSystems, NEW answers \in BOOLEAN
  PROVE  Mounts(f, RiiFSMount(f, answers), Servers)
<1> DEFINE m == Net(f.servers + 1)
           r == Mount(f, m, answers)
<1>1. m \in Servers /\ m \in MountPoints
  BY FileSystemIs DEF Net, MountPoints, Servers
<1> HIDE DEF m
<1>2. Mounts(f, r, {m}) /\ r.fs.servers = f.servers
  BY <1>1, MountIs
<1>3. RiiFSMount(f, answers) = IF r.ret < 0 THEN r ELSE [r EXCEPT !.fs.servers = @ + 1]
  BY DEF RiiFSMount, m
<1>4. CASE r.ret < 0
  BY <1>1, <1>2, <1>3, <1>4 DEF Mounts
<1>5. CASE ~(r.ret < 0)
  <2> DEFINE g == [r.fs EXCEPT !.servers = @ + 1]
  <2>1. r = [ret |-> r.ret, fs |-> r.fs]
    BY DEF Mount, Failed
  <2>2. RiiFSMount(f, answers) = [ret |-> r.ret, fs |-> g]
    BY <1>3, <1>5, <2>1
  <2> HIDE DEF r
  <2>3. g \in FileSystems /\ g.mounted = r.fs.mounted /\ g.logfs = r.fs.logfs
    BY <1>2 DEF Mounts, FileSystems
  <2> HIDE DEF g
  <2> QED BY <1>1, <1>2, <2>2, <2>3 DEF Mounts
<1> QED BY <1>4, <1>5

(* Unmount leaves the slot empty, and LogFS does not point to it. *)
LEMMA UnmountIs ==
  ASSUME NEW f \in FileSystems, NEW i
  PROVE  /\ Unmount(f, i).fs \in FileSystems
         /\ Unmount(f, i).fs.mounted = [f.mounted EXCEPT ![i] = None]
         /\ Unmount(f, i).fs.logfs \in {f.logfs, -1}
         /\ i \in Slots => Unmount(f, i).fs.logfs # i \/ f.mounted[i] = None
<1>1. CASE f.mounted[i] = None
  <2>1. [f.mounted EXCEPT ![i] = None] = f.mounted
    BY <1>1, FileSystemIs
  <2> QED BY <1>1, <2>1 DEF Unmount, Failed
<1>2. CASE f.mounted[i] # None
  <2> DEFINE g == [f EXCEPT !.mounted[i] = None, !.logfs = ResetLog(f, i),
                            !.default = ResetDefault(f, i)]
  <2>1. Unmount(f, i).fs = g
    BY <1>2 DEF Unmount
  <2>2. /\ ResetDefault(f, i) \in Slots /\ ResetLog(f, i) \in {f.logfs, -1}
        /\ i \in Slots => ResetLog(f, i) # i
    BY SlotsAre, FileSystemIs DEF ResetDefault, ResetLog
  <2>3. g \in FileSystems /\ g.mounted = [f.mounted EXCEPT ![i] = None]
        /\ g.logfs = ResetLog(f, i)
    BY <2>2 DEF FileSystems
  <2> QED BY <2>1, <2>2, <2>3
<1> QED BY <1>1, <1>2

(* The slot that a path leads to. *)
LEMMA ServingIs ==
  ASSUME NEW f \in FileSystems, NEW path
  PROVE  ServingSlot(f, path) \in Slots
<1>1. CASE \E i \in Slots : Serves(f, i, path)
  <2> DEFINE T == {i \in Slots : Serves(f, i, path)}
  <2>1. T \subseteq Nat /\ T # {}
    BY <1>1, SlotsAre
  <2>2. PICK x \in T : \A y \in T : x <= y
    BY <2>1, Smallest
  <2>3. \A j \in 0..(x - 1) : j \in Slots /\ ~(x <= j)
    BY <2>1, <2>2, FileModuleAssumption DEF Slots
  <2>4. \A j \in 0..(x - 1) : ~Serves(f, j, path)
    BY <2>2, <2>3
  <2> HIDE DEF Slots
  <2> QED BY <1>1, <2>2, <2>4 DEF ServingSlot
<1>2. CASE ~\E i \in Slots : Serves(f, i, path)
  BY <1>2, FileSystemIs DEF ServingSlot
<1> QED BY <1>1, <1>2

(* SetDefault and SetLogFS do not touch the table. *)
LEMMA SetDefaultIs ==
  ASSUME NEW f \in FileSystems, NEW i \in Slots
  PROVE  /\ SetDefault(f, i).fs \in FileSystems
         /\ SetDefault(f, i).fs.mounted = f.mounted /\ SetDefault(f, i).fs.logfs = f.logfs
BY DEF SetDefault, Failed, FileSystems

(* The slot that takes the log is mounted. *)
LEMMA SetLogIs ==
  ASSUME NEW f \in FileSystems, NEW i \in Slots, f.mounted[i] # None
  PROVE  /\ SetLogFS(f, i).fs \in FileSystems
         /\ SetLogFS(f, i).fs.mounted = f.mounted /\ SetLogFS(f, i).fs.logfs = i
BY DEF SetLogFS, Failed, FileSystems
(* The kinds of mount points differ, and None is none of them. *)
LEMMA Distinct ==
  /\ \A d \in Disks : Fat(d) \notin Servers /\ Fat(d) # Isfs /\ Fat(d) # None
  /\ Isfs \notin Servers /\ None \notin Servers /\ Isfs # None
  /\ Servers \subseteq MountPoints /\ \A d \in Disks : Fat(d) \in MountPoints
<1>1. Servers \subseteq MountPoints /\ Isfs \in MountPoints /\ \A d \in Disks : Fat(d) \in MountPoints
  BY DEF Servers, MountPoints, Isfs, Fat, Disks
<1>2. \A d \in Disks : Fat(d) \notin Servers /\ Fat(d) # Isfs
  BY DEF Servers, Isfs, Fat, Disks
<1>3. Isfs \notin Servers
  BY DEF Servers, Isfs
<1> QED BY <1>1, <1>2, <1>3, FileModuleAssumption

(* The members of a list with one more. *)
LEMMA InRangeIs ==
  /\ InRange(<<>>) = {}
  /\ \A s \in Seq(Slots), i \in Slots : InRange(Append(s, i)) = InRange(s) \union {i}
<1>1. InRange(<<>>) = {}
  BY DEF InRange
<1>2. ASSUME NEW s \in Seq(Slots), NEW i \in Slots
      PROVE  InRange(Append(s, i)) = InRange(s) \union {i}
  <2>1. /\ DOMAIN s = 1..Len(s) /\ DOMAIN Append(s, i) = 1..(Len(s) + 1) /\ Len(s) \in Nat
        /\ \A k \in 1..Len(s) : Append(s, i)[k] = s[k]
        /\ Append(s, i)[Len(s) + 1] = i
    OBVIOUS
  <2>2. 1..(Len(s) + 1) = 1..Len(s) \union {Len(s) + 1}
    BY <2>1
  <2> QED BY <2>1, <2>2 DEF InRange
<1> QED BY <1>1, <1>2

(* Erasing a slot once loses no other slot. *)
LEMMA WithoutIs ==
  ASSUME NEW s \in Seq(Slots), NEW i
  PROVE  /\ Without(s, i) \in Seq(Slots)
         /\ InRange(s) \ {i} \subseteq InRange(Without(s, i))
         /\ s = <<>> => Without(s, i) = <<>>
<1>1. CASE i \notin InRange(s)
  BY <1>1 DEF Without
<1>2. CASE i \in InRange(s)
  <2> DEFINE T == {k \in DOMAIN s : s[k] = i}
  <2>1. DOMAIN s = 1..Len(s) /\ Len(s) \in Nat /\ \A k \in DOMAIN s : s[k] \in Slots
    OBVIOUS
  <2>2. PICK x \in T : \A y \in T : x <= y
    <3>1. T \subseteq Nat /\ T # {}
      BY <1>2, <2>1 DEF InRange
    <3> QED BY <3>1, Smallest
  <2>3. x \in DOMAIN s /\ s[x] = i /\ \A j \in 1..(x - 1) : s[j] # i
    <3>1. \A j \in 1..(x - 1) : j \in DOMAIN s /\ ~(x <= j)
      BY <2>1, <2>2
    <3> QED BY <2>2, <3>1
  <2> DEFINE k == CHOOSE k \in DOMAIN s : s[k] = i /\ \A j \in 1..(k - 1) : s[j] # i
             t == [j \in 1..(Len(s) - 1) |-> IF j < k THEN s[j] ELSE s[j + 1]]
  <2>4. k \in DOMAIN s /\ s[k] = i
    BY <2>3
  <2>5. Without(s, i) = t
    BY <1>2 DEF Without
  <2> HIDE DEF k
  <2>6. k \in 1..Len(s) /\ Len(s) - 1 \in Nat
    BY <2>1, <2>4
  <2>7. t \in Seq(Slots)
    <3>1. \A j \in 1..(Len(s) - 1) : j \in DOMAIN s /\ j + 1 \in DOMAIN s
      BY <2>1
    <3>2. t \in [1..(Len(s) - 1) -> Slots]
      BY <2>1, <3>1
    <3> HIDE DEF t
    <3> QED BY <2>6, <3>2
  <2>8. ASSUME NEW x1 \in InRange(s) \ {i} PROVE x1 \in InRange(t)
    <3>1. PICK n \in 1..Len(s) : s[n] = x1
      BY <2>1 DEF InRange
    <3>2. n # k
      BY <2>4, <3>1
    <3>3. CASE n < k
      <4>1. n \in DOMAIN t /\ t[n] = x1
        BY <2>6, <3>1, <3>3
      <4> QED BY <4>1 DEF InRange
    <3>4. CASE n > k
      <4>1. n - 1 \in DOMAIN t /\ t[n - 1] = x1
        BY <2>6, <3>1, <3>4
      <4> QED BY <4>1 DEF InRange
    <3> QED BY <2>6, <3>2, <3>3, <3>4
  <2>9. s # <<>>
    BY <1>2 DEF InRange
  <2> QED BY <2>5, <2>7, <2>8, <2>9
<1> QED BY <1>1, <1>2

(* A filesystem is mounted in a slot that was free. *)
LEMMA Added ==
  ASSUME NEW f \in FileSystems, NEW g \in FileSystems, NEW i \in Slots, NEW m \in MountPoints,
         f.mounted[i] = None, g.mounted = [f.mounted EXCEPT ![i] = m],
         g.logfs \in {f.logfs, i}
  PROVE  /\ Logged(f) => Logged(g)
         /\ FatLow(f) /\ (m \in Servers \/ i \in {0, 1}) => FatLow(g)
         /\ \A c \in [slot : Slots, home : MountPoints] : Home(f, c) => Home(g, c)
         /\ \A t \in Seq(Slots) : Listed(f, t) => Listed(g, Append(t, i))
         /\ m \notin Servers => \A t : Listed(f, t) => Listed(g, t)
<1>1. /\ f.mounted \in [Slots -> MountPoints \union {None}] /\ f.logfs \in Slots \union {-1}
      /\ g.mounted[i] = m /\ \A j \in Slots : j # i => g.mounted[j] = f.mounted[j]
  BY FileSystemIs
<1>2. m # None
  BY FileModuleAssumption
<1>3. Logged(f) => Logged(g)
  BY <1>1, <1>2 DEF Logged
<1>4. FatLow(f) /\ (m \in Servers \/ i \in {0, 1}) => FatLow(g)
  BY <1>1, Distinct DEF FatLow
<1>5. ASSUME NEW c \in [slot : Slots, home : MountPoints], Home(f, c) PROVE Home(g, c)
  <2>1. c.slot \in Slots /\ c.home # None
    BY FileModuleAssumption
  <2> QED BY <1>1, <1>5, <2>1 DEF Home
<1>6. \A t \in Seq(Slots) : Listed(f, t) => Listed(g, Append(t, i))
  BY <1>1, InRangeIs DEF Listed
<1>7. m \notin Servers => \A t : Listed(f, t) => Listed(g, t)
  BY <1>1 DEF Listed
<1> QED BY <1>3, <1>4, <1>5, <1>6, <1>7

(* A slot is unmounted. *)
LEMMA Removed ==
  ASSUME NEW f \in FileSystems, NEW i, Logged(f), FatLow(f)
  PROVE  LET g == Unmount(f, i).fs IN
         /\ g \in FileSystems /\ Logged(g) /\ FatLow(g)
         /\ i \in {0, 1} => LowFree(g)
         /\ \A t \in Seq(Slots) : Listed(f, t) => Listed(g, t) /\ Listed(g, Without(t, i))
         /\ \A c \in [slot : Slots, home : MountPoints] : c.slot # i /\ Home(f, c) => Home(g, c)
         /\ \A d \in Disks : /\ i \in Slots => g.mounted[i] # Fat(d)
                            /\ \A j \in Slots : f.mounted[j] # Fat(d) => g.mounted[j] # Fat(d)
<1> DEFINE g == Unmount(f, i).fs
<1>1. /\ g \in FileSystems /\ g.mounted = [f.mounted EXCEPT ![i] = None]
      /\ g.logfs \in {f.logfs, -1}
      /\ i \in Slots => g.logfs # i \/ f.mounted[i] = None
  BY UnmountIs
<1> HIDE DEF g
<1>2. /\ f.mounted \in [Slots -> MountPoints \union {None}] /\ f.logfs \in Slots \union {-1}
      /\ i \in Slots => g.mounted[i] = None
      /\ \A j \in Slots : j # i => g.mounted[j] = f.mounted[j]
  BY <1>1, FileSystemIs
<1>3. Logged(g)
  BY <1>1, <1>2, SlotsAre DEF Logged
<1>4. FatLow(g)
  BY <1>2, Distinct DEF FatLow
<1>5. i \in {0, 1} => LowFree(g)
  BY <1>2, SlotsAre DEF LowFree
<1>6. ASSUME NEW t \in Seq(Slots), Listed(f, t) PROVE Listed(g, t) /\ Listed(g, Without(t, i))
  BY <1>2, <1>6, Distinct, WithoutIs DEF Listed
<1>7. ASSUME NEW c \in [slot : Slots, home : MountPoints], c.slot # i, Home(f, c) PROVE Home(g, c)
  BY <1>2, <1>7 DEF Home
<1>8. \A d \in Disks : /\ i \in Slots => g.mounted[i] # Fat(d)
                      /\ \A j \in Slots : f.mounted[j] # Fat(d) => g.mounted[j] # Fat(d)
  BY <1>2, Distinct
<1> QED BY <1>1, <1>3, <1>4, <1>5, <1>6, <1>7, <1>8 DEF g
-----------------------------------------------------------------------------
(* The file module as it starts. *)
LEMMA StartedIs ==
  Started \in FileSystems /\ Logged(Started) /\ FatLow(Started) /\ LowFree(Started)
  /\ Listed(Started, <<>>)
<1>1. Started \in FileSystems
  BY SlotsAre DEF Started, FileSystems, MountPoints, Isfs
<1>2. /\ Started.logfs = -1
      /\ \A i \in Slots : Started.mounted[i] = IF i = 0 THEN Isfs ELSE None
  BY DEF Started
<1> QED BY <1>1, <1>2, SlotsAre, Distinct DEF Logged, FatLow, LowFree, Listed

(* main enters the menu with the file module just started. *)
LEMMA SessionInit == Init => SessionInv
<1> SUFFICES ASSUME Init PROVE SessionInv
  OBVIOUS
<1>1. fs = Started /\ pc = "sd" /\ tomount = <<>> /\ choices = {} /\ used = {}
  BY DEF Init
<1> QED BY <1>1, StartedIs
        DEF SessionInv, ModuleInv, ChoicesInv, NetworkInv, DevicesInv, Launched

(* The console is switched off: everything is as at first. *)
LEMMA PowerOffKeeps == PowerOff => SessionInv'
<1> SUFFICES ASSUME PowerOff PROVE SessionInv'
  OBVIOUS
<1>1. fs' = Started /\ pc' = "sd" /\ tomount' = <<>> /\ choices' = {} /\ used' = {}
  BY DEF PowerOff
<1> QED BY <1>1, StartedIs
        DEF SessionInv, ModuleInv, ChoicesInv, NetworkInv, DevicesInv, Launched

(* DEFAULT() does not touch the table. *)
LEMMA WithDefaultIs ==
  ASSUME NEW f \in FileSystems, NEW i \in Slots
  PROVE  /\ WithDefault(f, i) \in FileSystems
         /\ WithDefault(f, i).mounted = f.mounted /\ WithDefault(f, i).logfs = f.logfs
BY SetDefaultIs DEF WithDefault

(* A device is mounted, and a slot unmounted by the number of the device. *)
LEMMA MountFatKeeps ==
  ASSUME SessionInv, NEW d \in Disks, MountFat(d)
  PROVE  SessionInv'
<1>1. /\ pc \in {"sd", "usb"} /\ pc' \in {"usb", "broadcast"}
      /\ UNCHANGED <<tomount, used, choices>>
  BY DEF MountFat, Disks
<1>2. /\ fs \in FileSystems /\ Logged(fs) /\ FatLow(fs) /\ LowFree(fs)
      /\ tomount \in Seq(Slots) /\ Listed(fs, tomount)
  BY <1>1 DEF SessionInv, ModuleInv, NetworkInv
<1>3. PICK device \in {"absent", "blank", "fat"} :
        LET r == FatMount(fs, d, device) IN
        \/ r.ret < 0 /\ fs' = r.fs
        \/ ~(r.ret < 0) /\ fs' = Unmount(WithDefault(r.fs, r.ret), DiskNumber(d)).fs
  BY DEF MountFat
<1> DEFINE r == FatMount(fs, d, device)
<1>4. Mounts(fs, r, {Fat(d)})
  BY <1>2, FatMountIs
<1> HIDE DEF r
<1>5. /\ fs' \in FileSystems /\ Logged(fs') /\ FatLow(fs') /\ LowFree(fs')
      /\ Listed(fs', tomount)
  <2>1. CASE r.ret < 0 /\ fs' = r.fs
    <3>1. r.ret = -1
      BY <1>4, <2>1, SlotsAre DEF Mounts
    <3>2. fs' \in FileSystems /\ fs'.mounted = fs.mounted /\ fs'.logfs = fs.logfs
      BY <1>4, <2>1, <3>1 DEF Mounts
    <3> QED BY <1>2, <3>2 DEF Logged, FatLow, LowFree, Listed
  <2>2. CASE ~(r.ret < 0) /\ fs' = Unmount(WithDefault(r.fs, r.ret), DiskNumber(d)).fs
    <3>1. r.ret # -1 /\ r.ret \in Slots
      BY <1>4, <2>2 DEF Mounts
    <3> DEFINE f == WithDefault(r.fs, r.ret)
    <3>2. /\ f \in FileSystems /\ f.logfs = fs.logfs /\ fs.mounted[r.ret] = None
          /\ r.ret \in {0, 1} /\ f.mounted = [fs.mounted EXCEPT ![r.ret] = Fat(d)]
      <4>1. r.fs \in FileSystems
        BY <1>4 DEF Mounts
      <4> QED BY <1>2, <1>4, <3>1, <4>1, WithDefaultIs DEF Mounts, LowFree
    <3> HIDE DEF f
    <3>3. Fat(d) \notin Servers /\ Fat(d) \in MountPoints
      BY Distinct
    <3>4. Logged(f) /\ FatLow(f) /\ Listed(f, tomount)
      BY <1>2, <3>1, <3>2, <3>3, Added
    <3>5. DiskNumber(d) \in {0, 1} /\ fs' = Unmount(f, DiskNumber(d)).fs
      BY <2>2 DEF DiskNumber, f
    <3> QED BY <1>2, <3>2, <3>4, <3>5, Removed
  <2> QED BY <1>3, <2>1, <2>2 DEF r
<1> QED BY <1>1, <1>2, <1>5
        DEF SessionInv, ModuleInv, ChoicesInv, NetworkInv, DevicesInv, Launched

(* A server is mounted, and takes the log or does not. *)
LEMMA ServerAdded ==
  ASSUME ModuleInv, NetworkInv, NEW answers \in BOOLEAN, RiiFSMount(fs, answers).ret >= 0,
         NEW g \in FileSystems,
         LET r == RiiFSMount(fs, answers) IN
         g.mounted = r.fs.mounted /\ g.logfs \in {r.fs.logfs, r.ret}
  PROVE  LET i == RiiFSMount(fs, answers).ret IN
         /\ i \in Slots /\ Logged(g) /\ FatLow(g)
         /\ Listed(g, Append(tomount, i)) /\ Append(tomount, i) \in Seq(Slots)
         /\ \A c \in [slot : Slots, home : MountPoints] : Home(fs, c) => Home(g, c)
<1> DEFINE r == RiiFSMount(fs, answers)
<1>1. Mounts(fs, r, Servers) /\ fs \in FileSystems
  BY RiiFSMountIs DEF ModuleInv
<1> HIDE DEF r
<1>2. r.ret \in Slots /\ r.ret # -1
  BY <1>1 DEF Mounts, r
<1>3. PICK m \in Servers : g.mounted = [fs.mounted EXCEPT ![r.ret] = m]
  BY <1>1, <1>2 DEF Mounts, r
<1>4. m \in MountPoints /\ fs.mounted[r.ret] = None /\ g.logfs \in {fs.logfs, r.ret}
  BY <1>1, <1>2, Distinct DEF Mounts, r
<1>5. Logged(fs) /\ FatLow(fs) /\ tomount \in Seq(Slots) /\ Listed(fs, tomount)
  BY DEF ModuleInv, NetworkInv
<1>6. /\ Logged(g) /\ FatLow(g) /\ Listed(g, Append(tomount, r.ret))
      /\ \A c \in [slot : Slots, home : MountPoints] : Home(fs, c) => Home(g, c)
  BY <1>1, <1>2, <1>3, <1>4, <1>5, Added
<1>7. Append(tomount, r.ret) \in Seq(Slots)
  BY <1>2, <1>5
<1> QED BY <1>2, <1>6, <1>7 DEF r

(* A server that answers the broadcast, and the retry. *)
LEMMA MountBroadcastKeeps ==
  ASSUME SessionInv, MountBroadcast
  PROVE  SessionInv'
<1>1. /\ pc = "broadcast" /\ pc' \in {"sd", "init"} /\ UNCHANGED <<choices, used>>
      /\ pc' = IF mounts' = <<>> THEN "sd" ELSE "init"
  BY DEF MountBroadcast
<1>2. ModuleInv /\ NetworkInv /\ ChoicesInv
  BY DEF SessionInv
<1>3. PICK answers \in BOOLEAN :
        LET r == RiiFSMount(fs, answers) IN
        \/ r.ret < 0 /\ UNCHANGED <<fs, mounts, tomount>>
        \/ /\ ~(r.ret < 0) /\ mounts' = Append(mounts, r.ret)
           /\ tomount' = Append(tomount, r.ret)
           /\ fs' = WithDefault(IF hasdefault THEN r.fs ELSE SetLogFS(r.fs, r.ret).fs, r.ret)
  BY DEF MountBroadcast, Answers
<1> DEFINE r == RiiFSMount(fs, answers)
<1>4. CASE r.ret < 0 /\ UNCHANGED <<fs, mounts, tomount>>
  BY <1>1, <1>2, <1>4
     DEF SessionInv, ModuleInv, ChoicesInv, NetworkInv, DevicesInv, Launched
<1>5. CASE /\ ~(r.ret < 0) /\ mounts' = Append(mounts, r.ret)
           /\ tomount' = Append(tomount, r.ret)
           /\ fs' = WithDefault(IF hasdefault THEN r.fs ELSE SetLogFS(r.fs, r.ret).fs, r.ret)
  <2>1. Mounts(fs, r, Servers)
    BY <1>2, RiiFSMountIs DEF ModuleInv
  <2> HIDE DEF r
  <2>2. /\ r.ret \in Slots /\ r.ret >= 0 /\ r.fs \in FileSystems /\ r.fs.mounted[r.ret] # None
    <3>1. r.ret \in Slots /\ r.ret >= 0 /\ r.fs \in FileSystems /\ r.ret # -1
      BY <1>5, <2>1, SlotsAre DEF Mounts
    <3>2. PICK m \in Servers : r.fs.mounted = [fs.mounted EXCEPT ![r.ret] = m]
      BY <2>1, <3>1 DEF Mounts
    <3>3. fs.mounted \in [Slots -> MountPoints \union {None}]
      BY <1>2, FileSystemIs DEF ModuleInv
    <3> QED BY <3>1, <3>2, <3>3, Distinct
  <2>3. /\ fs' \in FileSystems /\ fs'.mounted = r.fs.mounted
        /\ fs'.logfs \in {r.fs.logfs, r.ret}
    BY <1>5, <2>2, SetLogIs, WithDefaultIs
  <2>4. /\ Logged(fs') /\ FatLow(fs') /\ Listed(fs', tomount') /\ tomount' \in Seq(Slots)
        /\ \A c \in [slot : Slots, home : MountPoints] : Home(fs, c) => Home(fs', c)
    BY <1>2, <1>5, <2>2, <2>3, ServerAdded DEF r
  <2>5. pc' = "init"
    BY <1>1, <1>5
  <2> QED BY <1>1, <1>2, <2>3, <2>4, <2>5
          DEF SessionInv, ModuleInv, ChoicesInv, NetworkInv, DevicesInv, Launched
<1> QED BY <1>3, <1>4, <1>5

(* A network element. *)
LEMMA MountNetworkKeeps ==
  ASSUME SessionInv, MountNetwork
  PROVE  SessionInv'
<1>1. pc = "init" /\ UNCHANGED <<pc, choices, used>>
  BY DEF MountNetwork
<1>2. ModuleInv /\ NetworkInv /\ ChoicesInv
  BY DEF SessionInv
<1>3. PICK answers \in BOOLEAN, log \in BOOLEAN :
        LET r == RiiFSMount(fs, answers) IN
        /\ r.ret >= 0
        /\ fs' = IF log THEN SetLogFS(r.fs, r.ret).fs ELSE r.fs
        /\ tomount' = Append(tomount, r.ret)
  BY DEF MountNetwork, Answers
<1> DEFINE r == RiiFSMount(fs, answers)
<1>4. Mounts(fs, r, Servers)
  BY <1>2, RiiFSMountIs DEF ModuleInv
<1>5. r.ret >= 0 /\ tomount' = Append(tomount, r.ret)
  BY <1>3
<1> HIDE DEF r
<1>6. r.ret \in Slots /\ r.fs \in FileSystems /\ r.fs.mounted[r.ret] # None
  <2>1. r.ret \in Slots /\ r.fs \in FileSystems /\ r.ret # -1
    BY <1>4, <1>5, SlotsAre DEF Mounts
  <2>2. PICK m \in Servers : r.fs.mounted = [fs.mounted EXCEPT ![r.ret] = m]
    BY <1>4, <2>1 DEF Mounts
  <2>3. fs.mounted \in [Slots -> MountPoints \union {None}]
    BY <1>2, FileSystemIs DEF ModuleInv
  <2> QED BY <2>1, <2>2, <2>3, Distinct
<1>7. /\ fs' \in FileSystems /\ fs'.mounted = r.fs.mounted
      /\ fs'.logfs \in {r.fs.logfs, r.ret}
  BY <1>3, <1>6, SetLogIs DEF r
<1>8. /\ Logged(fs') /\ FatLow(fs') /\ Listed(fs', tomount') /\ tomount' \in Seq(Slots)
  BY <1>2, <1>5, <1>7, ServerAdded DEF r
<1> QED BY <1>1, <1>2, <1>7, <1>8
        DEF SessionInv, ModuleInv, ChoicesInv, NetworkInv, DevicesInv, Launched

(* The choices are those of the filesystems that are mounted now. *)
LEMMA EndInitKeeps ==
  ASSUME SessionInv, EndInit
  PROVE  SessionInv'
<1>1. /\ pc = "init" /\ pc' = "menu" /\ UNCHANGED <<fs, tomount, used>>
      /\ choices' = {[slot |-> i, home |-> fs.mounted[i]] : i \in XmlSlots}
  BY DEF EndInit
<1>2. ModuleInv /\ NetworkInv /\ ChoicesInv
  BY DEF SessionInv
<1>3. \A i \in XmlSlots : i \in Slots /\ fs.mounted[i] \in MountPoints
  BY <1>2, FileSystemIs DEF XmlSlots, ModuleInv
<1>4. choices' \subseteq [slot : Slots, home : MountPoints] /\ \A c \in choices' : Home(fs', c)
  BY <1>1, <1>3 DEF Home
<1>5. used' = {}
  BY <1>1, <1>2 DEF ChoicesInv, Launched
<1> QED BY <1>1, <1>2, <1>4, <1>5
        DEF SessionInv, ModuleInv, ChoicesInv, NetworkInv, DevicesInv, Launched

(* RVL_Patch sets the default filesystem only. *)
LEMMA PatchKeeps ==
  ASSUME SessionInv, Patch
  PROVE  SessionInv'
<1>1. /\ pc = "menu" /\ pc' = "apploader" /\ UNCHANGED <<tomount, choices>>
      /\ used' \subseteq choices
  BY DEF Patch
<1>2. ModuleInv /\ NetworkInv /\ ChoicesInv
  BY DEF SessionInv
<1>3. fs' \in FileSystems /\ fs'.mounted = fs.mounted /\ fs'.logfs = fs.logfs
  <2>1. \/ fs' = fs
        \/ \E slot \in Slots : /\ fs.mounted[slot] # None
                               /\ fs' = SetDefaultPath(fs, fs.mounted[slot]).fs
    BY DEF Patch
  <2>2. fs \in FileSystems
    BY <1>2 DEF ModuleInv
  <2> QED BY <2>1, <2>2, ServingIs, SetDefaultIs DEF SetDefaultPath
<1>4. Logged(fs') /\ FatLow(fs') /\ Listed(fs', tomount)
  BY <1>2, <1>3 DEF ModuleInv, NetworkInv, Logged, FatLow, Listed
<1>5. \A c \in used' : Home(fs', c)
  BY <1>1, <1>2, <1>3 DEF ChoicesInv, Home
<1> QED BY <1>1, <1>2, <1>3, <1>4, <1>5
        DEF SessionInv, ModuleInv, ChoicesInv, NetworkInv, DevicesInv, Launched

(* The game is patched if ToMount has a server. *)
LEMMA EndApploaderKeeps ==
  ASSUME SessionInv, EndApploader
  PROVE  SessionInv'
<1>1. /\ pc = "apploader" /\ pc' = "unmount" /\ UNCHANGED <<fs, tomount, choices, used, network>>
      /\ patched' = (tomount # <<>>)
  BY DEF EndApploader
<1> QED BY <1>1 DEF SessionInv, ModuleInv, ChoicesInv, NetworkInv, DevicesInv, Launched

(* A slot that no used choice came from is unmounted. *)
LEMMA UnmountNextKeeps ==
  ASSUME SessionInv, UnmountNext
  PROVE  SessionInv'
<1> DEFINE i == mounts[at]
<1>1. pc = "unmount" /\ UNCHANGED <<pc, choices, used, network, patched>>
  BY DEF UnmountNext
<1>2. ModuleInv /\ NetworkInv /\ ChoicesInv
  BY DEF SessionInv
<1>3. CASE StaysMounted(i)
  <2>1. UNCHANGED <<fs, tomount>>
    BY <1>3 DEF UnmountNext
  <2> QED BY <1>1, <1>2, <2>1
          DEF SessionInv, ModuleInv, ChoicesInv, NetworkInv, DevicesInv, Launched
<1>4. CASE ~StaysMounted(i)
  <2>1. fs' = Unmount(fs, i).fs /\ tomount' = Without(tomount, i)
    BY <1>4 DEF UnmountNext
  <2>2. \A c \in used : c.slot # i
    BY <1>4 DEF StaysMounted, UsedSlots
  <2> HIDE DEF i
  <2>3. /\ fs \in FileSystems /\ Logged(fs) /\ FatLow(fs)
        /\ tomount \in Seq(Slots) /\ Listed(fs, tomount)
        /\ used \subseteq [slot : Slots, home : MountPoints]
        /\ \A c \in used : Home(fs, c)
    BY <1>1, <1>2 DEF ModuleInv, NetworkInv, ChoicesInv, Launched
  <2>4. /\ fs' \in FileSystems /\ Logged(fs') /\ FatLow(fs') /\ Listed(fs', tomount')
        /\ \A c \in used : Home(fs', c)
    BY <2>1, <2>2, <2>3, Removed
  <2>5. tomount' \in Seq(Slots) /\ (tomount = <<>> => tomount' = <<>>)
    BY <2>1, <2>3, WithoutIs
  <2> QED BY <1>1, <1>2, <2>4, <2>5
          DEF SessionInv, ModuleInv, ChoicesInv, NetworkInv, DevicesInv, Launched
<1> QED BY <1>3, <1>4

(* The network goes down only if ToMount is empty. *)
LEMMA LaunchKeeps ==
  ASSUME SessionInv, Launch
  PROVE  SessionInv'
<1>1. /\ pc = "unmount" /\ pc' = "game" /\ network' = (tomount # <<>>)
      /\ UNCHANGED <<fs, tomount, choices, used, patched>>
  BY DEF Launch
<1> QED BY <1>1 DEF SessionInv, ModuleInv, ChoicesInv, NetworkInv, DevicesInv, Launched

(* Both devices are unmounted, each by its number. *)
LEMMA ConfirmUpdateKeeps ==
  ASSUME SessionInv, ConfirmUpdate
  PROVE  SessionInv'
<1> DEFINE f == Unmount(fs, 0).fs
<1>1. /\ pc = "menu" /\ pc' = "update" /\ UNCHANGED <<tomount, choices, used>>
      /\ fs' = Unmount(f, 1).fs
  BY DEF ConfirmUpdate, HaxxUnMount, DiskNumber
<1>2. ModuleInv /\ NetworkInv /\ ChoicesInv
  BY DEF SessionInv
<1>3. /\ fs \in FileSystems /\ Logged(fs) /\ FatLow(fs)
      /\ tomount \in Seq(Slots) /\ Listed(fs, tomount)
  BY <1>2 DEF ModuleInv, NetworkInv
<1>4. /\ f \in FileSystems /\ Logged(f) /\ FatLow(f) /\ Listed(f, tomount)
      /\ \A d \in Disks : f.mounted[0] # Fat(d)
  BY <1>3, SlotsAre, Removed
<1> HIDE DEF f
<1>5. /\ fs' \in FileSystems /\ Logged(fs') /\ FatLow(fs') /\ Listed(fs', tomount)
      /\ \A d \in Disks : fs'.mounted[0] # Fat(d) /\ fs'.mounted[1] # Fat(d)
  BY <1>1, <1>3, <1>4, SlotsAre, Removed
<1>6. \A i \in Slots, d \in Disks : fs'.mounted[i] # Fat(d)
  BY <1>5 DEF FatLow
<1>7. used' = {}
  BY <1>1, <1>2 DEF ChoicesInv, Launched
<1> QED BY <1>1, <1>2, <1>5, <1>6, <1>7
        DEF SessionInv, ModuleInv, ChoicesInv, NetworkInv, DevicesInv, Launched

(* Steps that leave the mount table and the launcher's lists alone. *)
LEMMA OthersKeep ==
  ASSUME SessionInv, Eject \/ OpenFile \/ Update \/ Release \/ UNCHANGED vars
  PROVE  SessionInv'
<1>1. UNCHANGED <<fs, tomount, choices, used, network, patched>>
  BY DEF Eject, OpenFile, Update, Release, vars, menu
<1>2. UNCHANGED pc \/ (pc = "menu" /\ pc' = "init")
  BY DEF Eject, OpenFile, Update, Release, vars, menu
<1> QED BY <1>1, <1>2
        DEF SessionInv, ModuleInv, ChoicesInv, NetworkInv, DevicesInv, Launched

(* Every step keeps the invariant. *)
LEMMA SessionNext == SessionInv /\ [Next]_vars => SessionInv'
BY MountFatKeeps, MountBroadcastKeeps, MountNetworkKeeps, EndInitKeeps, PatchKeeps,
   EndApploaderKeeps, UnmountNextKeeps, LaunchKeeps, ConfirmUpdateKeeps, PowerOffKeeps, OthersKeep
   DEF Next

(* It holds always. *)
LEMMA SessionKeeps == Spec => []SessionInv
BY SessionInit, SessionNext, PTL DEF Spec
-----------------------------------------------------------------------------
(* "Only keep the filesystem mounted if a patch that needs to be running during
   the game is using it": those that are used are kept. *)
THEOREM UsedStay == Spec => []UsedStayMounted
<1>1. SessionInv => UsedStayMounted
  BY DEF SessionInv, ChoicesInv, UsedStayMounted, Home
<1> QED BY <1>1, SessionKeeps, PTL

(* Unmount resets LogFS, and only a filesystem that was just mounted gets it. *)
THEOREM LogMounted == Spec => []LogIsMounted
<1>1. SessionInv => LogIsMounted
  BY DEF SessionInv, ModuleInv, Logged, LogIsMounted
<1> QED BY <1>1, SessionKeeps, PTL

(* A server that is still mounted in the game has the network, and a game that
   leaves its sockets alone. *)
THEOREM NetworkStays == Spec => []NetworkForServers
<1>1. SessionInv => NetworkForServers
  <2> SUFFICES ASSUME SessionInv, pc = "game",
                      NEW i \in Slots, NEW n \in 1..MaxServers, fs.mounted[i] = Net(n)
               PROVE  network /\ patched
    BY DEF NetworkForServers
  <2>1. Net(n) \in Servers
    BY UpdaterAssumption DEF Net, Servers
  <2>2. tomount # <<>>
    BY <2>1, InRangeIs DEF SessionInv, NetworkInv, Listed
  <2> QED BY <2>2 DEF SessionInv, NetworkInv
<1> QED BY <1>1, SessionKeeps, PTL

(* While the updater writes with its own driver the file module has no device. *)
THEOREM DevicesOwned == Spec => []UpdaterOwnsDevices
<1>1. SessionInv => UpdaterOwnsDevices
  BY DEF SessionInv, DevicesInv, UpdaterOwnsDevices
<1> QED BY <1>1, SessionKeeps, PTL
-----------------------------------------------------------------------------
(* Every filesystem is mounted once, and servers have the numbers up to the
   last one given. *)
OneEach(f) ==
  /\ \A i, j \in Slots : f.mounted[i] = f.mounted[j] /\ f.mounted[i] # None => i = j
  /\ \A i \in Slots : f.mounted[i] \in Servers => f.mounted[i][2] <= f.servers
(* No FAT filesystem is mounted. *)
NoDevice(f) == \A i \in Slots, d \in Disks : f.mounted[i] # Fat(d)

(* A device is mounted only if it is not mounted yet, although MenuMount goes
   through the devices again while nothing is mounted. *)
TableInv ==
  /\ OneEach(fs)
  /\ pc \in {"sd", "usb", "broadcast"} => mounts \in Seq(Slots)
  /\ pc = "sd" => NoDevice(fs)
  /\ pc \in {"usb", "broadcast"} /\ mounts = <<>> => NoDevice(fs)
  /\ pc = "usb" => \A i \in Slots : fs.mounted[i] # Fat("usb")

(* The default filesystem is the common one from RVL_Patch on, and the files
   that are open belong to it, or to the filesystems of their choices. *)
CommonInv ==
  /\ ~Launched => common = None /\ open = {}
  /\ Launched /\ common # None =>
       \E slot \in Slots : /\ UsedSlots(used) = {slot} /\ fs.mounted[slot] = common
                           /\ Unambiguous => fs.default = slot
  /\ Unambiguous => open \subseteq {c.home : c \in used}

(* A filesystem that was not mounted is. *)
LEMMA OneMore ==
  ASSUME NEW f \in FileSystems, NEW g, NEW i \in Slots, NEW m, OneEach(f),
         g.mounted = [f.mounted EXCEPT ![i] = m],
         \A j \in Slots : f.mounted[j] # m, g.servers \in Nat, f.servers <= g.servers,
         m \in Servers => m[2] <= g.servers
  PROVE  OneEach(g)
<1>1. f.mounted \in [Slots -> MountPoints \union {None}] /\ f.servers \in Nat
      /\ g.mounted[i] = m /\ \A j \in Slots : j # i => g.mounted[j] = f.mounted[j]
  BY FileSystemIs
<1>2. \A j \in Slots : f.mounted[j] \in Servers => f.mounted[j][2] \in Nat
  BY DEF Servers
<1> QED BY <1>1, <1>2 DEF OneEach

(* A slot is unmounted. *)
LEMMA OneLess ==
  ASSUME NEW f \in FileSystems, NEW i, OneEach(f)
  PROVE  OneEach(Unmount(f, i).fs)
<1> DEFINE g == Unmount(f, i).fs
<1>1. g.mounted = [f.mounted EXCEPT ![i] = None]
  BY UnmountIs
<1>2. g.servers = f.servers
  BY DEF Unmount, Failed, FileSystems
<1>3. f.mounted \in [Slots -> MountPoints \union {None}]
  BY FileSystemIs
<1> HIDE DEF g
<1>4. \A j \in Slots : g.mounted[j] \in {f.mounted[j], None}
  BY <1>1, <1>3
<1>5. OneEach(g)
  BY <1>2, <1>4, Distinct DEF OneEach
<1> QED BY <1>5 DEF g

(* The default slot is left alone by the unmounting of another one. *)
LEMMA DefaultStays ==
  ASSUME NEW f \in FileSystems, NEW i
  PROVE  /\ f.default # i => Unmount(f, i).fs.default = f.default
         /\ Unmount(f, i).fs.servers = f.servers
BY DEF Unmount, Failed, ResetDefault, FileSystems

(* Small numbers do not begin each other. *)
LEMMA Digits ==
  ASSUME NEW a \in Nat \ {0}, NEW b \in Nat, b < Base
  PROVE  ~BeginsNumber(a, b)
<1>1. Base \in Nat /\ Base >= 2
  BY FileModuleAssumption
<1>2. \A x, y \in Nat : x >= 1 => x * y >= y /\ x * y \in Nat
  OBVIOUS
<1>3. Base * Base \in Nat /\ Base * Base >= Base
  BY <1>1, <1>2
<1>4. Base * Base * Base \in Nat /\ Base * Base * Base >= Base
  BY <1>1, <1>2, <1>3
<1>5. Base * Base * Base * Base \in Nat /\ Base * Base * Base * Base >= Base
  BY <1>1, <1>2, <1>3, <1>4
<1>6. ASSUME NEW p \in {Base, Base * Base, Base * Base * Base, Base * Base * Base * Base}
      PROVE  ~(a * p <= b)
  <2>1. p \in Nat /\ p >= Base
    BY <1>1, <1>3, <1>4, <1>5
  <2>2. a * p >= p /\ a * p \in Nat
    BY <1>2, <2>1
  <2> QED BY <1>1, <2>1, <2>2
<1> QED BY <1>6 DEF BeginsNumber

(* The path of a filesystem that is mounted leads to its slot. *)
LEMMA ServedBy ==
  ASSUME NEW f \in FileSystems, OneEach(f), f.servers < Base, NEW s \in Slots, f.mounted[s] # None
  PROVE  ServingSlot(f, f.mounted[s]) = s
<1> DEFINE path == f.mounted[s]
<1>1. ASSUME NEW i \in Slots, Serves(f, i, path) PROVE i = s
  <2>1. f.mounted[i] \in MountPoints /\ path \in MountPoints
    BY <1>1, FileSystemIs DEF Serves
  <2>2. CASE f.mounted[i] = path
    BY <2>2 DEF OneEach
  <2>3. CASE f.mounted[i] # path
    <3>1. /\ f.mounted[i][1] = "net" /\ path[1] = "net"
          /\ BeginsNumber(f.mounted[i][2], path[2])
      BY <1>1, <2>3 DEF Serves, Begins
    <3>2. f.mounted[i] \in Servers /\ path \in Servers
      BY <2>1, <3>1 DEF MountPoints, Servers
    <3>3. /\ f.mounted[i][2] \in Nat \ {0} /\ path[2] \in Nat
          /\ path[2] <= f.servers
      BY <3>2 DEF Servers, OneEach
    <3>4. path[2] < Base
      BY <3>3, FileSystemIs, FileModuleAssumption
    <3> QED BY <3>1, <3>3, <3>4, Digits
  <2> QED BY <2>2, <2>3
<1>2. Serves(f, s, path)
  BY DEF Serves, Begins
<1>3. \A j \in 0..(s - 1) : j \in Slots /\ j # s
  BY FileModuleAssumption DEF Slots
<1> HIDE DEF path
<1>4. ServingSlot(f, path) = s
  BY <1>1, <1>2, <1>3 DEF ServingSlot
<1> QED BY <1>4 DEF path

(* A path without a mount point leads to the default slot. *)
LEMMA ServedByDefault ==
  ASSUME NEW f \in FileSystems
  PROVE  ServingSlot(f, Relative) = f.default
<1>1. ASSUME NEW i \in Slots, f.mounted[i] # None PROVE ~Begins(f.mounted[i], Relative)
  <2>1. f.mounted[i] \in MountPoints
    BY <1>1, FileSystemIs
  <2>2. f.mounted[i][1] \in {"isfs", "sd", "usb", "net"}
    BY <2>1 DEF MountPoints
  <2>3. Relative[1] = ""
    BY DEF Relative
  <2> QED BY <2>2, <2>3 DEF Begins
<1> QED BY <1>1 DEF ServingSlot, Serves

(* TableInv and CommonInv step by step: at first. *)
LEMMA TableInit == Init => TableInv /\ CommonInv
<1> SUFFICES ASSUME Init PROVE TableInv /\ CommonInv
  OBVIOUS
<1>1. /\ fs = Started /\ pc = "sd" /\ mounts = <<>> /\ common = None /\ open = {}
  BY DEF Init
<1>2. OneEach(Started) /\ NoDevice(Started)
  <2>1. \A i \in Slots : Started.mounted[i] = IF i = 0 THEN Isfs ELSE None
    BY DEF Started
  <2> QED BY <2>1, Distinct DEF OneEach, NoDevice
<1> QED BY <1>1, <1>2 DEF TableInv, CommonInv, Launched

(* The console is switched off. *)
LEMMA TablePowerOff == PowerOff => (TableInv /\ CommonInv)'
<1> SUFFICES ASSUME PowerOff PROVE (TableInv /\ CommonInv)'
  OBVIOUS
<1>1. /\ fs' = Started /\ pc' = "sd" /\ mounts' = <<>> /\ common' = None /\ open' = {}
  BY DEF PowerOff
<1>2. OneEach(Started) /\ NoDevice(Started)
  <2>1. \A i \in Slots : Started.mounted[i] = IF i = 0 THEN Isfs ELSE None
    BY DEF Started
  <2> QED BY <2>1, Distinct DEF OneEach, NoDevice
<1> QED BY <1>1, <1>2 DEF TableInv, CommonInv, Launched

(* A device is mounted that was not. *)
LEMMA TableMountFat ==
  ASSUME SessionInv, TableInv, CommonInv, NEW d \in Disks, MountFat(d)
  PROVE  (TableInv /\ CommonInv)'
<1>1. /\ pc = d /\ pc' = IF d = "sd" THEN "usb" ELSE "broadcast"
      /\ UNCHANGED <<used, common, open>>
  BY DEF MountFat
<1>2. /\ fs \in FileSystems /\ OneEach(fs) /\ mounts \in Seq(Slots)
      /\ \A i \in Slots : fs.mounted[i] # Fat(d)
      /\ mounts = <<>> => NoDevice(fs)
      /\ d = "sd" => NoDevice(fs)
      /\ common = None /\ open = {}
  BY <1>1 DEF SessionInv, ModuleInv, TableInv, CommonInv, Launched, NoDevice, Disks
<1>3. PICK device \in {"absent", "blank", "fat"} :
        LET r == FatMount(fs, d, device) IN
        \/ r.ret < 0 /\ fs' = r.fs /\ UNCHANGED mounts
        \/ /\ ~(r.ret < 0) /\ mounts' = Append(mounts, r.ret)
           /\ fs' = Unmount(WithDefault(r.fs, r.ret), DiskNumber(d)).fs
  BY DEF MountFat
<1> DEFINE r == FatMount(fs, d, device)
<1>4. Mounts(fs, r, {Fat(d)})
  BY <1>2, FatMountIs
<1>5. r.fs.servers = fs.servers
  <2>1. \A g \in FileSystems : \A m, ok : Mount(g, m, ok).fs.servers = g.servers
    BY DEF Mount, Failed, FileSystems
  <2>2. \A ok : /\ InitDisc(fs, d, ok).fs \in FileSystems
                /\ InitDisc(fs, d, ok).fs.servers = fs.servers
    <3>1. ASSUME NEW ok PROVE /\ InitDisc(fs, d, ok).fs \in FileSystems
                              /\ InitDisc(fs, d, ok).fs.servers = fs.servers
      <4>1. FirstFree(fs.disk) # MaxMounted => FirstFree(fs.disk) \in Slots
        BY FirstFreeIs, SlotsAre
      <4> QED BY <1>2, <4>1 DEF InitDisc, Failed, FileSystems
    <3> QED BY <3>1
  <2> QED BY <2>1, <2>2 DEF FatMount
<1>6. \A f \in FileSystems : \A i : WithDefault(f, i).servers = f.servers
  BY DEF WithDefault, SetDefault, Failed, FileSystems
<1> HIDE DEF r
<1>7. CASE r.ret < 0 /\ fs' = r.fs /\ UNCHANGED mounts
  <2>1. r.ret = -1
    BY <1>4, <1>7, SlotsAre DEF Mounts
  <2>2. fs'.mounted = fs.mounted /\ fs'.servers = fs.servers
    BY <1>4, <1>5, <1>7, <2>1 DEF Mounts
  <2>3. OneEach(fs') /\ (mounts = <<>> => NoDevice(fs')) /\ (d = "sd" => NoDevice(fs'))
    BY <1>2, <2>2 DEF OneEach, NoDevice
  <2>4. d = "sd" => \A i \in Slots : fs'.mounted[i] # Fat("usb")
    BY <2>3 DEF NoDevice, Disks
  <2> QED BY <1>1, <1>2, <1>7, <2>3, <2>4 DEF TableInv, CommonInv, Launched, Disks
<1>8. CASE /\ ~(r.ret < 0) /\ mounts' = Append(mounts, r.ret)
           /\ fs' = Unmount(WithDefault(r.fs, r.ret), DiskNumber(d)).fs
  <2>1. r.ret # -1 /\ r.ret \in Slots /\ r.fs \in FileSystems
    BY <1>4, <1>8 DEF Mounts
  <2> DEFINE f == WithDefault(r.fs, r.ret)
  <2>2. f \in FileSystems /\ f.mounted = [fs.mounted EXCEPT ![r.ret] = Fat(d)]
        /\ f.servers = fs.servers
    BY <1>4, <1>5, <1>6, <2>1, WithDefaultIs DEF Mounts
  <2>3. fs' = Unmount(f, DiskNumber(d)).fs
    BY <1>8
  <2> HIDE DEF f
  <2>4. OneEach(f)
    BY <1>2, <2>1, <2>2, Distinct, FileSystemIs, OneMore
  <2>5. OneEach(fs')
    BY <2>2, <2>3, <2>4, OneLess
  <2>6. mounts' \in Seq(Slots) /\ mounts' # <<>>
    BY <1>2, <1>8, <2>1
  <2>7. d = "sd" => \A i \in Slots : fs'.mounted[i] # Fat("usb")
    <3>1. SUFFICES ASSUME d = "sd", NEW i \in Slots PROVE fs'.mounted[i] # Fat("usb")
      OBVIOUS
    <3>2. Fat("usb") # Fat("sd") /\ "usb" \in Disks
      BY DEF Fat, Disks
    <3>3. fs.mounted[i] # Fat("usb") /\ fs.mounted \in [Slots -> MountPoints \union {None}]
      BY <1>2, <3>1, <3>2, FileSystemIs DEF NoDevice
    <3>4. f.mounted[i] # Fat("usb")
      BY <2>1, <2>2, <3>1, <3>2, <3>3
    <3>5. fs'.mounted = [f.mounted EXCEPT ![DiskNumber(d)] = None]
      BY <2>2, <2>3, UnmountIs
    <3>6. f.mounted \in [Slots -> MountPoints \union {None}]
      BY <2>2, FileSystemIs
    <3> QED BY <3>2, <3>4, <3>5, <3>6, Distinct
  <2> QED BY <1>1, <1>2, <2>5, <2>6, <2>7 DEF TableInv, CommonInv, Launched, Disks
<1> QED BY <1>3, <1>7, <1>8 DEF r

(* A new server has the next number. *)
LEMMA NextServer ==
  ASSUME NEW f \in FileSystems, OneEach(f), NEW answers \in BOOLEAN,
         NEW g \in FileSystems,
         g.mounted = RiiFSMount(f, answers).fs.mounted, g.servers = RiiFSMount(f, answers).fs.servers
  PROVE  OneEach(g)
<1> DEFINE m == Net(f.servers + 1)
           i == FirstFree(f.mounted)
<1>1. i \in 0..MaxMounted
  BY FirstFreeIs
<1>2. m \in Servers /\ m[2] = f.servers + 1 /\ f.servers \in Nat
  BY FileSystemIs DEF Net, Servers
<1>3. CASE i = MaxMounted \/ ~answers
  <2>1. RiiFSMount(f, answers) = Failed(f)
    BY <1>3 DEF RiiFSMount, Mount, Failed
  <2>2. g.mounted = f.mounted /\ g.servers = f.servers
    BY <2>1 DEF Failed
  <2> QED BY <2>2 DEF OneEach
<1>4. CASE ~(i = MaxMounted \/ ~answers)
  <2>1. i \in Slots /\ ~(i < 0)
    BY <1>1, <1>4, SlotsAre
  <2> DEFINE h == [f EXCEPT !.mounted[i] = m]
             r == Mount(f, m, answers)
  <2>2. r = [ret |-> i, fs |-> h]
    BY <1>4 DEF Mount
  <2>3. RiiFSMount(f, answers) = [r EXCEPT !.fs.servers = @ + 1]
    BY <2>1, <2>2 DEF RiiFSMount
  <2>4. g.mounted = [f.mounted EXCEPT ![i] = m] /\ g.servers = f.servers + 1
    <3>1. h \in FileSystems /\ h.mounted = [f.mounted EXCEPT ![i] = m] /\ h.servers = f.servers
      <4>1. m \in MountPoints
        BY <1>2, Distinct
      <4> HIDE DEF i, m
      <4> QED BY <2>1, <4>1 DEF FileSystems
    <3> HIDE DEF i, m, h, r
    <3>2. [r EXCEPT !.fs.servers = @ + 1].fs = [h EXCEPT !.servers = h.servers + 1]
      BY <2>2
    <3>3. [h EXCEPT !.servers = h.servers + 1].mounted = h.mounted
          /\ [h EXCEPT !.servers = h.servers + 1].servers = h.servers + 1
      BY <3>1 DEF FileSystems
    <3> QED BY <2>3, <3>1, <3>2, <3>3
  <2>5. \A j \in Slots : f.mounted[j] # m
    <3>1. ASSUME NEW j \in Slots, f.mounted[j] = m PROVE FALSE
      <4>1. m[2] <= f.servers
        BY <1>2, <3>1 DEF OneEach
      <4> QED BY <1>2, <4>1
    <3> QED BY <3>1
  <2> HIDE DEF i, m
  <2> QED BY <1>2, <2>1, <2>4, <2>5, OneMore
<1> QED BY <1>3, <1>4

(* A server is mounted, or MenuMount begins again. *)
LEMMA TableMountServer ==
  ASSUME SessionInv, TableInv, CommonInv, MountBroadcast \/ MountNetwork
  PROVE  (TableInv /\ CommonInv)'
<1>1. /\ pc \in {"broadcast", "init"} /\ UNCHANGED <<used, common, open>>
      /\ fs \in FileSystems /\ OneEach(fs)
      /\ common = None /\ open = {}
  BY DEF MountBroadcast, MountNetwork, SessionInv, ModuleInv, TableInv, CommonInv, Launched
<1>2. \A f \in FileSystems : \A i : /\ WithDefault(f, i).servers = f.servers
                                   /\ SetLogFS(f, i).fs.servers = f.servers
  BY DEF WithDefault, SetDefault, SetLogFS, Failed, FileSystems
<1>3. fs' \in FileSystems
  BY MountBroadcastKeeps, MountNetworkKeeps DEF SessionInv, ModuleInv
<1>4. \/ fs' = fs
      \/ \E answers \in BOOLEAN : LET r == RiiFSMount(fs, answers) IN
            ~(r.ret < 0) /\ fs' \in {r.fs, SetLogFS(r.fs, r.ret).fs,
                                    WithDefault(r.fs, r.ret),
                                    WithDefault(SetLogFS(r.fs, r.ret).fs, r.ret)}
  <2>1. \A answers \in BOOLEAN : RiiFSMount(fs, answers).ret \in Slots \union {-1}
    BY <1>1, RiiFSMountIs DEF Mounts
  <2>2. Answers \subseteq BOOLEAN
    BY DEF Answers
  <2>3. CASE MountBroadcast
    BY <2>2, <2>3 DEF MountBroadcast
  <2>4. CASE MountNetwork
    <3>1. PICK answers \in BOOLEAN, log \in BOOLEAN :
            LET r == RiiFSMount(fs, answers) IN
            r.ret >= 0 /\ fs' = IF log THEN SetLogFS(r.fs, r.ret).fs ELSE r.fs
      BY <2>2, <2>4 DEF MountNetwork
    <3>2. ~(RiiFSMount(fs, answers).ret < 0)
      BY <2>1, <3>1, SlotsAre
    <3> QED BY <3>1, <3>2
  <2> QED BY <2>3, <2>4
<1>5. OneEach(fs')
  <2>1. CASE fs' = fs
    BY <1>1, <2>1
  <2>2. ASSUME NEW answers \in BOOLEAN, ~(RiiFSMount(fs, answers).ret < 0),
               LET r == RiiFSMount(fs, answers) IN
               fs' \in {r.fs, SetLogFS(r.fs, r.ret).fs, WithDefault(r.fs, r.ret),
                        WithDefault(SetLogFS(r.fs, r.ret).fs, r.ret)}
        PROVE  OneEach(fs')
    <3> DEFINE r == RiiFSMount(fs, answers)
    <3>1. r.fs \in FileSystems /\ r.ret \in Slots /\ r.fs.mounted[r.ret] # None
      <4>1. Mounts(fs, r, Servers)
        BY <1>1, RiiFSMountIs
      <4>2. ~(r.ret < 0)
        BY <2>2
      <4> HIDE DEF r
      <4>3. r.fs \in FileSystems /\ r.ret \in Slots /\ r.ret # -1
        BY <4>1, <4>2 DEF Mounts
      <4>4. PICK m \in Servers : r.fs.mounted = [fs.mounted EXCEPT ![r.ret] = m]
        BY <4>1, <4>3 DEF Mounts
      <4> QED BY <1>1, <4>3, <4>4, Distinct, FileSystemIs
    <3>2. fs' \in {r.fs, SetLogFS(r.fs, r.ret).fs, WithDefault(r.fs, r.ret),
                   WithDefault(SetLogFS(r.fs, r.ret).fs, r.ret)}
      BY <2>2
    <3> HIDE DEF r
    <3>3. fs'.mounted = r.fs.mounted /\ fs'.servers = r.fs.servers
      BY <1>2, <3>1, <3>2, SetLogIs, WithDefaultIs
    <3> QED BY <1>1, <1>3, <3>3, NextServer DEF r
  <2> QED BY <1>4, <2>1, <2>2
<1>6. /\ pc' \in {"init", "sd"}
      /\ pc' = "sd" => UNCHANGED <<fs, mounts>> /\ pc = "broadcast" /\ mounts = <<>>
  <2>1. CASE MountNetwork
    BY <2>1 DEF MountNetwork
  <2>2. CASE MountBroadcast
    <3>1. pc = "broadcast" /\ pc' = IF mounts' = <<>> THEN "sd" ELSE "init"
      BY <2>2 DEF MountBroadcast
    <3>2. mounts' = <<>> => UNCHANGED <<fs, mounts>>
      <4>1. mounts \in Seq(Slots)
        BY <3>1 DEF TableInv
      <4> QED BY <2>2, <4>1 DEF MountBroadcast
    <3> QED BY <3>1, <3>2
  <2> QED BY <2>1, <2>2
<1> QED BY <1>1, <1>5, <1>6 DEF TableInv, CommonInv, Launched

(* RVL_Patch finds the common filesystem by its mount point. *)
LEMMA TablePatch ==
  ASSUME SessionInv, TableInv, CommonInv, Patch
  PROVE  (TableInv /\ CommonInv)'
<1>1. /\ pc = "menu" /\ pc' = "apploader" /\ UNCHANGED <<mounts, open>>
  BY DEF Patch
<1>2. /\ fs \in FileSystems /\ OneEach(fs) /\ common = None /\ open = {}
  BY <1>1 DEF SessionInv, ModuleInv, TableInv, CommonInv, Launched
<1>3. CASE UNCHANGED <<fs, common>>
  BY <1>1, <1>2, <1>3 DEF TableInv, CommonInv, Launched
<1>4. ASSUME NEW slot \in Slots, UsedSlots(used') = {slot}, fs.mounted[slot] # None,
             common' = fs.mounted[slot], fs' = SetDefaultPath(fs, fs.mounted[slot]).fs
      PROVE  (TableInv /\ CommonInv)'
  <2> DEFINE s == ServingSlot(fs, fs.mounted[slot])
  <2>1. fs' = SetDefault(fs, s).fs
    BY <1>4 DEF SetDefaultPath
  <2>2. fs.servers < Base => s = slot
    BY <1>2, <1>4, ServedBy
  <2> HIDE DEF s
  <2>3. fs'.mounted = fs.mounted /\ fs'.servers = fs.servers
    BY <1>2, <2>1 DEF SetDefault, Failed, FileSystems
  <2>4. fs.servers < Base => fs'.default = slot
    BY <1>2, <1>4, <2>1, <2>2 DEF SetDefault, FileSystems
  <2>5. OneEach(fs')
    BY <1>2, <2>3 DEF OneEach
  <2>6. Unambiguous' => fs'.default = slot
    BY <2>3, <2>4 DEF Unambiguous
  <2>7. TableInv'
    BY <1>1, <2>5 DEF TableInv
  <2>8. CommonInv'
    BY <1>1, <1>2, <1>4, <2>3, <2>6 DEF CommonInv, Launched
  <2> QED BY <2>7, <2>8
<1> QED BY <1>3, <1>4 DEF Patch

(* The path of a file that is used leads to the filesystem of its choice. *)
LEMMA LeadsHome ==
  ASSUME SessionInv, TableInv, CommonInv, Launched, Unambiguous, NEW c \in used
  PROVE  Lookup(fs, PathOf(c)) = c.home
<1>1. /\ fs \in FileSystems /\ OneEach(fs) /\ fs.servers < Base
      /\ c.slot \in Slots /\ c.home \in MountPoints /\ fs.mounted[c.slot] = c.home
  BY DEF SessionInv, ModuleInv, ChoicesInv, TableInv, Home, Unambiguous
<1>2. c.home # None
  BY <1>1, FileModuleAssumption
<1>3. CASE common = None
  <2>1. PathOf(c) = c.home
    BY <1>3 DEF PathOf
  <2> QED BY <1>1, <1>2, <2>1, ServedBy DEF Lookup
<1>4. CASE common # None
  <2>1. PICK slot \in Slots : /\ UsedSlots(used) = {slot} /\ fs.mounted[slot] = common
                              /\ fs.default = slot
    BY <1>4 DEF CommonInv
  <2>2. c.slot = slot
    BY <2>1 DEF UsedSlots
  <2>3. PathOf(c) = Relative
    BY <1>1, <1>4, <2>1, <2>2 DEF PathOf, Begins
  <2> QED BY <1>1, <2>1, <2>2, <2>3, ServedByDefault DEF Lookup
<1> QED BY <1>3, <1>4

(* The DIP module opens a file of a used choice. *)
LEMMA TableOpenFile ==
  ASSUME SessionInv, TableInv, CommonInv, OpenFile
  PROVE  (TableInv /\ CommonInv)'
<1>1. /\ UNCHANGED <<fs, pc, mounts, used, common>> /\ Launched
  BY DEF OpenFile, menu, Launched
<1>2. PICK c \in used : open' = open \union {Lookup(fs, PathOf(c))}
  BY DEF OpenFile
<1>3. Unambiguous => open' \subseteq {x.home : x \in used}
  BY <1>1, <1>2, LeadsHome DEF CommonInv
<1> QED BY <1>1, <1>3 DEF TableInv, CommonInv, Launched, Unambiguous

(* The default slot is one of a used choice, and stays. *)
LEMMA TableUnmountNext ==
  ASSUME SessionInv, TableInv, CommonInv, UnmountNext
  PROVE  (TableInv /\ CommonInv)'
<1> DEFINE i == mounts[at]
<1>1. pc = "unmount" /\ UNCHANGED <<pc, mounts, used, common, open>> /\ fs \in FileSystems
      /\ OneEach(fs)
  BY DEF UnmountNext, SessionInv, ModuleInv, TableInv
<1>2. CASE UNCHANGED fs
  BY <1>1, <1>2 DEF TableInv, CommonInv, Launched, Unambiguous
<1>3. CASE ~StaysMounted(i)
  <2>1. fs' = Unmount(fs, i).fs /\ i \notin UsedSlots(used)
    BY <1>3 DEF UnmountNext, StaysMounted
  <2> HIDE DEF i
  <2>2. /\ OneEach(fs') /\ fs'.mounted = [fs.mounted EXCEPT ![i] = None]
        /\ fs'.servers = fs.servers /\ (fs.default # i => fs'.default = fs.default)
    BY <1>1, <2>1, OneLess, UnmountIs, DefaultStays
  <2>3. ASSUME common # None
        PROVE  \E slot \in Slots : /\ UsedSlots(used) = {slot} /\ fs'.mounted[slot] = common
                                   /\ Unambiguous => fs'.default = slot
    <3>1. PICK slot \in Slots : /\ UsedSlots(used) = {slot} /\ fs.mounted[slot] = common
                                /\ Unambiguous => fs.default = slot
      BY <1>1, <2>3 DEF CommonInv, Launched
    <3>2. slot # i
      BY <2>1, <3>1
    <3>3. fs'.mounted[slot] = fs.mounted[slot]
      BY <1>1, <2>2, <3>2, FileSystemIs
    <3> QED BY <2>2, <3>1, <3>2, <3>3
  <2>4. Unambiguous' = Unambiguous
    BY <2>2 DEF Unambiguous
  <2>5. TableInv'
    BY <1>1, <2>2 DEF TableInv
  <2>6. CommonInv'
    BY <1>1, <2>3, <2>4 DEF CommonInv, Launched
  <2> QED BY <2>5, <2>6
<1> QED BY <1>2, <1>3 DEF UnmountNext

(* Haxx_UnMount. *)
LEMMA TableConfirmUpdate ==
  ASSUME SessionInv, TableInv, CommonInv, ConfirmUpdate
  PROVE  (TableInv /\ CommonInv)'
<1>1. /\ pc = "menu" /\ pc' = "update" /\ UNCHANGED <<used, common, open>>
      /\ fs' = Unmount(Unmount(fs, 0).fs, 1).fs /\ fs \in FileSystems /\ OneEach(fs)
  BY DEF ConfirmUpdate, HaxxUnMount, DiskNumber, SessionInv, ModuleInv, TableInv
<1>2. Unmount(fs, 0).fs \in FileSystems
  BY <1>1, UnmountIs
<1>3. OneEach(fs')
  BY <1>1, <1>2, OneLess
<1> QED BY <1>1, <1>3 DEF TableInv, CommonInv, Launched

(* Steps that leave the mount table alone. *)
LEMMA TableOthers ==
  ASSUME SessionInv, TableInv, CommonInv,
         EndInit \/ Eject \/ EndApploader \/ Launch \/ Update \/ Release \/ UNCHANGED vars
  PROVE  (TableInv /\ CommonInv)'
<1>1. UNCHANGED <<fs, used, common, open>>
  BY DEF EndInit, Eject, EndApploader, Launch, Update, Release, vars, menu
<1>2. \/ UNCHANGED <<pc, mounts>>
      \/ pc = "init" /\ pc' = "menu"
      \/ pc = "menu" /\ pc' = "init"
      \/ pc = "apploader" /\ pc' = "unmount"
      \/ pc = "unmount" /\ pc' = "game"
  BY DEF EndInit, Eject, EndApploader, Launch, Update, Release, vars, menu
<1> QED BY <1>1, <1>2 DEF TableInv, CommonInv, Launched, Unambiguous

(* The three invariants hold always. *)
LEMMA PathsKeep == Spec => [](SessionInv /\ TableInv /\ CommonInv)
<1>1. SessionInv /\ TableInv /\ CommonInv /\ [Next]_vars => (TableInv /\ CommonInv)'
  BY TableMountFat, TableMountServer, TablePatch, TableOpenFile, TableUnmountNext,
     TableConfirmUpdate, TablePowerOff, TableOthers DEF Next
<1> QED BY <1>1, TableInit, SessionInit, SessionNext, PTL DEF Spec

(* With fewer than Base servers the path of each file that is used, whole or
   without the common mount point, leads to the filesystem of its choice. *)
THEOREM PathsLead == Spec => []PathsLeadHome
<1>1. SessionInv /\ TableInv /\ CommonInv => PathsLeadHome
  BY LeadsHome DEF PathsLeadHome
<1> QED BY <1>1, PathsKeep, PTL

(* The filesystems of the files that the DIP module keeps open are mounted. *)
THEOREM NoFreed == Spec => []NoFreedHandler
<1>1. SessionInv /\ TableInv /\ CommonInv => NoFreedHandler
  <2> SUFFICES ASSUME SessionInv, TableInv, CommonInv, Unambiguous, NEW x \in open
               PROVE  x \in InRange(fs.mounted)
    BY DEF NoFreedHandler
  <2>1. PICK c \in used : x = c.home
    BY DEF CommonInv
  <2>2. Launched
    BY DEF CommonInv
  <2>3. c.slot \in Slots /\ fs.mounted[c.slot] = x
    BY <2>1, <2>2 DEF SessionInv, ChoicesInv, Home
  <2>4. fs.mounted \in [Slots -> MountPoints \union {None}]
    BY FileSystemIs DEF SessionInv, ModuleInv
  <2> QED BY <2>3, <2>4 DEF InRange
<1> QED BY <1>1, PathsKeep, PTL

-----------------------------------------------------------------------------
(* The updater, for every list of files and any deletion list: unless a
   download failed or a torn version file was read, the version file tells the
   truth about the card, wherever the console is switched off and whenever a
   release appears. *)

(* The versions that the version file can have. *)
Known == {0} \union {Entries[k].version : k \in 1..released}

(* The files are as version v has them, or due in an update to a later one. *)
Holds(v) ==
  \A f \in U!Files \ Obsolete :
    \/ content[f] = U!ContentAt(f, v)
    \/ \E k \in 1..released : Entries[k].file = f /\ Entries[k].version > v

(* The version file is torn between its opening and its writing only. *)
RecordedInv ==
  /\ recorded \in Known \union {Torn}
  /\ recorded # Torn => Holds(recorded)
  /\ step \in {"list", "entry", "download", "downloaded"} => recorded # Torn

(* In the loop over the list every entry before the next one is recorded, and
   what was recorded last is the version the update began with or one of them. *)
LoopInv ==
  /\ step = "list" => local = recorded
  /\ step \in {"entry", "download", "downloaded", "record"} =>
       local \in Known /\ list \in 0..released /\ next \in 1..(list + 1)
  /\ step \in {"entry", "download", "downloaded"} =>
       /\ local <= recorded
       /\ recorded = local \/ \E j \in 1..(next - 1) : recorded = Entries[j].version
       /\ \A k \in 1..released : k < next => Entries[k].version <= recorded
  /\ step \in {"download", "downloaded", "record"} =>
       next <= list /\ local < Entries[next].version
  /\ step \in {"downloaded", "record"} => Holds(Entries[next].version)

UpdateInv ==
  /\ released \in 0..Len(Entries) /\ failed \in BOOLEAN
  /\ content = [f \in U!Files |-> content[f]]
  /\ ~failed => RecordedInv /\ LoopInv
-----------------------------------------------------------------------------
(* The file list ascends. *)
LEMMA ListIs ==
  /\ Len(Entries) \in Nat /\ Torn \notin Nat
  /\ \A k \in 1..Len(Entries) : Entries[k].version \in Nat \ {0} /\ Entries[k].file \in U!Files
  /\ \A j, k \in 1..Len(Entries) : j < k => Entries[j].version < Entries[k].version
<1>1. Entries \in Seq([version : Nat \ {0}, file : U!Files])
  BY UpdaterAssumption DEF U!ListAscends
<1>2. DOMAIN Entries = 1..Len(Entries) /\ Len(Entries) \in Nat
  BY <1>1
<1>3. \A k \in 1..Len(Entries) : Entries[k] \in [version : Nat \ {0}, file : U!Files]
  <2> DEFINE Entry == [version : Nat \ {0}, file : U!Files]
  <2>1. Entries \in Seq(Entry)
    BY <1>1
  <2> HIDE DEF Entry
  <2>2. \A k \in 1..Len(Entries) : Entries[k] \in Entry
    BY <2>1
  <2> QED BY <2>2 DEF Entry
<1>4. /\ \A j, k \in 1..Len(Entries) : j < k => Entries[j].version < Entries[k].version
      /\ Torn \notin Nat
  BY <1>2, UpdaterAssumption DEF U!ListAscends
<1> QED BY <1>2, <1>3, <1>4

(* What has been released. *)
LEMMA ReleasedIs ==
  ASSUME released \in 0..Len(Entries)
  PROVE  /\ released \in Nat /\ \A k \in 1..released : k \in 1..Len(Entries) /\ k \in Nat
         /\ \A k \in 1..released : Entries[k].version \in Nat \ {0} /\ Entries[k].file \in U!Files
         /\ Known \subseteq Nat /\ Torn \notin Known
         /\ \A j, k \in 1..released :
              /\ j < k => Entries[j].version < Entries[k].version
              /\ Entries[j].version <= Entries[k].version => j <= k
<1>1. released \in Nat /\ \A k \in 1..released : k \in 1..Len(Entries) /\ k \in Nat
  BY ListIs
<1>2. \A k \in 1..released : Entries[k].version \in Nat \ {0} /\ Entries[k].file \in U!Files
  BY <1>1, ListIs
<1>3. Known \subseteq Nat
  BY <1>2 DEF Known
<1>4. \A j, k \in 1..released : j < k => Entries[j].version < Entries[k].version
  BY <1>1, ListIs
<1>5. \A j, k \in 1..released : Entries[j].version <= Entries[k].version => j <= k
  BY <1>1, <1>2, <1>4
<1> QED BY <1>1, <1>2, <1>3, <1>4, <1>5, ListIs

(* A card prepared with a release has what its version file says. *)
LEMMA UpdateInit == U!Init => UpdateInv
<1> SUFFICES ASSUME U!Init PROVE UpdateInv
  OBVIOUS
<1>1. /\ released \in 0..Len(Entries) /\ recorded \in Known /\ step = "idle" /\ failed = FALSE
      /\ content = [f \in U!Files |-> U!ContentAt(f, recorded)]
  BY DEF U!Init, U!Idle, Known
<1>2. Holds(recorded)
  BY <1>1 DEF Holds
<1> QED BY <1>1, <1>2 DEF UpdateInv, RecordedInv, LoopInv

(* The next release has a later version, and changes nothing for those before. *)
LEMMA ReleaseKeeps ==
  ASSUME UpdateInv, U!Release
  PROVE  UpdateInv'
<1>1. /\ released < Len(Entries) /\ released' = released + 1 /\ released \in 0..Len(Entries)
      /\ UNCHANGED <<recorded, content, step, local, list, next, failed>>
  BY DEF U!Release, U!card, UpdateInv
<1>2. released' \in 0..Len(Entries) /\ released \in Nat
  BY <1>1, ListIs
<1>3. Known \subseteq Known' /\ Known \subseteq Nat /\ 1..released \subseteq 1..released'
  BY <1>1, <1>2, ReleasedIs DEF Known
<1>4. \A v \in Known : v < Entries[released'].version
  <2>1. released' \in 1..Len(Entries) /\ \A k \in 1..released : k < released' /\ k \in 1..Len(Entries)
    BY <1>1, <1>2, ListIs
  <2> QED BY <2>1, ListIs DEF Known
<1>5. ASSUME NEW v \in Known, Holds(v) PROVE Holds(v)'
  <2>1. ASSUME NEW f PROVE U!EntriesOf(f, v)' = U!EntriesOf(f, v)
    <3>1. ~(Entries[released'].version <= v)
      <4>1. released' \in 1..Len(Entries)
        BY <1>1, <1>2
      <4> QED BY <1>3, <1>4, <4>1, ListIs
    <3>2. 1..released' = 1..released \union {released'}
      BY <1>1, <1>2
    <3> QED BY <3>1, <3>2 DEF U!EntriesOf
  <2>2. ASSUME NEW f PROVE U!ContentAt(f, v)' = U!ContentAt(f, v)
    BY <2>1 DEF U!ContentAt
  <2> QED BY <1>1, <1>3, <1>5, <2>2 DEF Holds
<1>6. \A k \in 1..released : Entries[k].version \in Known
  BY DEF Known
<1>7. ~failed => RecordedInv'
  BY <1>1, <1>3, <1>5 DEF UpdateInv, RecordedInv
<1>8. ~failed => LoopInv'
  <2> SUFFICES ASSUME ~failed PROVE LoopInv'
    OBVIOUS
  <2> USE <1>1
  <2>1. LoopInv /\ RecordedInv
    BY DEF UpdateInv
  <2>2. ASSUME step \in {"entry", "download", "downloaded", "record"}
        PROVE  /\ local \in Known' /\ list \in 0..released' /\ next \in 1..(list + 1)
               /\ \A k \in 1..released' : k < next => k \in 1..released
    <3>1. local \in Known /\ list \in 0..released /\ next \in 1..(list + 1)
      BY <2>1, <2>2 DEF LoopInv
    <3>2. list \in 0..released'
      BY <1>2, <3>1
    <3>3. \A k \in 1..released' : k < next => k \in 1..released
      BY <1>2, <3>1
    <3> QED BY <1>3, <3>1, <3>2, <3>3
  <2>3. step \in {"downloaded", "record"} => Entries[next].version \in Known
    BY <1>2, <1>6, <2>1 DEF LoopInv
  <2>4. step \in {"downloaded", "record"} => Holds(Entries[next].version)'
    BY <1>5, <2>1, <2>3 DEF LoopInv
  <2> QED BY <2>1, <2>2, <2>4 DEF LoopInv
<1> QED BY <1>1, <1>2, <1>7, <1>8 DEF UpdateInv

(* Removing the obsolete files changes none of those the version vouches for. *)
LEMMA BeginKeeps ==
  ASSUME UpdateInv, U!Begin
  PROVE  UpdateInv'
<1>1. /\ step = "idle" /\ step' = "list" /\ UNCHANGED <<released, recorded, list, next>>
      /\ content' = [f \in U!Files |-> IF f \in Obsolete THEN 0 ELSE content[f]]
      /\ IF recorded = Torn THEN failed' = TRUE ELSE local' = recorded /\ UNCHANGED failed
  BY DEF U!Begin, U!Goto
<1>2. content' = [f \in U!Files |-> content'[f]]
  BY <1>1
<1>3. ASSUME NEW v, Holds(v) PROVE Holds(v)'
  <2>1. \A f : U!ContentAt(f, v)' = U!ContentAt(f, v)
    BY <1>1 DEF U!ContentAt, U!EntriesOf
  <2>2. \A f \in U!Files \ Obsolete : content'[f] = content[f]
    BY <1>1
  <2> QED BY <1>1, <1>3, <2>1, <2>2 DEF Holds
<1>4. Known' = Known
  BY <1>1 DEF Known
<1>5. ~failed' => ~failed /\ recorded # Torn /\ local' = recorded
  BY <1>1
<1>6. ~failed' => RecordedInv'
  BY <1>1, <1>3, <1>4, <1>5 DEF UpdateInv, RecordedInv
<1>7. ~failed' => LoopInv'
  BY <1>1, <1>5 DEF LoopInv
<1>8. failed' \in BOOLEAN /\ released' \in 0..Len(Entries)
  BY <1>1 DEF UpdateInv
<1> QED BY <1>2, <1>6, <1>7, <1>8 DEF UpdateInv

(* Steps that leave the card alone leave what holds of it. *)
LEMMA SameCard ==
  ASSUME UNCHANGED <<released, content>>
  PROVE  /\ Known' = Known
         /\ \A v : Holds(v)' = Holds(v)
BY DEF Known, Holds, U!ContentAt, U!EntriesOf

(* The loop starts at the first entry, with none before it. *)
LEMMA GetListKeeps ==
  ASSUME UpdateInv, U!GetList
  PROVE  UpdateInv'
<1>1. /\ step = "list" /\ step' = "entry" /\ list' \in 0..released /\ next' = 1
      /\ UNCHANGED <<released, recorded, content, local, failed>>
  BY DEF U!GetList, U!Goto, U!card
<1>2. released \in 0..Len(Entries)
  BY DEF UpdateInv
<1>3. ~failed => recorded \in Known /\ local = recorded
  BY <1>1 DEF UpdateInv, RecordedInv, LoopInv
<1>4. ~failed => RecordedInv'
  BY <1>1, <1>3, SameCard DEF UpdateInv, RecordedInv
<1>5. ASSUME ~failed PROVE LoopInv'
  <2>1. \A k \in 1..released : ~(k < 1)
    BY <1>2, ReleasedIs
  <2>2. recorded \in Known /\ local = recorded /\ local <= recorded
    BY <1>2, <1>3, <1>5, ReleasedIs
  <2>3. next' \in 1..(list' + 1)
    <3>1. released \in Nat
      BY <1>2, ReleasedIs
    <3>2. ASSUME NEW n \in 0..released PROVE 1 \in 1..(n + 1)
      BY <3>1
    <3> QED BY <1>1, <3>2
  <2>4. local' \in Known' /\ list' \in 0..released' /\ local' <= recorded' /\ recorded' = local'
    BY <1>1, <2>2, SameCard
  <2>5. \A k \in 1..released' : k < next' => Entries[k].version <= recorded'
    BY <1>1, <2>1
  <2>6. step' = "entry"
    BY <1>1
  <2> QED BY <2>3, <2>4, <2>5, <2>6 DEF LoopInv
<1> QED BY <1>1, <1>4, <1>5 DEF UpdateInv

(* An entry is skipped only when what is recorded is as late already. *)
LEMMA SkipEntryKeeps ==
  ASSUME UpdateInv, U!SkipEntry
  PROVE  UpdateInv'
<1>1. /\ step = "entry" /\ next <= list /\ ~(local < Entries[next].version) /\ next' = next + 1
      /\ UNCHANGED <<released, recorded, content, step, local, list, failed>>
  BY DEF U!SkipEntry, U!IsNewer, U!card
<1>2. released \in 0..Len(Entries)
  BY DEF UpdateInv
<1>3. ~failed => RecordedInv'
  BY <1>1, SameCard DEF UpdateInv, RecordedInv
<1>4. ASSUME ~failed PROVE LoopInv'
  <2>1. /\ local \in Known /\ list \in 0..released /\ next \in 1..(list + 1) /\ local <= recorded
        /\ recorded = local \/ \E j \in 1..(next - 1) : recorded = Entries[j].version
        /\ \A k \in 1..released : k < next => Entries[k].version <= recorded
        /\ recorded \in Known
    BY <1>1, <1>4 DEF UpdateInv, LoopInv, RecordedInv
  <2>2. next \in 1..released /\ next' \in 1..(list + 1) /\ 1..(next - 1) \subseteq 1..(next' - 1)
    BY <1>1, <1>2, <2>1, ReleasedIs
  <2>3. Entries[next].version <= recorded
    BY <1>1, <1>2, <2>1, <2>2, ReleasedIs
  <2>4. \A k \in 1..released : k < next' => Entries[k].version <= recorded
    <3>1. \A k \in 1..released : k < next' => k < next \/ k = next
      BY <1>1, <1>2, <2>2, ReleasedIs
    <3> QED BY <2>1, <2>3, <3>1
  <2>5. recorded = local \/ \E j \in 1..(next' - 1) : recorded = Entries[j].version
    BY <2>1, <2>2
  <2> QED BY <1>1, <2>1, <2>2, <2>4, <2>5, SameCard DEF LoopInv
<1> QED BY <1>1, <1>3, <1>4 DEF UpdateInv

(* What is known of the entry that is downloaded. *)
LEMMA NextEntry ==
  ASSUME UpdateInv, ~failed, step \in {"entry", "download", "downloaded"}, next <= list,
         local < Entries[next].version
  PROVE  /\ next \in 1..released /\ recorded \in Known /\ Entries[next].version \in Known
         /\ recorded < Entries[next].version
         /\ \A k \in 1..released : k < next => Entries[k].version <= recorded
<1>1. /\ local \in Known /\ list \in 0..released /\ next \in 1..(list + 1)
      /\ recorded = local \/ \E j \in 1..(next - 1) : recorded = Entries[j].version
      /\ \A k \in 1..released : k < next => Entries[k].version <= recorded
      /\ recorded \in Known /\ released \in 0..Len(Entries)
  BY DEF UpdateInv, LoopInv, RecordedInv
<1>2. next \in 1..released /\ \A j \in 1..(next - 1) : j \in 1..released /\ j < next
  BY <1>1, ReleasedIs
<1>3. recorded < Entries[next].version
  BY <1>1, <1>2, ReleasedIs
<1> QED BY <1>1, <1>2, <1>3 DEF Known

(* The file that is emptied is due in a later version than the recorded one. *)
LEMMA OpenFileKeeps ==
  ASSUME UpdateInv, U!OpenFile
  PROVE  UpdateInv'
<1>1. /\ step = "entry" /\ step' = "download" /\ next <= list /\ local < Entries[next].version
      /\ content' = [content EXCEPT ![Entries[next].file] = -1]
      /\ UNCHANGED <<released, recorded, local, list, next, failed>>
  BY DEF U!OpenFile, U!IsNewer, U!Goto
<1>2. content = [f \in U!Files |-> content[f]] /\ released \in 0..Len(Entries)
  BY DEF UpdateInv
<1>3. /\ content' = [f \in U!Files |-> content'[f]]
      /\ \A f \in U!Files : f # Entries[next].file => content'[f] = content[f]
  BY <1>1, <1>2
<1>4. Known' = Known /\ \A f, v : U!ContentAt(f, v)' = U!ContentAt(f, v)
  BY <1>1 DEF Known, U!ContentAt, U!EntriesOf
<1>5. ASSUME ~failed PROVE RecordedInv' /\ LoopInv'
  <2>1. next \in 1..released /\ recorded \in Known /\ recorded < Entries[next].version
    BY <1>1, <1>5, NextEntry
  <2>2. Holds(recorded) /\ recorded # Torn
    BY <1>1, <1>5 DEF UpdateInv, RecordedInv
  <2>3. Holds(recorded)'
    BY <1>1, <1>3, <1>4, <2>1, <2>2 DEF Holds
  <2>4. RecordedInv'
    BY <1>1, <1>4, <2>1, <2>2, <2>3 DEF RecordedInv
  <2>5. LoopInv
    BY <1>5 DEF UpdateInv
  <2>6. LoopInv'
    BY <1>1, <1>4, <2>5 DEF LoopInv
  <2> QED BY <2>4, <2>6
<1> QED BY <1>1, <1>2, <1>3, <1>5 DEF UpdateInv

(* The new file is as both versions have it or are going to. *)
LEMMA DownloadKeeps ==
  ASSUME UpdateInv, U!Download
  PROVE  UpdateInv'
<1>1. /\ step = "download" /\ step' = "downloaded"
      /\ UNCHANGED <<released, recorded, local, list, next>>
      /\ \/ /\ content' = [content EXCEPT ![Entries[next].file] = Entries[next].version]
            /\ UNCHANGED failed
         \/ failed' = TRUE /\ UNCHANGED content
  BY DEF U!Download, U!Goto
<1>2. content = [f \in U!Files |-> content[f]] /\ released \in 0..Len(Entries)
  BY DEF UpdateInv
<1>3. CASE failed' = TRUE
  <2>1. content' = [f \in U!Files |-> content'[f]]
    BY <1>1, <1>2
  <2> QED BY <1>1, <1>2, <1>3, <2>1 DEF UpdateInv
<1>4. CASE failed' = failed /\ ~failed
           /\ content' = [content EXCEPT ![Entries[next].file] = Entries[next].version]
  <2> DEFINE g == Entries[next].file
             w == Entries[next].version
  <2>1. /\ next \in 1..released /\ recorded \in Known /\ w \in Known /\ recorded < w
        /\ \A k \in 1..released : k < next => Entries[k].version <= recorded
    BY <1>1, <1>4, NextEntry DEF UpdateInv, LoopInv
  <2>2. /\ Known' = Known /\ \A f, v : U!ContentAt(f, v)' = U!ContentAt(f, v)
    BY <1>1 DEF Known, U!ContentAt, U!EntriesOf
  <2>3. g \in U!Files /\ w \in Nat \ {0} /\ Known \subseteq Nat
    BY <1>2, <2>1, ReleasedIs
  <2>4. /\ content' = [f \in U!Files |-> content'[f]] /\ content'[g] = w
        /\ \A f \in U!Files : f # g => content'[f] = content[f]
    BY <1>2, <1>4, <2>3
  <2>5. Holds(recorded) /\ recorded # Torn
    BY <1>1, <1>4 DEF UpdateInv, RecordedInv
  <2>6. Holds(recorded)'
    BY <1>1, <2>1, <2>2, <2>4, <2>5 DEF Holds
  <2>7. U!ContentAt(g, w) = w
    <3>1. /\ next \in U!EntriesOf(g, w)
          /\ \A j \in U!EntriesOf(g, w) : j <= next /\ j \in Nat
      BY <1>2, <2>1, <2>3, ReleasedIs DEF U!EntriesOf
    <3>2. U!Last(U!EntriesOf(g, w)) = next
      BY <3>1 DEF U!Last
    <3> QED BY <3>1, <3>2 DEF U!ContentAt
  <2>8. ASSUME NEW f \in U!Files \ Obsolete, f # g
        PROVE  \/ content[f] = U!ContentAt(f, w)
               \/ \E k \in 1..released : Entries[k].file = f /\ Entries[k].version > w
    <3>1. CASE content[f] = U!ContentAt(f, recorded)
      <4>1. \A k \in 1..released : Entries[k].file = f =>
              (Entries[k].version <= w <=> Entries[k].version <= recorded)
        <5>1. SUFFICES ASSUME NEW k \in 1..released, Entries[k].file = f
                       PROVE  Entries[k].version <= w <=> Entries[k].version <= recorded
          OBVIOUS
        <5>2. k # next /\ k \in Nat /\ next \in Nat /\ Entries[k].version \in Nat /\ recorded \in Nat
          BY <1>2, <2>1, <2>3, <2>8, <5>1, ReleasedIs
        <5>3. CASE k < next
          BY <2>1, <2>3, <5>2, <5>3
        <5>4. CASE k > next
          <6>1. w < Entries[k].version
            BY <1>2, <2>1, <5>4, ReleasedIs
          <6> QED BY <2>1, <2>3, <5>2, <6>1
        <5> QED BY <5>2, <5>3, <5>4
      <4>2. U!EntriesOf(f, w) = U!EntriesOf(f, recorded)
        BY <4>1 DEF U!EntriesOf
      <4> QED BY <3>1, <4>2 DEF U!ContentAt
    <3>2. CASE \E k \in 1..released : Entries[k].file = f /\ Entries[k].version > recorded
      <4>1. PICK k \in 1..released : Entries[k].file = f /\ Entries[k].version > recorded
        BY <3>2
      <4>2. k # next /\ k \in Nat /\ next \in Nat /\ Entries[k].version \in Nat /\ recorded \in Nat
        BY <1>2, <2>1, <2>3, <2>8, <4>1, ReleasedIs
      <4>3. k > next
        BY <2>1, <4>1, <4>2
      <4>4. w < Entries[k].version
        BY <1>2, <2>1, <4>3, ReleasedIs
      <4>5. Entries[k].version > w
        BY <2>3, <4>2, <4>4
      <4> QED BY <4>1, <4>5
    <3> QED BY <2>5, <3>1, <3>2 DEF Holds
  <2> HIDE DEF g, w
  <2>9. Holds(w)'
    BY <1>1, <2>2, <2>4, <2>7, <2>8 DEF Holds, g, w
  <2>10. RecordedInv'
    BY <1>1, <2>1, <2>2, <2>5, <2>6 DEF RecordedInv
  <2>11. LoopInv
    BY <1>4 DEF UpdateInv
  <2>12. LoopInv'
    BY <1>1, <2>2, <2>9, <2>11 DEF LoopInv, w
  <2> QED BY <1>1, <1>2, <1>4, <2>4, <2>10, <2>12 DEF UpdateInv
<1>5. CASE failed /\ failed' = failed
           /\ content' = [content EXCEPT ![Entries[next].file] = Entries[next].version]
  <2>1. content' = [f \in U!Files |-> content'[f]]
    BY <1>2, <1>5
  <2> QED BY <1>1, <1>2, <1>5, <2>1 DEF UpdateInv
<1> QED BY <1>1, <1>3, <1>4, <1>5 DEF UpdateInv

(* While the version file is torn it vouches for nothing. *)
LEMMA OpenVersionKeeps ==
  ASSUME UpdateInv, U!OpenVersion
  PROVE  UpdateInv'
<1>1. /\ step = "downloaded" /\ step' = "record" /\ recorded' = Torn
      /\ UNCHANGED <<released, content, local, list, next, failed>>
  BY DEF U!OpenVersion, U!Goto
<1>2. ~failed => RecordedInv'
  BY <1>1 DEF RecordedInv
<1>3. ~failed => LoopInv'
  BY <1>1, SameCard DEF UpdateInv, LoopInv
<1> QED BY <1>1, <1>2, <1>3 DEF UpdateInv

(* The version that is recorded is the one whose file was just downloaded. *)
LEMMA RecordKeeps ==
  ASSUME UpdateInv, U!Record
  PROVE  UpdateInv'
<1>1. /\ step = "record" /\ step' = "entry" /\ recorded' = Entries[next].version
      /\ next' = next + 1 /\ UNCHANGED <<released, content, local, list, failed>>
  BY DEF U!Record, U!Goto
<1>2. released \in 0..Len(Entries)
  BY DEF UpdateInv
<1>3. ASSUME ~failed PROVE RecordedInv' /\ LoopInv'
  <2>1. /\ local \in Known /\ list \in 0..released /\ next \in 1..(list + 1) /\ next <= list
        /\ local < Entries[next].version /\ Holds(Entries[next].version)
    BY <1>1, <1>3 DEF UpdateInv, LoopInv
  <2>2. next \in 1..released /\ next' \in 1..(list + 1) /\ next \in 1..(next' - 1)
    BY <1>1, <1>2, <2>1, ReleasedIs
  <2>3. recorded' \in Known /\ recorded' # Torn
    <3>1. recorded' \in Known
      BY <1>1, <2>2 DEF Known
    <3> QED BY <1>2, <3>1, ReleasedIs
  <2>4. RecordedInv'
    BY <1>1, <2>1, <2>3, SameCard DEF RecordedInv
  <2>5. local <= recorded'
    BY <1>1, <1>2, <2>1, <2>2, ReleasedIs
  <2>6. \A k \in 1..released : k < next' => Entries[k].version <= recorded'
    <3>1. \A k \in 1..released : k < next' => k < next \/ k = next
      BY <1>1, <1>2, <2>2, ReleasedIs
    <3> QED BY <1>1, <1>2, <2>2, <3>1, ReleasedIs
  <2>7. LoopInv'
    BY <1>1, <2>1, <2>2, <2>5, <2>6, SameCard DEF LoopInv
  <2> QED BY <2>4, <2>7
<1> QED BY <1>1, <1>3 DEF UpdateInv

(* The end of the update, and the console switched off and on. *)
LEMMA EndKeeps ==
  ASSUME UpdateInv, U!Finish \/ U!PowerOff
  PROVE  UpdateInv'
<1>1. /\ step' \in {"done", "idle"} /\ UNCHANGED <<released, recorded, content, failed>>
  BY DEF U!Finish, U!PowerOff, U!Goto, U!card
<1>2. ~failed => RecordedInv' /\ LoopInv'
  BY <1>1, SameCard DEF UpdateInv, RecordedInv, LoopInv
<1> QED BY <1>1, <1>2 DEF UpdateInv

(* The rest of the launcher leaves the updater and the card alone. *)
LEMMA UnchangedKeeps ==
  ASSUME UpdateInv, UNCHANGED updater
  PROVE  UpdateInv'
<1>1. UNCHANGED <<released, recorded, content, step, local, list, next, failed>>
  BY DEF updater
<1> QED BY <1>1, SameCard DEF UpdateInv, RecordedInv, LoopInv

(* The updater runs one step at a time, or something else happens. *)
LEMMA UpdateNext == UpdateInv /\ [Next]_vars => UpdateInv'
<1> SUFFICES ASSUME UpdateInv, [Next]_vars PROVE UpdateInv'
  OBVIOUS
<1>1. CASE Update
  BY <1>1, BeginKeeps, GetListKeeps, SkipEntryKeeps, OpenFileKeeps, DownloadKeeps,
     OpenVersionKeeps, RecordKeeps, EndKeeps DEF Update, U!Work
<1>2. CASE Release
  BY <1>2, ReleaseKeeps DEF Release
<1>3. CASE PowerOff
  BY <1>3, EndKeeps DEF PowerOff
<1>4. CASE \/ \E d \in Disks : MountFat(d)
           \/ MountBroadcast \/ MountNetwork \/ EndInit \/ Eject
  BY <1>4, UnchangedKeeps DEF MountFat, MountBroadcast, MountNetwork, EndInit, Eject
<1>5. CASE Patch \/ OpenFile \/ EndApploader \/ UnmountNext \/ Launch \/ ConfirmUpdate
  BY <1>5, UnchangedKeeps DEF Patch, OpenFile, EndApploader, UnmountNext, Launch, ConfirmUpdate
<1>6. CASE UNCHANGED vars
  BY <1>6, UnchangedKeeps DEF vars
<1> QED BY <1>1, <1>2, <1>3, <1>4, <1>5, <1>6 DEF Next

(* Whenever and however often the console is switched off, each file is as the
   version file says or will be replaced in the next update, unless a download
   failed or a torn version file was read. *)
THEOREM VersionTrue == Spec => []RecordedVersionInstalled
<1>1. Init => UpdateInv
  BY UpdateInit DEF Init
<1>2. UpdateInv => RecordedVersionInstalled
  BY DEF UpdateInv, RecordedInv, Holds, RecordedVersionInstalled, U!RecordedVersionInstalled
<1> QED BY <1>1, <1>2, UpdateNext, PTL DEF Spec
-----------------------------------------------------------------------------
(* The list that MenuInit makes of Mounted and ToMount is one of slots.  It is
   defined step by step, so that there is such a function for every length is
   shown first, by the least length that there would be none for. *)
MergesTo(k, g) ==
  g = [j \in 0..k |-> IF j = 0 THEN mounts ELSE WithSlot(g[j - 1], tomount[j])]

LEMMA MergedIs ==
  ASSUME mounts \in Seq(Slots), tomount \in Seq(Slots)
  PROVE  Merged \in Seq(Slots)
<1> DEFINE n == Len(tomount)
<1>1. n \in Nat /\ \A j \in 1..n : tomount[j] \in Slots
  OBVIOUS
<1>2. \A s \in Seq(Slots), i \in Slots : WithSlot(s, i) \in Seq(Slots)
  BY DEF WithSlot
<1> HIDE DEF n
<1>3. ASSUME NEW k \in 0..n PROVE \E g : MergesTo(k, g)
  <2> DEFINE T == {j \in 0..n : ~\E g : MergesTo(j, g)}
  <2> SUFFICES ASSUME T # {} PROVE FALSE
    OBVIOUS
  <2>1. PICK x \in T : \A y \in T : x <= y
    <3>1. T \subseteq Nat
      BY <1>1
    <3> QED BY <3>1, Smallest
  <2>2. CASE x = 0
    <3> DEFINE g == [j \in 0..0 |-> mounts]
    <3>1. MergesTo(0, g)
      BY DEF MergesTo
    <3> QED BY <2>1, <2>2, <3>1
  <2>3. CASE x # 0
    <3>1. x \in Nat /\ x - 1 \in 0..n /\ x - 1 \notin T
      BY <1>1, <2>1, <2>3
    <3>2. PICK g : MergesTo(x - 1, g)
      BY <3>1
    <3> DEFINE h == [j \in 0..x |-> IF j = x THEN WithSlot(g[x - 1], tomount[x]) ELSE g[j]]
    <3>3. \A j \in 0..(x - 1) : g[j] = IF j = 0 THEN mounts ELSE WithSlot(g[j - 1], tomount[j])
      BY <3>2 DEF MergesTo
    <3>4. h = [j \in 0..x |-> IF j = 0 THEN mounts ELSE WithSlot(h[j - 1], tomount[j])]
      <4>1. ASSUME NEW j \in 0..x PROVE h[j] = IF j = 0 THEN mounts ELSE WithSlot(h[j - 1], tomount[j])
        <5>1. CASE j = x
          <6>1. h[j - 1] = g[x - 1] /\ h[j] = WithSlot(g[x - 1], tomount[x])
            BY <2>3, <3>1, <5>1
          <6> QED BY <2>3, <5>1, <6>1
        <5>2. CASE j # x /\ j # 0
          <6>1. j \in 0..(x - 1) /\ j - 1 \in 0..x /\ j - 1 # x
            BY <3>1, <5>2
          <6>2. h[j] = g[j] /\ h[j - 1] = g[j - 1]
            BY <5>2, <6>1
          <6> QED BY <3>3, <5>2, <6>1, <6>2
        <5>3. CASE j # x /\ j = 0
          <6>1. j \in 0..(x - 1) /\ h[j] = g[j]
            BY <3>1, <5>3
          <6> QED BY <3>3, <5>3, <6>1
        <5> QED BY <5>1, <5>2, <5>3
      <4> HIDE DEF h
      <4>2. h = [j \in 0..x |-> h[j]]
        BY DEF h
      <4> QED BY <4>1, <4>2
    <3> HIDE DEF h
    <3>5. MergesTo(x, h)
      BY <3>4 DEF MergesTo
    <3> QED BY <2>1, <3>5
  <2> QED BY <2>2, <2>3
<1>4. PICK g : MergesTo(n, g)
  BY <1>1, <1>3
<1> DEFINE With == CHOOSE f : MergesTo(n, f)
<1>5. MergesTo(n, With)
  BY <1>4
<1>6. Merged = With[n]
  BY DEF Merged, MergesTo, n
<1> HIDE DEF With
<1>7. \A j \in 0..n : With[j] = IF j = 0 THEN mounts ELSE WithSlot(With[j - 1], tomount[j])
  BY <1>5 DEF MergesTo
<1>8. \A j \in 0..n : With[j] \in Seq(Slots)
  <2> DEFINE T == {j \in 0..n : With[j] \notin Seq(Slots)}
  <2> SUFFICES ASSUME T # {} PROVE FALSE
    OBVIOUS
  <2>1. PICK x \in T : \A y \in T : x <= y
    <3>1. T \subseteq Nat
      BY <1>1
    <3> QED BY <3>1, Smallest
  <2>2. CASE x = 0
    BY <1>1, <1>7, <2>1, <2>2
  <2>3. CASE x # 0
    <3>1. x - 1 \in 0..n /\ x - 1 \notin T /\ x \in 1..n
      BY <1>1, <2>1, <2>3
    <3>2. With[x - 1] \in Seq(Slots) /\ tomount[x] \in Slots
      BY <1>1, <3>1
    <3>3. With[x] = WithSlot(With[x - 1], tomount[x])
      BY <1>7, <2>1, <2>3
    <3> QED BY <1>2, <2>1, <3>2, <3>3
  <2> QED BY <2>2, <2>3
<1> QED BY <1>1, <1>6, <1>8

-----------------------------------------------------------------------------
(* The types of the updater's state: while an entry is downloaded the loop is
   still within the list, so next stays within Entries. *)
CardInv == U!TypeOK /\ (step \in {"download", "downloaded", "record"} => next <= list)

(* An entry that the loop is at. *)
LEMMA EntryIs ==
  ASSUME CardInv, next <= list
  PROVE  /\ next \in 1..Len(Entries) /\ next + 1 \in 1..(Len(Entries) + 1)
         /\ Entries[next].file \in U!Files /\ Entries[next].version \in U!Versions
<1>1. Len(Entries) \in Nat /\ DOMAIN Entries = 1..Len(Entries)
  BY UpdaterAssumption DEF U!ListAscends
<1>2. released \in 0..Len(Entries) /\ list \in 0..released /\ next \in 1..(Len(Entries) + 1)
  BY DEF CardInv, U!TypeOK
<1>3. next \in 1..Len(Entries) /\ next + 1 \in 1..(Len(Entries) + 1)
  BY <1>1, <1>2
<1>4. Entries[next].file \in U!Files /\ Entries[next].version \in U!Versions
  BY <1>1, <1>3 DEF U!Files, U!Versions
<1> QED BY <1>3, <1>4

(* At first the loop is not running. *)
LEMMA CardInit == U!Init => CardInv
<1> SUFFICES ASSUME U!Init PROVE CardInv
  OBVIOUS
<1>1. Len(Entries) \in Nat /\ DOMAIN Entries = 1..Len(Entries)
  BY UpdaterAssumption DEF U!ListAscends
<1>2. /\ released \in 0..Len(Entries)
      /\ recorded \in {0} \union {Entries[k].version : k \in 1..released}
      /\ content = [f \in U!Files |-> U!ContentAt(f, recorded)]
      /\ step = "idle" /\ local = 0 /\ list = 0 /\ next = 1 /\ failed = FALSE
  BY DEF U!Init, U!Idle
<1>3. released \in Nat /\ 1..released \subseteq 1..Len(Entries)
  BY <1>1, <1>2
<1>4. recorded \in {0, Torn} \union U!Versions
  BY <1>1, <1>2, <1>3 DEF U!Versions
<1>5. ASSUME NEW f \in U!Files PROVE U!ContentAt(f, recorded) \in {-1, 0} \union U!Versions
  <2> DEFINE S == U!EntriesOf(f, recorded)
  <2>1. S \subseteq 1..released
    BY DEF U!EntriesOf
  <2>2. CASE S = {}
    BY <2>2 DEF U!ContentAt
  <2>3. CASE S # {}
    <3>1. \E k \in S : \A j \in S : j <= k
      <4> DEFINE T == {released - j : j \in S}
      <4>1. T \subseteq Nat /\ T # {}
        BY <1>3, <2>1, <2>3
      <4>2. PICK x \in T : \A y \in T : x <= y
        BY <4>1, Smallest
      <4>3. PICK k \in S : x = released - k
        BY <4>2
      <4>4. \A j \in S : released - k <= released - j
        BY <4>2, <4>3
      <4>5. \A j \in S : j \in Nat
        BY <1>3, <2>1
      <4> QED BY <1>3, <4>3, <4>4, <4>5
    <3> HIDE DEF S
    <3>2. U!Last(S) \in S
      BY <3>1 DEF U!Last
    <3>3. U!Last(S) \in DOMAIN Entries
      BY <1>1, <1>3, <2>1, <3>2
    <3>4. U!ContentAt(f, recorded) = Entries[U!Last(S)].version
      BY <2>3 DEF U!ContentAt, S
    <3> QED BY <3>3, <3>4 DEF U!Versions
  <2> QED BY <2>2, <2>3
<1>6. content \in [U!Files -> {-1, 0} \union U!Versions]
  BY <1>2, <1>5
<1>7. list \in 0..released /\ next \in 1..(Len(Entries) + 1)
  BY <1>1, <1>2, <1>3
<1> QED BY <1>2, <1>4, <1>6, <1>7 DEF CardInv, U!TypeOK

(* Steps of the updater that change what is on the card. *)
LEMMA CardWritten ==
  ASSUME CardInv, U!Begin \/ U!OpenFile \/ U!Download \/ U!OpenVersion \/ U!Record
  PROVE  CardInv'
<1>1. /\ content \in [U!Files -> {-1, 0} \union U!Versions]
      /\ recorded \in {0, Torn} \union U!Versions
      /\ local \in {0} \union U!Versions /\ failed \in BOOLEAN
      /\ released \in 0..Len(Entries) /\ list \in 0..released /\ next \in 1..(Len(Entries) + 1)
  BY DEF CardInv, U!TypeOK
<1>2. CASE U!Begin
  <2>1. /\ content' = [f \in U!Files |-> IF f \in Obsolete THEN 0 ELSE content[f]]
        /\ step' = "list" /\ UNCHANGED <<released, recorded, list, next>>
        /\ \/ local' \in {0} \union U!Versions /\ failed' = TRUE
           \/ recorded # Torn /\ local' = recorded /\ UNCHANGED failed
    BY <1>2 DEF U!Begin, U!Goto
  <2>2. local' \in {0} \union U!Versions /\ failed' \in BOOLEAN
    BY <1>1, <2>1
  <2>3. content' \in [U!Files -> {-1, 0} \union U!Versions]
    BY <1>1, <2>1
  <2> QED BY <1>1, <2>1, <2>2, <2>3 DEF CardInv, U!TypeOK
<1>3. CASE U!OpenFile
  <2>1. /\ next <= list /\ content' = [content EXCEPT ![Entries[next].file] = -1]
        /\ step' = "download" /\ UNCHANGED <<released, recorded, local, list, next, failed>>
    BY <1>3 DEF U!OpenFile, U!Goto
  <2>2. content' \in [U!Files -> {-1, 0} \union U!Versions]
    BY <1>1, <2>1
  <2> QED BY <1>1, <2>1, <2>2 DEF CardInv, U!TypeOK
<1>4. CASE U!Download
  <2>1. /\ step = "download" /\ step' = "downloaded"
        /\ UNCHANGED <<released, recorded, local, list, next>>
        /\ \/ /\ content' = [content EXCEPT ![Entries[next].file] = Entries[next].version]
              /\ UNCHANGED failed
           \/ failed' = TRUE /\ UNCHANGED content
    BY <1>4 DEF U!Download, U!Goto
  <2>2. next <= list
    BY <2>1 DEF CardInv
  <2>3. content' \in [U!Files -> {-1, 0} \union U!Versions] /\ failed' \in BOOLEAN
    BY <1>1, <2>1, <2>2, EntryIs
  <2> QED BY <1>1, <2>1, <2>2, <2>3 DEF CardInv, U!TypeOK
<1>5. CASE U!OpenVersion
  <2>1. /\ step = "downloaded" /\ step' = "record" /\ recorded' = Torn
        /\ UNCHANGED <<released, content, local, list, next, failed>>
    BY <1>5 DEF U!OpenVersion, U!Goto
  <2> QED BY <1>1, <2>1 DEF CardInv, U!TypeOK
<1>6. CASE U!Record
  <2>1. /\ step = "record" /\ step' = "entry" /\ recorded' = Entries[next].version
        /\ next' = next + 1 /\ UNCHANGED <<released, content, local, list, failed>>
    BY <1>6 DEF U!Record, U!Goto
  <2>2. next <= list
    BY <2>1 DEF CardInv
  <2> QED BY <1>1, <2>1, <2>2, EntryIs DEF CardInv, U!TypeOK
<1> QED BY <1>2, <1>3, <1>4, <1>5, <1>6

(* Steps of the updater, and of the world, that do not. *)
LEMMA CardRead ==
  ASSUME CardInv,
         \/ U!GetList \/ U!SkipEntry \/ U!Finish \/ U!Release \/ U!PowerOff
         \/ UNCHANGED updater
  PROVE  CardInv'
<1>1. /\ content \in [U!Files -> {-1, 0} \union U!Versions]
      /\ recorded \in {0, Torn} \union U!Versions
      /\ local \in {0} \union U!Versions /\ failed \in BOOLEAN /\ Len(Entries) \in Nat
      /\ released \in 0..Len(Entries) /\ list \in 0..released /\ next \in 1..(Len(Entries) + 1)
      /\ step \in {"idle", "list", "entry", "download", "downloaded", "record", "done"}
  BY UpdaterAssumption DEF CardInv, U!TypeOK, U!ListAscends
<1>2. CASE U!GetList
  <2>1. /\ step' = "entry" /\ list' \in 0..released /\ next' = 1
        /\ UNCHANGED <<released, recorded, content, local, failed>>
    BY <1>2 DEF U!GetList, U!Goto, U!card
  <2>2. next' \in 1..(Len(Entries) + 1)
    BY <1>1, <2>1
  <2> QED BY <1>1, <2>1, <2>2 DEF CardInv, U!TypeOK
<1>3. CASE U!SkipEntry
  <2>1. /\ step = "entry" /\ next <= list /\ next' = next + 1
        /\ UNCHANGED <<released, recorded, content, step, local, list, failed>>
    BY <1>3 DEF U!SkipEntry, U!card
  <2> QED BY <1>1, <2>1, EntryIs DEF CardInv, U!TypeOK
<1>4. CASE U!Finish
  <2>1. step' = "done" /\ UNCHANGED <<released, recorded, content, local, list, next, failed>>
    BY <1>4 DEF U!Finish, U!Goto, U!card
  <2> QED BY <1>1, <2>1 DEF CardInv, U!TypeOK
<1>5. CASE U!Release
  <2>1. /\ released < Len(Entries) /\ released' = released + 1
        /\ UNCHANGED <<recorded, content, step, local, list, next, failed>>
    BY <1>5 DEF U!Release, U!card
  <2>2. released' \in 0..Len(Entries) /\ list' \in 0..released'
    BY <1>1, <2>1
  <2> QED BY <1>1, <2>1, <2>2 DEF CardInv, U!TypeOK
<1>6. CASE U!PowerOff
  <2>1. /\ step' = "idle" /\ local' = 0 /\ list' = 0 /\ next' = 1
        /\ UNCHANGED <<released, recorded, content, failed>>
    BY <1>6 DEF U!PowerOff, U!card
  <2>2. list' \in 0..released' /\ next' \in 1..(Len(Entries) + 1)
    BY <1>1, <2>1
  <2> QED BY <1>1, <2>1, <2>2 DEF CardInv, U!TypeOK
<1>7. CASE UNCHANGED updater
  <2>1. UNCHANGED <<released, recorded, content, step, local, list, next, failed>>
    BY <1>7 DEF updater
  <2> QED BY <1>1, <2>1 DEF CardInv, U!TypeOK
<1> QED BY <1>2, <1>3, <1>4, <1>5, <1>6, <1>7

(* Every step keeps the types of the updater's state. *)
LEMMA CardNext == CardInv /\ [Next]_vars => CardInv'
<1> SUFFICES ASSUME CardInv, [Next]_vars PROVE CardInv'
  OBVIOUS
<1>1. CASE Update
  BY <1>1, CardWritten, CardRead DEF Update, U!Work
<1>2. CASE Release \/ PowerOff
  BY <1>2, CardRead DEF Release, PowerOff
<1>3. CASE \/ \E d \in Disks : MountFat(d)
           \/ MountBroadcast \/ MountNetwork \/ EndInit \/ Eject
  BY <1>3, CardRead DEF MountFat, MountBroadcast, MountNetwork, EndInit, Eject
<1>4. CASE Patch \/ OpenFile \/ EndApploader \/ UnmountNext \/ Launch \/ ConfirmUpdate
  BY <1>4, CardRead DEF Patch, OpenFile, EndApploader, UnmountNext, Launch, ConfirmUpdate
<1>5. CASE UNCHANGED vars
  BY <1>5, CardRead DEF vars
<1> QED BY <1>1, <1>2, <1>3, <1>4, <1>5 DEF Next

-----------------------------------------------------------------------------
(* The types of the launcher's own state.  Only with SessionInv are they
   inductive: the slots that are put into Mounted, and the slot that a path
   leads to, are slots because the file module's state is one. *)
LauncherInv ==
  /\ pc \in Disks \union {"broadcast", "init", "menu", "apploader", "unmount", "game", "update"}
  /\ hasdefault \in BOOLEAN /\ network \in BOOLEAN /\ patched \in BOOLEAN
  /\ mounts \in Seq(Slots) /\ at \in Nat
  /\ common \in MountPoints \union {None} /\ open \subseteq MountPoints

(* main enters the menu. *)
LEMMA LauncherInit == Init => LauncherInv
<1> SUFFICES ASSUME Init PROVE LauncherInv
  OBVIOUS
<1>1. /\ pc = "sd" /\ hasdefault = FALSE /\ mounts = <<>> /\ common = None /\ at = 0
      /\ network = TRUE /\ patched = FALSE /\ open = {}
  BY DEF Init
<1>2. mounts \in Seq(Slots)
  BY <1>1
<1> QED BY <1>1, <1>2 DEF LauncherInv, Disks

(* A filesystem that is mounted gets a slot, which goes into Mounted. *)
LEMMA LauncherMounts ==
  ASSUME SessionInv, LauncherInv, (\E d \in Disks : MountFat(d)) \/ MountBroadcast
  PROVE  LauncherInv'
<1>1. mounts \in Seq(Slots) /\ fs \in FileSystems
  BY DEF LauncherInv, SessionInv, ModuleInv
<1>2. \A i : i = -1 => i < 0
  OBVIOUS
<1>3. CASE \E d \in Disks : MountFat(d)
  <2>1. PICK d \in Disks : MountFat(d)
    BY <1>3
  <2>2. PICK i \in Slots \union {-1} :
          IF i < 0 THEN UNCHANGED <<hasdefault, mounts>>
          ELSE mounts' = Append(mounts, i) /\ hasdefault' = TRUE
    <3>1. PICK device : IF FatMount(fs, d, device).ret < 0 THEN UNCHANGED <<hasdefault, mounts>>
                        ELSE /\ mounts' = Append(mounts, FatMount(fs, d, device).ret)
                             /\ hasdefault' = TRUE
      BY <2>1 DEF MountFat
    <3>2. FatMount(fs, d, device).ret \in Slots \union {-1}
      BY <1>1, FatMountIs DEF Mounts
    <3> QED BY <3>1, <3>2
  <2>3. mounts' \in Seq(Slots) /\ hasdefault' \in BOOLEAN
    <3>1. CASE i < 0
      BY <1>1, <2>2, <3>1 DEF LauncherInv
    <3>2. CASE ~(i < 0)
      <4>1. i \in Slots
        BY <1>2, <3>2
      <4>2. mounts' = Append(mounts, i) /\ hasdefault' = TRUE
        BY <2>2, <3>2
      <4> QED BY <1>1, <4>1, <4>2
    <3> QED BY <3>1, <3>2
  <2>4. pc' \in {"usb", "broadcast"} /\ UNCHANGED <<common, at, network, patched, open>>
    BY <2>1 DEF MountFat
  <2> QED BY <2>3, <2>4 DEF LauncherInv, Disks
<1>4. CASE MountBroadcast
  <2>1. PICK answers \in BOOLEAN :
          IF RiiFSMount(fs, answers).ret < 0 THEN UNCHANGED mounts
          ELSE mounts' = Append(mounts, RiiFSMount(fs, answers).ret)
    BY <1>4 DEF MountBroadcast, Answers
  <2> DEFINE i == RiiFSMount(fs, answers).ret
  <2>2. i \in Slots \union {-1}
    BY <1>1, RiiFSMountIs DEF Mounts
  <2>3. UNCHANGED mounts \/ (~(i < 0) /\ mounts' = Append(mounts, i))
    BY <2>1
  <2> HIDE DEF i
  <2>4. mounts' \in Seq(Slots)
    BY <1>1, <1>2, <2>2, <2>3
  <2>5. /\ pc' \in {"sd", "init"} /\ hasdefault' = FALSE
        /\ UNCHANGED <<common, at, network, patched, open>>
    BY <1>4 DEF MountBroadcast
  <2> QED BY <2>4, <2>5 DEF LauncherInv, Disks
<1> QED BY <1>3, <1>4

(* The common mount point is one of a filesystem, and so is that of a file that
   is opened. *)
LEMMA LauncherPaths ==
  ASSUME SessionInv, LauncherInv, Patch \/ OpenFile
  PROVE  LauncherInv'
<1>1. fs \in FileSystems /\ fs.mounted \in [Slots -> MountPoints \union {None}]
  BY FileSystemIs DEF SessionInv, ModuleInv
<1>2. CASE Patch
  <2>1. /\ pc' = "apploader" /\ UNCHANGED <<hasdefault, mounts, at, network, patched, open>>
        /\ \/ UNCHANGED common
           \/ \E slot \in Slots : fs.mounted[slot] # None /\ common' = fs.mounted[slot]
    BY <1>2 DEF Patch
  <2> QED BY <1>1, <2>1 DEF LauncherInv
<1>3. CASE OpenFile
  <2>1. PICK c \in used : /\ Lookup(fs, PathOf(c)) # None
                          /\ open' = open \union {Lookup(fs, PathOf(c))}
    BY <1>3 DEF OpenFile
  <2>2. Lookup(fs, PathOf(c)) \in MountPoints
    BY <1>1, <2>1, ServingIs DEF Lookup
  <2>3. UNCHANGED <<pc, hasdefault, mounts, common, at, network, patched>>
    BY <1>3 DEF OpenFile, menu
  <2> QED BY <2>1, <2>2, <2>3 DEF LauncherInv
<1> QED BY <1>2, <1>3

(* Steps that put nothing new into Mounted. *)
LEMMA LauncherOthers ==
  ASSUME SessionInv, LauncherInv,
         \/ MountNetwork \/ EndInit \/ Eject \/ EndApploader \/ UnmountNext \/ Launch
         \/ ConfirmUpdate \/ Update \/ Release \/ PowerOff \/ UNCHANGED vars
  PROVE  LauncherInv'
<1>1. CASE MountNetwork
  <2>1. UNCHANGED <<pc, hasdefault, mounts, common, at, network, patched, open>>
    BY <1>1 DEF MountNetwork
  <2> QED BY <2>1 DEF LauncherInv
<1>2. CASE EndInit
  <2>1. /\ pc' = "menu" /\ mounts' = Merged
        /\ UNCHANGED <<hasdefault, common, at, network, patched, open>>
    BY <1>2 DEF EndInit
  <2>2. mounts' \in Seq(Slots)
    BY <2>1, MergedIs DEF LauncherInv, SessionInv, NetworkInv
  <2> QED BY <2>1, <2>2 DEF LauncherInv
<1>3. CASE Eject \/ ConfirmUpdate
  <2>1. /\ pc' \in {"init", "update"}
        /\ UNCHANGED <<hasdefault, mounts, common, at, network, patched, open>>
    BY <1>3 DEF Eject, ConfirmUpdate
  <2> QED BY <2>1 DEF LauncherInv
<1>4. CASE EndApploader
  <2>1. /\ pc' = "unmount" /\ at' = 1 /\ patched' \in BOOLEAN
        /\ UNCHANGED <<hasdefault, mounts, common, network, open>>
    BY <1>4 DEF EndApploader
  <2> QED BY <2>1 DEF LauncherInv
<1>5. CASE UnmountNext
  <2>1. /\ at' = at + 1
        /\ UNCHANGED <<pc, hasdefault, mounts, common, network, patched, open>>
    BY <1>5 DEF UnmountNext
  <2> QED BY <2>1 DEF LauncherInv
<1>6. CASE Launch
  <2>1. /\ pc' = "game" /\ network' \in BOOLEAN
        /\ UNCHANGED <<hasdefault, mounts, common, at, patched, open>>
    BY <1>6 DEF Launch
  <2> QED BY <2>1 DEF LauncherInv
<1>7. CASE Update \/ Release \/ UNCHANGED vars
  <2>1. UNCHANGED <<pc, hasdefault, mounts, common, at, network, patched, open>>
    BY <1>7 DEF Update, Release, vars, menu
  <2> QED BY <2>1 DEF LauncherInv
<1>8. CASE PowerOff
  <2>1. /\ pc' = "sd" /\ hasdefault' = FALSE /\ mounts' = <<>> /\ common' = None /\ at' = 0
        /\ network' = TRUE /\ patched' = FALSE /\ open' = {}
    BY <1>8 DEF PowerOff
  <2>2. mounts' \in Seq(Slots)
    BY <2>1
  <2> QED BY <2>1, <2>2 DEF LauncherInv, Disks
<1> QED BY <1>1, <1>2, <1>3, <1>4, <1>5, <1>6, <1>7, <1>8

(* Every step keeps them. *)
LEMMA LauncherNext == SessionInv /\ LauncherInv /\ [Next]_vars => LauncherInv'
BY LauncherMounts, LauncherPaths, LauncherOthers DEF Next

(* The variables of the file module, of the launcher and of the updater have
   their types: MenuInit's merged list is one of slots, the default and the
   log's slot are places of the table, the paths lead to mount points, and the
   updater's loop stays within the list, whatever is mounted and however often. *)
THEOREM SessionTyped == Spec => []TypeOK
<1>1. Init => SessionInv /\ LauncherInv /\ CardInv
  BY SessionInit, LauncherInit, CardInit DEF Init
<1>2. SessionInv /\ LauncherInv /\ CardInv /\ [Next]_vars => (SessionInv /\ LauncherInv /\ CardInv)'
  BY SessionNext, LauncherNext, CardNext
<1>3. SessionInv /\ LauncherInv /\ CardInv => TypeOK
  BY DEF SessionInv, ModuleInv, ChoicesInv, NetworkInv, LauncherInv, CardInv, TypeOK
<1> QED BY <1>1, <1>2, <1>3, PTL DEF Spec
=============================================================================
