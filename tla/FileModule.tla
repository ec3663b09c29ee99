----------------------------- MODULE FileModule -----------------------------
(***************************************************************************)
(* The file module's mount table and the ioctls on it (filemodule/source/  *)
(* module.cpp), as operators on its state, a record                        *)
(*                                                                         *)
(*   mounted   Mounted: the filesystem in each slot, or None               *)
(*   disk      Disk: the device started in each place, or None             *)
(*   default   Default: the slot that serves paths without a mount point   *)
(*   logfs     LogFS: the slot that takes the log, or -1                   *)
(*   servers   how many RiiFS servers were mounted since the module started*)
(*                                                                         *)
(* A filesystem is named by its mount point.  An operator yields what the  *)
(* ioctl returns and the state it leaves.                                  *)
(***************************************************************************)
EXTENDS Integers

CONSTANTS
  MaxMounted,  \* FILE_MAX_MOUNTED and FILE_MAX_DISKS
  Base,        \* 10: the base in which the number of a server is written
  None

Slots == 0..(MaxMounted - 1)

Isfs == <<"isfs", 0>>
Fat(d) == <<d, 0>>
Net(n) == <<"net", n>>
Disks == {"sd", "usb"}
MountPoints == ({"isfs", "sd", "usb"} \X {0}) \union ({"net"} \X (Nat \ {0}))

ASSUME FileModuleAssumption ==
  MaxMounted \in Nat \ {0, 1} /\ Base \in Nat \ {0, 1} /\ None \notin MountPoints

(* strncmp(Path, MountPoint, mountlength): p begins with m.  Only the numbers
   of servers can begin with each other, and they have at most 5 digits. *)
BeginsNumber(a, b) ==
  \E p \in {Base, Base * Base, Base * Base * Base, Base * Base * Base * Base} :
    a * p <= b /\ b < (a + 1) * p
Begins(m, p) == m = p \/ (m[1] = "net" /\ p[1] = "net" /\ BeginsNumber(m[2], p[2]))

FileSystems ==
  [mounted : [Slots -> MountPoints \union {None}], disk : [Slots -> Disks \union {None}],
   default : Slots, logfs : Slots \union {-1}, servers : Nat]

Started ==
  [mounted |-> [i \in Slots |-> IF i = 0 THEN Isfs ELSE None],
   disk |-> [i \in Slots |-> None], default |-> 0, logfs |-> -1, servers |-> 0]

(* The first free place of Disk or Mounted, or MaxMounted. *)
FirstFree(places) ==
  CHOOSE i \in 0..MaxMounted :
    /\ \A j \in 0..(i - 1) : places[j] # None
    /\ i \in Slots => places[i] = None

Failed(fs) == [ret |-> -1, fs |-> fs]

(* Ioctl::InitDisc: the device keeps its place from now on. *)
InitDisc(fs, d, present) ==
  LET i == FirstFree(fs.disk)
  IN IF i = MaxMounted \/ ~present THEN Failed(fs)
     ELSE [ret |-> i, fs |-> [fs EXCEPT !.disk[i] = d]]

(* Ioctl::Mount of a filesystem whose own Mount succeeds or not.  Mutant: a
   full table is not noticed. *)
MountUnchecked(fs, m, mounts) ==
  IF ~mounts THEN Failed(fs)
  ELSE [ret |-> FirstFree(fs.mounted), fs |-> [fs EXCEPT !.mounted[FirstFree(fs.mounted)] = m]]
Mount(fs, m, mounts) ==
  LET i == FirstFree(fs.mounted)
  IN IF i = MaxMounted \/ ~mounts THEN Failed(fs)
     ELSE [ret |-> i, fs |-> [fs EXCEPT !.mounted[i] = m]]

(* File_Fat_Mount: the device is absent, holds no FAT filesystem, or does. *)
FatMount(fs, d, state) ==
  LET started == InitDisc(fs, d, state # "absent")
  IN IF started.ret < 0 THEN started ELSE Mount(started.fs, Fat(d), state = "fat")

(* File_RiiFS_Mount: RiiHandler::Mount numbers the servers that answer. *)
RiiFSMount(fs, answers) ==
  LET r == Mount(fs, Net(fs.servers + 1), answers)
  IN IF r.ret < 0 THEN r ELSE [r EXCEPT !.fs.servers = @ + 1]

(* What Unmount does to LogFS and Default.  Mutant: LogFS is not reset. *)
KeepLog(fs, i) == fs.logfs
ResetLog(fs, i) == IF fs.logfs = i THEN -1 ELSE fs.logfs
ResetDefault(fs, i) == IF fs.default = i THEN 0 ELSE fs.default

(* Ioctl::Unmount.  The handlers' own Unmount succeeds. *)
Unmount(fs, i) ==
  IF fs.mounted[i] = None THEN Failed(fs)
  ELSE [ret |-> 0,
        fs |-> [fs EXCEPT !.mounted[i] = None, !.logfs = ResetLog(fs, i),
                          !.default = ResetDefault(fs, i)]]

(* FilePathDesc: the first filesystem in the table whose mount point begins
   the path, otherwise the default one.  A path is the mount point it starts
   with, or Relative. *)
Relative == <<"", 0>>
Serves(fs, i, path) == fs.mounted[i] # None /\ Begins(fs.mounted[i], path)
ServingSlot(fs, path) ==
  IF \E i \in Slots : Serves(fs, i, path)
  THEN CHOOSE i \in Slots : Serves(fs, i, path) /\ \A j \in 0..(i - 1) : ~Serves(fs, j, path)
  ELSE fs.default
Lookup(fs, path) == fs.mounted[ServingSlot(fs, path)]

(* Ioctl::SetDefault by slot and by path.  Mutant: the path is looked up only. *)
SetDefault(fs, i) ==
  IF fs.mounted[i] = None THEN Failed(fs) ELSE [ret |-> 0, fs |-> [fs EXCEPT !.default = i]]
LookPathUp(fs, path) == [ret |-> ServingSlot(fs, path), fs |-> fs]
SetDefaultPath(fs, path) == SetDefault(fs, ServingSlot(fs, path))

(* Ioctl::SetLogFS: slot 0 is not checked. *)
SetLogFS(fs, i) ==
  IF i > 0 /\ fs.mounted[i] = None THEN Failed(fs)
  ELSE [ret |-> 0, fs |-> [fs EXCEPT !.logfs = i]]
=============================================================================
