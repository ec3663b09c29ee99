------------------------------ MODULE Session -------------------------------
(***************************************************************************)
(* The launcher over the file module's mount table, from start-up to the   *)
(* game: Haxx_Mount and Haxx_UnMount (launcher/source/haxx.cpp), MenuMount,*)
(* MenuInit, MenuLaunch and the confirmed update (menu_main.cpp), the      *)
(* network elements of the XML files (riivolution_config.cpp), RVL_Patch   *)
(* and RVL_Unmount (riivolution.cpp), the updater, and the files that the  *)
(* DIP module keeps open.  The console may be switched off at any time,    *)
(* after which only the card is what it was.                               *)
(***************************************************************************)
EXTENDS FileModule, Sequences, FiniteSets

CONSTANTS
  MaxServers,                \* a bound on the RiiFS servers mounted
  Entries, Obsolete, Torn    \* see Updater

VARIABLES
  fs,          \* the file module
  pc,          \* the menu, and the place in it, that the launcher is at
  hasdefault,  \* Haxx_Mount has set the default filesystem
  mounts,      \* Mounted: the slots the launcher thinks of as mounted
  tomount,     \* ToMount: those of network filesystems
  choices,     \* the choices of the options, with the slot their XML file came
               \* from (Filesystem) and the mount point their paths start with
  used,        \* the choices whose patches need files, made by RVL_Patch
  common,      \* the mount point that is left out of registered paths, or None
  at,          \* the place of RVL_Unmount's loop in mounts
  network,     \* the network of the console is up
  patched,     \* the game was patched to leave the sockets alone
  open,        \* the filesystems of the files that the DIP module has opened
  released, recorded, content, step, local, list, next, failed

U == INSTANCE Updater

ASSUME UpdaterAssumption == U!ListAscends /\ MaxServers \in Nat

menu == <<pc, hasdefault, mounts, tomount, choices, used, common, at, network, patched>>
updater == <<released, recorded, content, step, local, list, next, failed>>
vars == <<fs, menu, open, updater>>

InRange(s) == {s[k] : k \in DOMAIN s}

(* main enters MainMenu(Menus::Mount). *)
Init ==
  /\ fs = Started /\ pc = "sd" /\ hasdefault = FALSE
  /\ mounts = <<>> /\ tomount = <<>> /\ choices = {} /\ used = {}
  /\ common = None /\ at = 0 /\ network = TRUE /\ patched = FALSE /\ open = {}
  /\ U!Init

-----------------------------------------------------------------------------
(* Haxx_Mount. *)

DiskNumber(d) == IF d = "sd" THEN 0 ELSE 1     \* SD_DISK, USB_DISK

(* DEFAULT(), for the slot that was just mounted. *)
WithDefault(f, slot) == IF hasdefault THEN f ELSE SetDefault(f, slot).fs

(* File_Unmount(SD_DISK): the number of the device is taken as a slot. *)
MountFat(d) ==
  /\ pc = d
  /\ \E device \in {"absent", "blank", "fat"} :
       LET r == FatMount(fs, d, device)
       IN IF r.ret < 0 THEN fs' = r.fs /\ UNCHANGED <<hasdefault, mounts>>
          ELSE /\ mounts' = Append(mounts, r.ret)
               /\ hasdefault' = TRUE
               /\ fs' = Unmount(WithDefault(r.fs, r.ret), DiskNumber(d)).fs
  /\ pc' = IF d = "sd" THEN "usb" ELSE "broadcast"
  /\ UNCHANGED <<tomount, choices, used, common, at, network, patched, open, updater>>

Answers == IF fs.servers < MaxServers THEN BOOLEAN ELSE {FALSE}

(* A server that answers the broadcast takes the log when there is no disk.
   MenuMount tries again until something is mounted. *)
MountBroadcast ==
  /\ pc = "broadcast"
  /\ \E answers \in Answers :
       LET r == RiiFSMount(fs, answers)
       IN IF r.ret < 0 THEN UNCHANGED <<fs, mounts, tomount>>
          ELSE /\ mounts' = Append(mounts, r.ret)
               /\ tomount' = Append(tomount, r.ret)
               /\ fs' = WithDefault(IF hasdefault THEN r.fs ELSE SetLogFS(r.fs, r.ret).fs, r.ret)
  /\ hasdefault' = FALSE
  /\ pc' = IF mounts' = <<>> THEN "sd" ELSE "init"
  /\ UNCHANGED <<choices, used, common, at, network, patched, open, updater>>

-----------------------------------------------------------------------------
(* MenuInit: the XML files of every filesystem in Mounted are read. *)

XmlSlots == {i \in Slots : i \in InRange(mounts) \union InRange(tomount) /\ fs.mounted[i] # None}

(* A network element: the server is mounted and its own XML files are read,
   which succeeds with every slot that is mounted. *)
MountNetwork ==
  /\ pc = "init" /\ XmlSlots # {}
  /\ \E answers \in Answers, log \in BOOLEAN :
       LET r == RiiFSMount(fs, answers)
       IN /\ r.ret >= 0
          /\ fs' = IF log THEN SetLogFS(r.fs, r.ret).fs ELSE r.fs
          /\ tomount' = Append(tomount, r.ret)
  /\ UNCHANGED <<pc, hasdefault, mounts, choices, used, common, at, network, patched, open, updater>>

(* Mounted gets the slots of ToMount, one after the other, that it does not
   have yet. *)
WithSlot(s, i) == IF i \in InRange(s) THEN s ELSE Append(s, i)
Merged ==
  LET With[k \in 0..Len(tomount)] == IF k = 0 THEN mounts ELSE WithSlot(With[k - 1], tomount[k])
  IN  With[Len(tomount)]

EndInit ==
  /\ pc = "init"
  /\ choices' = {[slot |-> i, home |-> fs.mounted[i]] : i \in XmlSlots}
  /\ mounts' = Merged
  /\ pc' = "menu"
  /\ UNCHANGED <<fs, hasdefault, tomount, used, common, at, network, patched, open, updater>>

(* !Launcher_DiscInserted(): another disc, and MenuInit again. *)
Eject ==
  /\ pc = "menu"
  /\ pc' = "init"
  /\ UNCHANGED <<fs, hasdefault, mounts, tomount, choices, used, common, at, network, patched, open, updater>>

-----------------------------------------------------------------------------
(* MenuLaunch. *)

(* Mutant: the search for the filesystems ends with the first option. *)
FirstUsedSlot(chosen) == IF chosen = {} THEN {} ELSE {(CHOOSE c \in chosen : TRUE).slot}
UsedSlots(chosen) == {c.slot : c \in chosen}

(* RVL_Patch: if one filesystem is enough for the game it becomes the default
   one, and the paths are registered without its mount point. *)
Patch ==
  /\ pc = "menu"
  /\ \E chosen \in SUBSET choices :
       /\ used' = chosen
       /\ \/ /\ Cardinality(UsedSlots(chosen)) # 1
             /\ UNCHANGED <<fs, common>>
          \/ \E slot \in Slots :
               /\ UsedSlots(chosen) = {slot}
               /\ IF fs.mounted[slot] = None THEN UNCHANGED <<fs, common>>
                  ELSE /\ common' = fs.mounted[slot]
                       /\ fs' = SetDefaultPath(fs, fs.mounted[slot]).fs
  /\ pc' = "apploader"
  /\ UNCHANGED <<hasdefault, mounts, tomount, choices, at, network, patched, open, updater>>

(* The path that AddFile was given for a choice. *)
PathOf(c) == IF common # None /\ Begins(common, c.home) THEN Relative ELSE c.home

(* The DIP module opens a file that replaces a part of the disc, and keeps it
   open: while the apploader runs and in the game. *)
OpenFile ==
  /\ pc \in {"apploader", "game"}
  /\ \E c \in used :
       /\ Lookup(fs, PathOf(c)) # None
       /\ open' = open \union {Lookup(fs, PathOf(c))}
  /\ UNCHANGED <<fs, menu, updater>>

(* ApplyBinaryPatches, while the apploader runs: "prevent NWC from failing to
   init or shutting down our sockets". *)
EndApploader ==
  /\ pc = "apploader"
  /\ patched' = (tomount # <<>>)
  /\ pc' = "unmount" /\ at' = 1
  /\ UNCHANGED <<fs, hasdefault, mounts, tomount, choices, used, common, network, open, updater>>

(* RVL_Unmount's condition.  Mutant: the game is forgotten. *)
StaysForLog(slot) == fs.logfs = slot
StaysMounted(slot) == slot \in UsedSlots(used) \/ fs.logfs = slot

(* ToMount.erase.  Mutant: ToMount.clear. *)
Cleared(s, i) == <<>>
Without(s, i) ==
  IF i \notin InRange(s) THEN s
  ELSE LET k == CHOOSE k \in DOMAIN s : s[k] = i /\ \A j \in 1..(k - 1) : s[j] # i
       IN [j \in 1..(Len(s) - 1) |-> IF j < k THEN s[j] ELSE s[j + 1]]

UnmountNext ==
  /\ pc = "unmount" /\ at <= Len(mounts)
  /\ at' = at + 1
  /\ IF StaysMounted(mounts[at]) THEN UNCHANGED <<fs, tomount>>
     ELSE /\ fs' = Unmount(fs, mounts[at]).fs
          /\ tomount' = Without(tomount, mounts[at])
  /\ UNCHANGED <<pc, hasdefault, mounts, choices, used, common, network, patched, open, updater>>

(* "Deinit all network if we're not using it." *)
Launch ==
  /\ pc = "unmount" /\ at > Len(mounts)
  /\ network' = (tomount # <<>>)
  /\ pc' = "game"
  /\ UNCHANGED <<fs, hasdefault, mounts, tomount, choices, used, common, at, patched, open, updater>>

-----------------------------------------------------------------------------
(* The update is confirmed: Haxx_UnMount, and then the updater with a FAT
   library of its own.  Mutant: one device is unmounted. *)
HaxxUnMountSD(f) == Unmount(f, DiskNumber("sd")).fs
HaxxUnMount(f) == Unmount(Unmount(f, DiskNumber("sd")).fs, DiskNumber("usb")).fs

ConfirmUpdate ==
  /\ pc = "menu"
  /\ fs' = HaxxUnMount(fs)
  /\ pc' = "update"
  /\ UNCHANGED <<hasdefault, mounts, tomount, choices, used, common, at, network, patched, open, updater>>

Update == pc = "update" /\ U!Work /\ UNCHANGED <<fs, menu, open>>

Release == U!Release /\ UNCHANGED <<fs, menu, open>>

PowerOff ==
  /\ fs' = Started /\ pc' = "sd" /\ hasdefault' = FALSE
  /\ mounts' = <<>> /\ tomount' = <<>> /\ choices' = {} /\ used' = {}
  /\ common' = None /\ at' = 0 /\ network' = TRUE /\ patched' = FALSE /\ open' = {}
  /\ U!PowerOff

Next ==
  \/ \E d \in Disks : MountFat(d)
  \/ MountBroadcast \/ MountNetwork \/ EndInit \/ Eject
  \/ Patch \/ OpenFile \/ EndApploader \/ UnmountNext \/ Launch
  \/ ConfirmUpdate \/ Update \/ Release \/ PowerOff

Spec == Init /\ [][Next]_vars

-----------------------------------------------------------------------------
TypeOK ==
  /\ fs \in FileSystems
  /\ pc \in Disks \union {"broadcast", "init", "menu", "apploader", "unmount", "game", "update"}
  /\ hasdefault \in BOOLEAN /\ network \in BOOLEAN /\ patched \in BOOLEAN
  /\ mounts \in Seq(Slots) /\ tomount \in Seq(Slots) /\ at \in Nat
  /\ used \subseteq choices /\ choices \subseteq [slot : Slots, home : MountPoints]
  /\ common \in MountPoints \union {None} /\ open \subseteq MountPoints
  /\ U!TypeOK

Launched == pc \in {"apploader", "unmount", "game"}

(* With fewer than Base servers since start-up no mount point begins another. *)
Unambiguous == fs.servers < Base

(* "Only keep the filesystem mounted if a patch that needs to be running
   during the game is using it": whatever was mounted, unmounted by the number
   of its device and mounted again before, the slot that the XML file of a
   choice came from still holds that filesystem in the game. *)
UsedStayMounted ==
  Launched => \A c \in used : fs.mounted[c.slot] = c.home

(* The path of a replacement file, with its mount point or without it when
   there is one filesystem for all, leads to the filesystem it was written
   for, also after the others are gone. *)
PathsLeadHome ==
  Launched /\ Unambiguous => \A c \in used : Lookup(fs, PathOf(c)) = c.home

(* Unmount deletes the handler at once: none of a file that is open. *)
NoFreedHandler == Unambiguous => open \subseteq InRange(fs.mounted)

(* The log goes to a filesystem that is mounted. *)
LogIsMounted == fs.logfs # -1 => fs.mounted[fs.logfs] # None

(* Neither the launcher nor the game shuts the network down under a server that
   the game or the log needs, although ToMount loses entries, Mounted has slots
   twice and the game is patched before anything is unmounted. *)
NetworkForServers ==
  pc = "game" /\ (\E i \in Slots, n \in 1..MaxServers : fs.mounted[i] = Net(n)) =>
    network /\ patched

(* The updater writes to the card with another driver: the file module has no
   filesystem on a device any more. *)
UpdaterOwnsDevices ==
  pc = "update" => \A i \in Slots, d \in Disks : fs.mounted[i] # Fat(d)

RecordedVersionInstalled == U!RecordedVersionInstalled
=============================================================================
