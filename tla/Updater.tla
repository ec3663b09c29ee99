------------------------------ MODULE Updater -------------------------------
(***************************************************************************)
(* The updater (launcher/source/update.cpp): the version file on the card, *)
(* the files it vouches for, and the steps of UpdateIsConfirmed, each of   *)
(* which the console may be switched off in.  An entry of the file list    *)
(* names a version and one of the files it changes; the list has them in   *)
(* ascending order of versions and grows with each release.                *)
(***************************************************************************)
EXTENDS Integers, Sequences

CONSTANTS
  Entries,     \* the file list, with the entries of releases to come
  Obsolete,    \* the files of the deletion list
  Torn         \* the version file after fopen(..., "wb"), before it is written

Files == {Entries[k].file : k \in DOMAIN Entries}
Versions == {Entries[k].version : k \in DOMAIN Entries}

(* What Session assumes of the constants. *)
ListAscends ==
  /\ Entries \in Seq([version : Nat \ {0}, file : Files])
  /\ \A j, k \in DOMAIN Entries : j < k => Entries[j].version < Entries[k].version
  /\ Torn \notin Nat

VARIABLES
  released,    \* how many entries the list on the server has
  recorded,    \* the version file
  content,     \* for each file the version it is of, 0 if it is not there, -1 if only partly
  step,        \* where UpdateIsConfirmed is
  local,       \* localVersion
  list,        \* how many entries were downloaded
  next,        \* the entry the loop is at
  failed       \* a download failed, or a torn version file was read

vars == <<released, recorded, content, step, local, list, next, failed>>
card == <<recorded, content>>

(* The files as version v has them. *)
Last(S) == CHOOSE k \in S : \A j \in S : j <= k
EntriesOf(f, v) == {k \in 1..released : Entries[k].file = f /\ Entries[k].version <= v}
ContentAt(f, v) == IF EntriesOf(f, v) = {} THEN 0 ELSE Entries[Last(EntriesOf(f, v))].version

Idle == step = "idle" /\ local = 0 /\ list = 0 /\ next = 1

(* The card was prepared with a release; the updater has not run yet. *)
Init ==
  /\ released \in 0..Len(Entries)
  /\ recorded \in {0} \union {Entries[k].version : k \in 1..released}
  /\ content = [f \in Files |-> ContentAt(f, recorded)]
  /\ Idle
  /\ failed = FALSE

Goto(s) == step' = s

(* The next release appears on the server. *)
Release ==
  /\ released < Len(Entries)
  /\ released' = released + 1
  /\ UNCHANGED <<card, step, local, list, next, failed>>

(* The version file was opened; the obsolete files are removed, and then the
   version is read: with a torn file, localVersion is whatever it was. *)
Begin ==
  /\ step = "idle"
  /\ content' = [f \in Files |-> IF f \in Obsolete THEN 0 ELSE content[f]]
  /\ IF recorded = Torn THEN local' \in {0} \union Versions /\ failed' = TRUE
     ELSE local' = recorded /\ UNCHANGED failed
  /\ Goto("list")
  /\ UNCHANGED <<released, recorded, list, next>>

(* downloadFilesFromVersionFile gets the list, or the part that arrived. *)
GetList ==
  /\ step = "list"
  /\ list' \in 0..released
  /\ next' = 1
  /\ Goto("entry")
  /\ UNCHANGED <<released, card, local, failed>>

(* compareVersions with the version the update began with.  Mutant: the
   recorded version is downloaded once more. *)
IsNewerOrSame(v) == local <= v
IsNewer(v) == local < v

SkipEntry ==
  /\ step = "entry" /\ next <= list /\ ~IsNewer(Entries[next].version)
  /\ next' = next + 1
  /\ UNCHANGED <<released, card, step, local, list, failed>>

(* downloadFile: fopen(..., "wb") empties the file, and curl fills it. *)
OpenFile ==
  /\ step = "entry" /\ next <= list /\ IsNewer(Entries[next].version)
  /\ content' = [content EXCEPT ![Entries[next].file] = -1]
  /\ Goto("download")
  /\ UNCHANGED <<released, recorded, local, list, next, failed>>

(* A failure is printed, and the version is recorded all the same. *)
Download ==
  /\ step = "download"
  /\ \/ content' = [content EXCEPT ![Entries[next].file] = Entries[next].version]
        /\ UNCHANGED failed
     \/ failed' = TRUE /\ UNCHANGED content
  /\ Goto("downloaded")
  /\ UNCHANGED <<released, recorded, local, list, next>>

(* updateLocalVersion: fopen(..., "wb") and then the new version. *)
OpenVersion ==
  /\ step = "downloaded"
  /\ recorded' = Torn
  /\ Goto("record")
  /\ UNCHANGED <<released, content, local, list, next, failed>>

Record ==
  /\ step = "record"
  /\ recorded' = Entries[next].version
  /\ next' = next + 1
  /\ Goto("entry")
  /\ UNCHANGED <<released, content, local, list, failed>>

(* The second pass over the list reads its fields two at a time: none of the
   pairs is an address and one of the files. *)
Finish ==
  /\ step = "entry" /\ next > list
  /\ Goto("done")
  /\ UNCHANGED <<released, card, local, list, next, failed>>

(* The console is switched off and on, or UpdateIsConfirmed is called again. *)
PowerOff ==
  /\ step' = "idle" /\ local' = 0 /\ list' = 0 /\ next' = 1
  /\ UNCHANGED <<released, card, failed>>

Work == Begin \/ GetList \/ SkipEntry \/ OpenFile \/ Download \/ OpenVersion \/ Record \/ Finish

Next == Release \/ Work \/ PowerOff

Spec == Init /\ [][Next]_vars

-----------------------------------------------------------------------------
TypeOK ==
  /\ released \in 0..Len(Entries)
  /\ recorded \in {0, Torn} \union Versions
  /\ content \in [Files -> {-1, 0} \union Versions]
  /\ step \in {"idle", "list", "entry", "download", "downloaded", "record", "done"}
  /\ local \in {0} \union Versions
  /\ list \in 0..released /\ next \in 1..(Len(Entries) + 1)
  /\ failed \in BOOLEAN

(* The version file vouches for the files: each one is as the recorded version
   has it, unless a later version changes it anyway (and the next update will
   replace it) or it is on the deletion list.  Switching the console off at
   any step does not break this, nor does a release in the middle of an
   update; a download that fails, or a version file torn and then read, does. *)
RecordedVersionInstalled ==
  ~failed /\ recorded # Torn =>
    \A f \in Files \ Obsolete :
      \/ content[f] = ContentAt(f, recorded)
      \/ \E k \in 1..released : Entries[k].file = f /\ Entries[k].version > recorded
=============================================================================
