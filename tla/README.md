# Riivolution: a verification project

TLA+ specifications of the parts of Riivolution (the launcher, the two IOS
modules it loads and the network file server) whose correctness depends on
order, history or position rather than on one function: the network filesystem
and the timeouts of its server, the file module's mounts and what the launcher
does with them from start-up to the game, the updater, the files the DIP module
keeps open, and the patched disc. TLC checks each of them on small instances;
TLAPS proves every invariant, and both refinements, for every value of the
constants.

Contents: 1 the system, 2 the plan, 3 the modules, 4 the runs, 5 bounds and
fairness, 6 the proofs, 7 where the code and its documentation disagree,
8 what is not modelled, 9 how to run it.

## 1. The system

Riivolution runs on a Wii. The *launcher* reads XML configuration files from
SD, USB or the network, lets the player choose patches, edits the disc's file
table and starts the game. Two modules stay behind in IOS, on the other
processor: the *file module*, which gives access to filesystems, and the *DIP
module*, which stands between the game and the disc drive and serves patched
data. A *RiiFS server* on a PC serves a directory to the file module over TCP.

    game --ioctl Read--> DIP module --ioctl--> disc drive
                            | open, seek, read, close (IPC)
    launcher --mount,       v
      stat, open ------> file module --> FAT / ISFS / RiiFS handler
         |                                              | TCP
         +-- AddFile, AddShift, AddPatch --> DIP        v
                                              RiiFS server (C++ or C#)

Each IOS module is one thread with one message queue (`libios/source/proxiios.cpp`):
a handler runs to its end before the next message is looked at. A handler that
talks to another module or to the network blocks the module. So inside a
module one handler is one action; what interleaves is modules, the server, the
network, timers and the order in which clients call.

| component | state | operations | what is hard | what makes it correct |
|---|---|---|---|---|
| RiiFS client, `file_riifs.cpp` | remembered options, positions and pending seeks of FileInfos, log buffer | Mount, Open, Read, Write, Seek, Sync, Close, directories, names, Log, IdleTick | options skipped because they were sent before; seeks kept back; answers matched to requests by order alone; lost connection | both ends agree on options, descriptors and positions; every call returns |
| RiiFS C++ server, `riifs.cpp` | options, open files and directories of each connection, path identifiers, last ping | 23 commands, ping timeout | failed streams; two threads on one connection | a reply tells what happened on disk |
| RiiFS C# server | as above | as above | as above; exceptions leave a request without a reply | as above |
| file module, `module.cpp` | disks, mounts, default and log filesystem, long path | InitDisc, Mount, Unmount, SetDefault, Shorten, path lookup, idle tick | handles across an unmount; one long path for all clients | a path reaches the mount it names; no handle outlives its mount |
| FAT and ISFS handlers | per-file wrappers | as RiiFS | - | translation of flags and errors |
| DIP module, open files | two linked lists over 8 entries, descriptors, access times | GetFile, ReadFile, idle sweep | long sequences of hits, evictions, failures, sweeps; wrapping clock | no entry lost or shared, no descriptor leaked, LRU order |
| DIP module, patches | tables of files, patches, shifts; partition, shift base, clusters | AddFile, AddShift, AddPatch, SetShiftBase, SetClusters, Read, Open/ClosePartition | reads that meet several patches at any alignment | the game reads the disc the elements ask for |
| DIP module, EMU | path rules, handles through the hook | AddEmu, DoEmu, hooked open/read/... | runs inside another module's handlers | the redirected file is the one read |
| launcher, patching | file table, next shift offset, used filesystems | RVL_SetFST, RVL_Patch on files, folders, shifts, ... | elements that meet on one file | no element disturbs another file |
| launcher, configuration | parsed disc, options, patches | parse, merge, parameters | - | data transformation |
| launcher, menu and start-up | GUI thread, current menu, Mounted, ToMount | menus, mount, launch, unmount | slots taken for disk numbers, reused slots, slots listed twice, the menu entered again | what the game needs stays mounted, its network stays up |
| launcher, updater | version file, downloaded files | compare, download, delete | power cut between two steps, releases in between, downloads that fail | the recorded version is what is installed |
| megamodule | breakpoints, debugger connection | debugger commands | - | development tool |

`PROJECT.json` lists the same components with their source files and status,
and the hazards of the code at the lines where they bite, with the properties
that cover each.

## 2. Plan

In this order, most important first.

1. **RiiFS** - client, connection and server in one module, because every
   property of it relates the two ends. *Done*; all its safety properties
   proved, three of them under a condition that section 7 shows to be needed.
2. **FilePool / DIPFiles** - the abstract pool and the lists that implement it.
   *Done*; all safety properties and the refinement proved.
3. **DiscView / DiscPatch** - what the patches promise, and the launcher and
   DIP module that implement it. *Done* for file, folder and shift elements;
   its safety properties and the refinement proved, under hypotheses on the disc
   and the elements that section 6 gives the reasons for.
4. **FileModule / Session / Updater** - the mount table, the launcher's session
   over it and the update of the card, composed. *Done*, its type invariant and
   all its safety properties proved.
5. **RiiTimeout** - pings, handler threads and the sweep of the server's
   TimeoutThread. *Done*, its safety properties proved.

Left for later: an abstract file that RiiFS refines while no precondition of a finding holds; the C# server's commands as a variant of RiiFS; path redirection
in the DIP module (EMU); the file table's index arithmetic.

Composition: Session puts the launcher, the file module, the updater and the
files the DIP module keeps open into one state. DIPFiles is what
`CanRead`/`FileBytes` of DiscPatch stand for. A RiiFS mount of Session is a
handler of RiiFS and a console of RiiTimeout; the interfaces there are narrow
(open, read, close; a command and its answer), so these are checked apart.

## 3. The modules

**RiiFS.tla**: `RiiHandler` of the file module, one `Connection` of the C++
server and the TCP stream between them. A call of the handler is a program, a
sequence of `Send(option, value)` and `Receive(command)` steps, as its body
is a sequence of SendCommand and ReceiveCommand; `call` and `todo` hold the
call in progress and what is left of it. `ClientSend` is SendCommand with its
`Options`/`OptionsInit` cache, `ClientRequest` and `ClientReceive` the two
halves of ReceiveCommand. What the call does with the answer is in
`OpenReturned` ... `SessionReturned`. On the server each command of
WaitForAction is an action (`FileOpen`, `FileRead`, ...) that takes the
request, changes streams, directories or the disk, and replies. A stream keeps
what the code's `fstream` keeps: position, openmode, whether it has failed, and
in `tail` how many of the last bytes written are still in its buffer. A write either
leaves them there or has them in the file at once (a write larger than the
buffer); it is acknowledged in both cases. `Grown` is the file's length once
the buffer is in it; seeks, reads, FILE_SYNC, FILE_CLOSE and the destructor of the
connection (`CloseNext`, one stream after the other) empty it (`Flush`,
`Flushed`). An append's bytes go behind what is the end of the file *then*.
`CanOpen` and `Truncates` are what the flags come to in `basic_filebuf::open`.
`Drop` loses the connection with whatever was on its way. A loss can be
`silent`: the server sees the connection closed, but no FIN or RST reaches the
console, whose `net_recv` blocks without a timeout until one does.

**RiiFS_proofs.tla**: theorems `OptionsAgree` and `RepliesInStep`.
**RiiFSCalls_proofs.tla**: theorems `CommandsRunOnTheirArguments` and `CallsTyped`.
**RiiFSFiles_proofs.tla**: theorems `DescriptorsAgree`, `ListingsInOrder`,
`WritesAreKept` and `PositionsAgree`. Each of the three extends the one before.

**FilePool.tla**: what the DIP module's pool of open files promises, as a list
of files with the time since their last use. **DIPFiles.tla**: the arrays,
`next` links, descriptors, 32-bit clock and idle timer of `dip.cpp`, shown to
implement FilePool (`PoolSpec`). `ReadFile(f)` is GetFile followed by the
opening in ReadFile, which may fail; `HandleOther` is the idle sweep, with the
links it rewrites. With one file open, the search for another ends at a null
pointer, and its id is compared all the same (`FileId`). `NullFile` is the file
that has the id found there, if one has: GetFile then unlinks the null pointer
as an entry, and the entry that was open is on no list any more (section 7). **FilePool_proofs.tla**: theorems `PoolHasRoom`,
`PoolBounded`, `PoolSorted` and `SweepIsExact`. **DIPFiles_proofs.tla**: `LinksInRange`,
`NoEntryLost`, `NoDescriptorLeaks`, `IdleAreClosed` and `ImplementsFilePool`.

**DiscView.tla**: what the patches promise the game, as the content of each
file and the place it is at. Each step applies the next element and nothing
else changes anything: the element overlays one file, or creates or renames it,
and no other file changes unless it shares the place, with one exception: an
empty file may lie where a file that moves goes, and cannot be read any more if that one
cannot (`OthersKept`). Where the code makes no promise (old bytes
of a file that moves a second time, of an element that does not begin at a
4-byte word, whose external file is too short, or of a file with more patches
than a read looks at) neither does DiscView; what it says of all other files it
says in these cases too. **DiscPatch.tla**:
the launcher's pass over the elements (`SetFST`, `FindCommonFilesystem`,
`PatchFile`, `PatchShift`, `Launch`), the DIP module's tables filled by it, and
the reads served from them as operators (`FindPatch`, `Part`, `Forwards`,
`ReadPatched`, `Read`). Offsets count bytes; `InWords` is what is left of one in
the tables, which keep words. An external file gives the bytes it has
(`Held`), and what it has not stays as the drive or an earlier patch left it. It implements DiscView (`ViewSpec`): the content of a
name is what a read of the whole file returns. **DiscPatch_proofs.tla**: theorems
`OthersUntouched`, `ClustersOnCommon`, `PatchTyped`, `PiecesRead` and `PatchesView`.

**FileModule.tla**: the file module's table of mounts and the ioctls on it, as
operators from a state to what the ioctl returns and the state it leaves: they
are called by one thread that serves one message at a time, and the launcher
calls several in a row. The table's slots are reused, disks are not given back,
`Begins` is the prefix match of `FilePathDesc` on mount points.

**Session.tla** extends it with the launcher. `fs` is the file module, `mounts`
and `tomount` are the globals Mounted and ToMount, `pc` is the menu, or the
place in Haxx_Mount and MenuLaunch. A call of Haxx_Mount is three actions, one
for each device (`MountFat`, `MountBroadcast`), because what is attached
changes while it runs; each of them is a whole step of it, including the default and the
`File_Unmount(SD_DISK)` that takes the number of a disk for a slot.
`MountNetwork` is a network element of an XML file, any number of which are met
in MenuInit; `Eject` enters MenuInit again. `Patch` is the first half of
RVL_Patch (which filesystems are used, is one enough, is it the default);
`EndApploader` patches the game's network code; `UnmountNext` and `Launch` are
RVL_Unmount. `OpenFile` is the DIP module opening a file by the path it was
given. A mount is named by its mount point and a path by the mount point it
starts with, or `Relative`. **Updater.tla** is composed with it by an
instance: its `PowerOff` is the session's. Each write to the card is a
step of its own (`OpenFile` truncates, `Download` fills; `OpenVersion`
truncates, `Record` fills), so that power can go between them.
**Session_proofs.tla**: theorems about both, `UsedStay`, `LogMounted`,
`NetworkStays`, `DevicesOwned`, `PathsLead`, `NoFreed`, `VersionTrue` and `SessionTyped`.

**RiiTimeout.tla**: consoles, their idle ticks and pings, main, the handler
threads and TimeoutThread with the lock they share. Time is counted in units,
and each clock only as far as something depends on it: `silence` is the time
since LastPing, `quiet` the wait of CheckForBroadcast. `Advance` is held back
by `InTime`: a living console ticks every `Period`, its messages arrive within
`Latency`, its commands end within `MaxCommand`. A dead console is free of all that.
When the sweep has closed a connection whose handler is inside a command, its
streams are deleted and its socket is shut down under it. The handler may get to
its end (`Return`), or the server's process ends there (`End`), by what a deleted stream does or,
on Unix, by the SIGPIPE of the send, and every console loses its connection; `Restart`
starts the server again.
**RiiTimeout_proofs.tla**: three theorems.

**MC\*.tla** give the constants of the runs.

Operators named in a comment as *mutant* are what a plausible bug in that
place would look like; `PROJECT.json` says which property each one breaks. They
are not part of any specification.

## 4. The runs

| run | states | question |
|---|---|---|
| RiiFS_read | 687k | two handles open, read, seek, close: do options, positions and descriptors of the two ends agree |
| RiiFS_write | 1.2M | write, append, sync, seek, with the log, pings and CheckPhysical between: the same, and is what is acknowledged kept |
| RiiFS_names | 2.0M | stat, create, delete, rename, mkdir and listings with a file or directory open: does each command use its own call's path; each entry once, in order |
| RiiFS_drop | 775k | writes, appends, seeks, syncs and closes, and the connection lost at any step, noticed at once, late or never: does every call return, does a new connection start clean, are acknowledged bytes that are still in a buffer kept |
| FilePool | 617 | the abstract pool keeps its invariants |
| DIPFiles | 80k | the lists partition the entries, own the descriptors, implement the pool; idle files are closed in time, and not early, across wraps of the clock |
| DiscPatch | 26k | replacing, growing, cutting, overlaying two neighbouring files, at words and between, with too many patches, creating, folders, renaming, missing files, files left empty, two filesystems, with and without shiftfiles |
| Session | 1.8M | from start-up to the game or the updater: is what the game needs mounted, found and connected; does the version file tell the truth after a power cut |
| RiiTimeout | 303k | does the sweep spare the living, touch nothing deleted, and get rid of the dead |

All of these pass. Three more runs show the disagreements of section 7.

What the properties say, beyond the type invariants:

- *OptionAgreement*: an option the client will not send again is the one the
  server holds or will hold. *RunsWithCallArguments*: no command runs on an
  option of an earlier call. (With paths and data of 4 bytes excluded: section 7.)
- *PositionAgreement*: between calls the client's position is the server's,
  unless a seek is pending or the file was opened to append (the client does not
  know where an append goes). *DescriptorAgreement*: streams and FileInfos
  correspond one to one. *RepliesMatch*: at most one reply is on its way, and
  it is the awaited one. *ListingInOrder*. *AcknowledgedWritesKept*: bytes
  that a write acknowledges are in the stream's buffer or in the file, where the
  stream was or, for appends, behind the end; no step takes them from the buffer without
  having them in the file, and an acknowledged Sync leaves the buffer empty.
  *CallReturns*: every operation returns, unless the connection is lost
  while it waits for an answer and nothing ever tells the console.
- *ListsPartition*, *DescriptorsOwned*, *IdleFilesClose*, *PoolSpec* for the
  pool; *Distinct* and *Sorted* for its abstraction.
- *ViewSpec*: each element changes the contents the game reads as DiscView
  says. *PiecesAgree*: a read in pieces gives what a whole read gives.
  *OtherPartitionsUntouched*, *ClustersOnCommonFilesystem*.
- *UsedStayMounted*: the slot a choice's XML came from still holds that
  filesystem in the game; between the two it may have been named as a disk,
  freed and reused. *PathsLeadHome*: a replacement's path, shortened or not,
  reaches its own filesystem after the others are gone. *NoFreedHandler*: no
  open file points to a deleted handler. *LogIsMounted*. *NetworkForServers*:
  the launcher's shutdown and the patch of the game, decided at two different
  times from ToMount, both spare a server in use. *UpdaterOwnsDevices*: two
  drivers never write one card. *RecordedVersionInstalled*: every file is as
  the recorded version has it, or due in the next update, unless a download
  failed or a torn version file was read.
- *LivingStayConnected*: no living console is closed by the sweep, as long as
  its file module handles idle ticks and answers in time. So no handler loses its
  OpenFiles in a command whose answer is awaited, and only the handler of a dead
  console can end the server.
  *NoUseAfterDelete*: what the sweep's loop has yet to visit is not deleted.
  *DeadAreRemoved*: a console switched off, in whatever step, does not keep its
  handler and its files for ever; the end of the server's process is one of the
  ways in which they go.

## 5. Bounds and fairness

RiiFS counts blocks, not bytes: the handler and the server only add, compare
and cut lengths. `MaxSize` (2 to 4) leaves room for a read that is cut short, a
seek past the end and a write that grows a file; `MaxFd` (1 to 3) for two files
open at a time and one opened again; two handles (in RiiFS_read) suffice for
every property that relates two files. Seeks to negative absolute offsets are not made.
`NoPingPending` keeps one ping in flight: a ping is not answered, so nothing in
the code bounds them. A path is one name in one directory. The offset/length
words are not modelled as 32-bit.

RiiFS_drop has one handle and no reads: their program is the shape of a write's,
and after a read that fails its stream AcknowledgedWritesKept is false (section 7).
`tail` says where the acknowledged bytes are, not what they are: two streams with bytes
for the same place each count as kept.

DIPFiles: 2 or 3 places instead of 8 and one file more than places, so that
entries are evicted and are unlinked from the front, the middle and the end;
`Wrap` is just above the longest age, the tightest case of the assumption
`Timeout + Interval + Lag < Wrap`. `NullFile` is `NULL` in DIPFiles: no file has
the id that is at address 0; in DIPFiles_lost one has. `Lag` bounds how late the idle timer's
message is served, which nothing in the code bounds: while a read is served the
module does not look at its queue. FilePool's ages grow for ever; the run stops
at `MaxAge`, past the timeout.

DiscPatch counts bytes. `WordSize` is 2 instead of 4 and `Align` one word
instead of 16. The disc is 9 bytes with two neighbouring files of 3 bytes, at 2
and 6, so that neither ends at a word; up to 3 elements of a set that replaces,
grows, cuts, overlays at an offset, creates and renames. One of the overlays
begins between two words and leaves its file's size alone. `MaxFound` is 2, and
three patches over one file are reached. Elements that do not resize fit their
file, as the code requires of them without a check. The files of the disc begin at words,
which the table of a disc says in words. `HighWord` is out of reach.

Session has 4 slots instead of 32, so that the table fills up and slots are
reused at once; up to 4 servers since start-up, and numbers in base 3, so that
`/mnt/net/1` begins `/mnt/net/10`, which `Unambiguous` excludes where a
property would not hold. The file list has 4 entries of 3 files, one of them
on the deletion list. `CardOrServers` is a state constraint: the states with
two servers or more are explored with an empty file list only. The two
have nothing to do with each other but `PowerOff`, which resets the servers. ISFS
stands in slot 0 from the start; the handlers' own Unmount succeeds. Two lines
of the file list are not of the same version (section 7).

RiiTimeout has two connections, one living console at a time and so one living
and one dead, the smallest times (Period, Latency, MaxCommand and Quiet of 1,
one idle tick before a ping) and the smallest timeout that the assumption allows, 5:
with 4 a living console is closed. In the code 30 ticks of a second and the
ping make about 32 s against 120 s, which leaves 88 s for a late tick and a
long command. One broadcast between two sweeps: without a bound the sweep need
never come (section 7).

Fairness is assumed in two runs. In RiiTimeout, time passes, the sweep's steps
and the handlers' are weakly fair (threads of a PC), taking the lock (StartSweep,
List, Destroy) strongly fair, as a mutex that is released again and again is,
and an idle console ticks. A handler's answer to a dead console is only fair
once the socket has been shut down: until then `send` may block. In RiiFS_drop: weak fairness of the client's steps
(the file module's thread runs the call it is in) and of the server's steps
(the handler thread reads what arrives, and notices a dead connection). No
fairness of callers, and none of `Drop`, so nothing has to tell the console that a
connection is lost: a call that waits for an answer over such a connection never
ends, and with it the file module's thread. CallReturns leaves just this case out. All other properties are safety.

No passing run needs deadlock checking switched off: the callers can always start
another call, the game can always open or close a partition.

## 6. Proofs

**OptionsAgree** (`RiiFS_proofs`): `Spec => []OptionAgreement`, for any sets of
paths, handles, buffers, and any bounds. The
argument takes one option at a time: it *agrees* when the last value of it on
its way is the remembered one or, with none on its way, when the server holds
it. `OptionInv` adds to OptionAgreement what the steps at the two ends of the
stream need: that the stream is a sequence, and that `cache` and `options` are
functions on the options. For each end there is one lemma for a message of the
option and one for any other message (`AppendSame`, `AppendOther`, `TailSame`,
`TailOther`); the proof then goes action by action, and almost all of them leave
cache, options and stream alone. `NewCache` at Mount is where a kept cache would
break it, `Stored` where a lost option would.

**RepliesInStep** (`RiiFS_proofs`): `Spec => []RepliesMatch`. The protocol
has no request numbers: a reply belongs to whatever the handler waits for. RepliesMatch
says nothing of a time when no reply is there, so it is far from inductive.
`ReplyInv` follows the one request there can be: with the connection up, it is
the last message of the stream to the server (`RequestOnItsWay`), or its reply is
the only one in the stream back (`ReplyOnItsWay`), or there is neither and the
handler does not wait (`NothingAwaited`). It also says that what is left of a call
is a program of sends and known commands, so that a request always leaves the
handler waiting, and that an idle handler waits for nothing. Once the connection
is lost, requests may be left over, but get no reply.

**CommandsRunOnTheirArguments**, **CallsTyped** (`RiiFSCalls_proofs`):
`Spec => []RunsWithCallArguments` and `Spec => []TypeOK`, both under `FourByte = {}`:
no option but those of fixed size is ever remembered. Without that the first
is false (RiiFS_stale, section 7), and the proof shows where: it is needed in
`ClientSendKeeps` only, the lemma about the step that skips an option. Neither property is
inductive and neither can be had without the other: the server looks options up
without checking them, so its state has the right shape only if
a command runs on its own call's options, and the handler changes the object of the call in
progress without looking whether it is there. `CallInv` joins OptionInv and ReplyInv to seven
parts. `ArgsInv`: each option a command uses is an argument of the call that is
still to be sent before it, is on its way before it, or is held (`Supplied`). `QueueInv`: the request on its
way is the last message, and a value of the right kind will be there for each of its
options, also once the connection is lost. `SingleInv`: openings, closings and
the session's commands are alone in their call. `RoomInv`: there is a
descriptor for what is opened. `HandleInv`: the objects have their shape, and
what is still due suits the object of the call (`Fits`). `ServerInv`: the
shape of the server's state. `ReturnsInv`: a reply has a value its command can
return. The programs are handled once, by their form (`Proper`); each call then
only has to show that it starts a proper program. That a free inode always
exists (`FreeInodeIs`) is a count: fewer names and streams than inodes.
`UnsetAssumption` is needed: it says that what is not there is not mistaken for a value.

**DescriptorsAgree**, **ListingsInOrder**, **PositionsAgree**, **WritesAreKept**
(`RiiFSFiles_proofs`): `Spec =>` `[]DescriptorAgreement`, `[]ListingInOrder`,
`[]PositionAgreement` and `AcknowledgedWritesKept`, under `FourByte = {}`. Three of
these are agreements *between calls*, and say nothing while a call is under way. The
invariants say what each command under way has done on the server and is
still to do in the handler. `RunsInv` first: what is due is a command of the
call's operation, so that a FILE_TELL belongs to a Seek or a Sync. `OwnInv`: each
stream has its object, or is in the reply to an open (`Opened`); each object
has its stream, unless the reply to its close is on the way; a directory whose object went
first is being closed (`Closing`); a descriptor to come is higher than all there are.
`NextDirInv` and `ListInv`: what the callers have seen is the entries up to the
cursor, or one more while the stat that advances the cursor is due (`StatDue`).
`TransferInv` and `PosInv`: the server's position is the handler's, plus the length in a
reply to a read or a write (`Moving`), or is the one in a reply to a FILE_TELL (`Told`), or is
the end of the file, which a seek asks for next (`AtEnd`); and a read or a write with a seek pending
runs the seek first, to just where the handler is (`SeeksBack`).

PositionsAgree is under `ReadsApart` as well: callers that read do not
write or sync. A read that stops short leaves the stream failed, and a failed stream
acknowledges writes it does not make and tells the position -1 (section 7); the
proof needs the hypothesis in `PosInvWrite` and `PosInvTell` and nowhere else.
RiiFS_read and RiiFS_write are the two ways to satisfy it. WritesAreKept
is under `"Read" \notin Ops` for the same reason: then no stream has failed (`StreamsSound`).
Most of it is about the steps between a write and its flush: each action of the server
leaves a stream with bytes in its buffer as it is, or has the file as long as `Grown` says.

**PoolHasRoom**, **PoolBounded**, **PoolSorted**, **SweepIsExact** (`FilePool_proofs`): from
`FilePoolAssumption` (at least two places, a positive timeout) the pool holds at
most Size files, none twice, in order of age; and a step of the sweep closes
just the files that have reached the timeout. The inductive invariant is the
conjunction of the type invariant, distinctness and the order: the order needs
the ages to be naturals, and that moving a file to the front keeps files
distinct needs them distinct before.

**NoEntryLost**, **NoDescriptorLeaks**, **IdleAreClosed**, **LinksInRange**,
**ImplementsFilePool** (`DIPFiles_proofs`): from `DIPFilesAssumption` (two entries at
least; a timeout, a timer's interval and its lateness that together are less than a
turn of the clock), and under `NullFile \notin Files`: no file has the id that is read
through the null pointer. Without it NoEntryLost, NoDescriptorLeaks and the
refinement are false (DIPFiles_lost, section 7); the proof needs it where the
search of a list of one entry ends. `Chain` follows the links as the code does; the invariant `Inv` says what
it follows: there are two sequences `o` and `f` of entries, each without a
repetition, that the links join from their heads to NULL (`Linked`), with no entry in
both and none left out (`Partition`). Chain of such a list is the sequence
(`ChainIs`), so every property can be said of `o` and `f`, and every relinking of
GetFile - taking a free entry, moving one to the front, evicting the last,
putting one back - is an operation on them. `OwnedBy` says whose the
descriptors are: one each, of different files, for the entries of `o`. `AgedBy` gives each
entry of `o` an age below `Timeout + waited`, never falling along the list. It is
needed for three things: that the sweep, which stops at the first entry that
has expired and closes all after it, closes what has expired and nothing else; that no file stays
open longer; and that the clock's difference modulo 2^32 is a true age, as none
reaches a turn of the clock. For the refinement each action has a lemma
(`HitUses`, `MissUsesOrFails`, `SweepSweeps`, `TickTicks`) that names the action of FilePool it
is under `openFiles`; `ImplementsFilePool` is `Spec => Pool!Spec`.

**TypeCorrect**, **NoUse**, **StayConnected** (`RiiTimeout_proofs`):
`Spec => []TypeOK`, `[]NoUseAfterDelete` and `[]LivingStayConnected`, for any
number of connections and living consoles and any times that satisfy
`TimeoutAssumption`: `MaxCommand + (IdleTicks + 2) * Period + Latency <= Timeout`.
NoUse needs `LockInv`: a handler is closing exactly while it holds the lock,
the sweep holds it as long as its loop has work, and what it has yet to visit
is listed. StayConnected needs two more parts. `InboxInv` says what an
unread inbox can hold: only pings while the console waits for nothing, pings and then
the one command otherwise. `TimeInv` bounds the silence of a living console by the one clock
that is running: the time of the command, the ticks since (`idle * Period +
tick`), or how long a message has been waiting. `NotTimedOut` adds them up;
there is one lemma for each action of the connection, and `OnlyOne` for all
the others. Where a tick turns into a ping (`Sent`) the tick clock is exchanged
for the message clock, which is where the `+ 2` comes from: `IdleCount++ > 30` is true
at the 32nd tick.

**UsedStay**, **LogMounted**, **NetworkStays**, **DevicesOwned**, **PathsLead**,
**NoFreed** (`Session_proofs`): six of Session's properties, for any size of
the mount table, any base, any number of servers mounted and any file list. From
`FileModuleAssumption` (two slots at least, `None` is not a mount point) and
`UpdaterAssumption`. First the ioctls: what `Mount`, `Unmount` and the others
return and leave in a table of any size, which needs that `FirstFree` finds
the first free place, and so that a set of numbers has a least member
(`Smallest`, from the library's theorem on well-founded relations). Then an
invariant in parts. `ModuleInv`: LogFS is mounted; devices have the first two
slots only, because one of the two is free whenever a device is mounted. That
is what makes `File_Unmount` by the number of a disk empty both of them for
the updater. `ChoicesInv`: the choices are made from the table as it is when
the menu is entered, and the loop of RVL_Unmount leaves their slots alone.
`NetworkInv`: every server that is mounted is in ToMount, though erasing takes only the
first of equal entries. The other two theorems need two more parts: `TableInv`,
that no filesystem is mounted twice, although MenuMount goes round until something is
mounted, and `CommonInv`, that the default slot is the common one from
RVL_Patch on and that open files belong to used choices. With fewer than `Base`
servers no mount point begins another (`Digits`), and the prefix match finds the slot.

**VersionTrue** (`Session_proofs`): `Spec => []RecordedVersionInstalled`
for every ascending file list and any deletion list, from `UpdaterAssumption`.
`Holds(v)` is what the version file promises of a version: each file is as v
has it or due in a later one. The invariant is `UpdateInv`. `RecordedInv`: the
recorded version holds, and is torn only between the opening and the writing
of its file. `LoopInv`: every entry before the next one is recorded, and what
is about to be recorded holds already. The step that matters is `Download`
(DownloadKeeps): the versions recorded and downloaded have no other between them, so
all other files are the same in both. A release (ReleaseKeeps) adds a version
later than all that can be recorded. It holds only while `failed` is false:
a download that failed or a torn version file that was read ends the promise.

**SessionTyped** (`Session_proofs`): `Spec => []TypeOK`, from the same two
assumptions. `LauncherInv` needs `SessionInv`: a slot that is put into Mounted is one,
and a path leads to one (`ServingIs`), because the file module's state has its
shape. `CardInv` adds to the updater's types that the loop is within the list
while an entry is downloaded. `MergedIs` is about MenuInit's loop, which
compares each slot of ToMount with the list it is growing; Merged says so step by step.
For a list of slots to come out the function it is defined by must
exist for every length, which is shown by the least length it would not exist for.

**OthersUntouched** (`DiscPatch_proofs`): `Spec => []OtherPartitionsUntouched`
without a hypothesis. `PartitionInv`: patches are noted while the game's
partition is open, so for that one or for none, and with none there are none.

**ClustersOnCommon** (`DiscPatch_proofs`): `Spec => []ClustersOnCommonFilesystem`
under `BelowHighWord`, that the disc's files end below the offset that
SetShiftBase's fall-through mistakes for a request for clusters. Without it the
property is false (section 7). `ClustersInv` also says that each file in the
DIP module's table was added in the way the table is kept, on the default filesystem if
by identifier, which is what `CanReadIs` concludes from: a file can be read just if it exists.

**PatchTyped** (`DiscPatch_proofs`): `Spec => []TypeOK` under `OffsetsInFiles`:
where an element leaves its length to be asked for, its data begin inside the external file.
Otherwise the code's subtraction goes below zero. The shape (`ShapeInv`) needs no
hypothesis; that sizes and offsets are natural numbers (`SizesInv`) does.

**PiecesRead** (`DiscPatch_proofs`): `Spec /\ []Fits /\ []FewMet => []PiecesAgree`.
The read of a piece meets other patches and shifts than the read of the whole
file does, and a shift moves all of a read if the read so much as touches it. So the proof
first says where everything lies (`LayoutInv`). `NodesInv`: a node is at a place of the disc
and no longer than the file there was, or behind the disc and below the next offset;
`ApartInv`: two nodes are at one place or apart; `ShiftsInv`: a shift begins where a moved file does,
no place has two, and no rounded read of another file comes near it;
`CoversInv`: what of a moved file is behind its shift is covered by patches. From these,
`ReadIs`: what a read leaves at an offset is `ByteAt`, the last patch that covers the
offset, or else the drive's byte where the shift of the place leads, whichever
read the offset is in. Two reads of one file then agree.

**PatchesView** (`DiscPatch_proofs`): `Spec /\ []Fits /\ []FewMet => ViewSpec`,
the refinement. A content is `ByteAt` over the node, or Unreadable if
a patch under it is of a file that does not exist (`ContentsAre`); each way a node can change
has a lemma about the bytes of the file and one about all others. Two more
invariants: `OccupiedInv`, that a file with a shift has a patch under it, which
ties DiscView's `occupied` to the shift that the code would add a second time; and
`MissingInv`, that a patch of a missing file is not empty.

The hypotheses of the two, with their reasons. The DiscPatch run goes beyond
them: it has an overlay that does not begin at a word, and more than MaxFound
patches over a file.

- `LaidOut`, `NothingBehind`: files of the disc do not overlap but where two names
  share a place, the rounded end of none is behind that of the last one, and the
  drive has nothing behind it. A file that moves is put there.
- `BelowHighWord`, as above.
- `Fits`: an element begins at a word within the file it meets or at its end, it ends
  within it if it is not to resize it, and its external file, if it exists, holds
  the data the element asks for. The launcher checks none of this. Beyond the end,
  there is a gap that no patch covers or a patch that lies over the next file; between two
  words, AddPatch puts the data at the one below (`offset >> 2`), and `PatchWords` is
  where the proof needs that nothing is lost by it; and where the external file is too short,
  the bytes are what the drive or an earlier patch gave, which depends on the read
  (`SuppliedInv`).
- `FewMet`: no more than `MaxFound` patches lie under one file. FindPatch ignores
  the others, and which those are depends on the read.
- `OffsetsInFiles` (PiecesRead) or `NoFileOffsets` (PatchesView): the `fileoffset`
  is dropped by the DIP module, so an element with one does not show what it says.
- `NoneMissing` (PiecesRead only): all external files exist. The read of a
  piece is rounded up, and behind the end of a file that was cut it can meet the patch of a
  missing file; then the piece fails, although the file as a whole can be read.
- `StatsExist` (PatchesView): files that come of a folder exist, as the folder was listed.
- `CutsHaveData` (PatchesView): an element that cuts a file behind its start has data.
  One without could cut a moved file down to the part its shift serves, with no patch
  left under it; DiscView could not tell it from a file that never moved.

Attempting PatchesView corrected DiscView. A name that is created for a missing
file, and given up, leaves an empty node at the next offset; the next file that
moves goes to the same place. If that one's external file is missing too, the
empty file is Unreadable from then on, though no element named it. OthersKept
did not allow it. `EmptyElements` in MCDiscPatch has the run meet this case.

Only liveness (CallReturns, DeadAreRemoved) is model-checked and not proved: it is out of
the prover's reach. Every other property of the passing runs is
stated by a theorem: invariants, action properties and the two refinements.

## 7. Where the code and its documentation disagree

Three runs end in a counterexample on purpose; each shows a statement of the
repository that the code does not keep.

- **RiiFS_stale**. SendCommand remembers options by their size: 4-byte values
  are cached, others are sent without touching the cache. With a path of 4
  bytes, Stat of it, Stat of a longer one and Stat of the first again runs the
  last command on the longer path. The server's readme promises that a served
  folder works as an SD card does.
- **RiiFS_update**. A file opened O_RDWR is read to its end, then written: the
  stream is still failed, the "pointless seek" before the write does not clear
  it, nothing is stored and the length is returned as written.
- **DIPFiles_lost**. With exactly one file open, GetFile's search for another
  begins at `OpenFiles->next`, which is NULL. The loop reads `next` through it,
  and the comparison after it reads `fileid`. If that is the wanted id,
  the null pointer is moved to the front: OpenFiles becomes NULL, the
  entry that was open is on neither list, and GetFile returns NULL. The sweep
  never closes the lost file ("all files after the first expired one will be
  closed", `dip.cpp:71`), and each loss leaves one place less. In `struct DIPFile`
  (`dip.h:104-109`) `fileid` is at 0 and `next` at 12. Address 0 is readable there
  and holds the disc's title id (`binfile.c:78`, `fileprovider.cpp:106`, the
  launcher's `wdvd.cpp:87`), so the file that is concerned is the one whose id is
  the first halfword there: id 0, the first file added, if it reads as 0. The model
  takes `next` at 12 to be 0 at the start, has the code's write to it, and takes
  a File_Close of what is at address 4 (the null pointer evicted, once all other
  entries are lost) to close no file. ReadFile then returns without a read, and the
  game's read fails.

The passing runs stay away from these preconditions by their constants
(`FourByte = {}`, no O_RDWR, no file with the id at address 0), not by changing the
model.

Observations that are not runs.

*RiiFS and the disc.* Sync with a seek pending takes over the
server's position; FILE_TELL of a failed stream makes the position -1; a
listing ends at the first entry that cannot be stat'ed;
more than 8 patches under one read are ignored; a created node stays in the
file table when its external file is missing. In the C# server an unknown
descriptor's read is not padded, an exception leaves a command without a reply,
and Rename is not refused in read-only mode. The `fileoffset` attribute is parsed
and sent, and dropped by the DIP module. The `offset` attribute is a number of
bytes, and AddPatch drops what is above a multiple of 4: the data lie lower
than the element says, and if the element made the file grow, its last bytes are
covered by no patch and read as whatever the read left there. An external file
shorter than the element says leaves the rest of its place as it was.
`SetShiftBase` has no return and falls through to `SetClusters`, whose argument is then the
upper half of the shift base: on a disc whose files end behind 4 GiB, files are added
by identifier although no filesystem is common, and the file module takes an
identifier for one of the default filesystem. `HighWord` is the offset from which on this half is not
zero; with it within reach and patches of files on two filesystems,
ClustersOnCommonFilesystem is false.

*RiiFS and time.* A connection that is lost without a FIN or RST blocks the
file module in `net_recv`, for every filesystem, until one comes (`file_riifs.cpp:108-113`
makes the socket blocking again, `netrecv` has no timeout). A handler inside a command of a dead
console, when the sweep closes its connection, goes on with streams that were
deleted, and its `send` fails; on Unix that raises SIGPIPE, which
`riifs_pthread.cpp` does not ignore. Either can end the server for the living
consoles as well. A full disk is noticed when a stream's buffer is flushed, after
the writes in it were acknowledged; Sync and Close return 1 all the same. A server that
ends, by itself or with its PC, loses what is in the buffers. Broadcasts that keep coming less than 15 s apart postpone the sweep for
ever.

*Mounts.* `File_Unmount(SD_DISK)` and `File_Unmount(USB_DISK)` take slots 0 and
1, not disks. With an SD card alone, ISFS is unmounted and the card stays. With
a USB device alone it is mounted at slot 1 and unmounted again, although
`launcher/hbc/apps/riivolution/readme.txt:8` has content on "SD or USB devices"; with both, USB takes slot 0
and the card at slot 1 goes. A device that is started but holds no FAT keeps
its place in Disk, so after 32 attempts no card is noticed. From the tenth
server on, `/mnt/net/1` also begins the paths of `/mnt/net/10`. Each return to
MenuInit mounts the network elements' servers again.

*Updater.* A failed download is recorded as installed. A version file torn by
a power cut leaves the version it is compared with unread. When
a release has two lines, an interruption between them loses the second: the
first one already recorded the version. The loop that follows the download
reads the list's four fields two at a time.

## 8. What is not modelled

The model of a stream is that of libstdc++: tellg leaves the buffer alone, a seek
empties it, a large write goes past it. Of the parts that have modules: the handler's NextDirCache (compiled out) and
GetFreeSpace; path identifiers (`Stat::IDs`); subdirectories; a second client
of one server on the same files; what a handler's use of deleted streams does to
the server later, if it does not end at once; a disk that is full; a file module that
is blocked for longer than `InTime` allows, on another filesystem or another
connection (the sweep then closes a living console); the branch of NextDir
without a stat buffer, which never moves the cursor (libfile's callers in the launcher and the
DIP module all pass one); allocation failures;
discs whose last file is not aligned; the file table's indexes and name table;
patches of raw offsets, save games, DLC and memory; DoEmu; disc handling and
the GUI thread of the menus; file operations on ISFS; Shorten, whose long path is only
kept between two calls of one client. Of the others, see the components of
`PROJECT.json`: the EMU hook is planned; XML parsing, device drivers, vendored
libraries (libxml2 and the like, nine tenths of the lines of the repository)
and the separate desktop tools are left out as data, user interface or code of
others.

## 9. Running it

    tlc -workers 2 -config RiiFS_read.cfg MCRiiFS.tla
    tlapm RiiFS_proofs.tla
    tlapm RiiFSCalls_proofs.tla
    tlapm RiiFSFiles_proofs.tla
    tlapm FilePool_proofs.tla
    tlapm DIPFiles_proofs.tla
    tlapm RiiTimeout_proofs.tla
    tlapm Session_proofs.tla
    tlapm DiscPatch_proofs.tla

`PROJECT.json` names the module of each configuration. Every run ends within
four minutes on two cores, most of them within one.
