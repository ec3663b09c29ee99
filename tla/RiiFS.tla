------------------------------- MODULE RiiFS -------------------------------
(***************************************************************************)
(* The network filesystem: RiiHandler, the handler of the file module that *)
(* runs on the console (filemodule/source/file_riifs.cpp), one Connection  *)
(* of the C++ server (riifs/server-c/riifs.cpp), and the TCP stream that   *)
(* joins them.                                                             *)
(*                                                                         *)
(* An operation of the handler is a short program of SendCommand and       *)
(* ReceiveCommand calls.  SendCommand sets one option of the connection    *)
(* and gets no answer; ReceiveCommand runs a command on the options set so *)
(* far and waits for its return value.  The handler remembers the 4-byte   *)
(* options it has sent and does not send them again, and it keeps the file *)
(* position itself, so the two ends hold three pieces of state each that   *)
(* have to agree: options, descriptors and positions.                      *)
(*                                                                         *)
(* Lengths and positions count blocks, names and written data are model    *)
(* values, and the served directory is flat: every path lies in it.        *)
(***************************************************************************)
EXTENDS Integers, Sequences, FiniteSets, SequencesExt

CONSTANTS
  Paths,       \* names in the served directory
  Handles,     \* FileInfo objects the file module can allocate
  Data,        \* buffers a caller can write
  DataLen,     \* [Data -> length]
  FourByte,    \* the paths and buffers that are exactly 4 bytes long
  Modes,       \* open modes callers use, sets of flags
  Lengths,     \* lengths callers read
  Offsets,     \* offsets callers seek to
  Ops,         \* operations callers use
  Drops,       \* BOOLEAN: the connection can be lost
  MaxFd,       \* bound on OpenFileFD
  MaxSize,     \* bound on file sizes and positions
  InitSize,    \* [SUBSET Paths -> size], the files served at the start
  Root,        \* the path of the served directory
  Unset        \* an option, descriptor or object that is not there

Flags == {"WRONLY", "RDWR", "CREAT", "TRUNC", "APPEND"}
Options == {"HANDSHAKE", "FILE", "PATH", "MODE", "LENGTH", "DATA", "WHERE", "WHENCE",
            "RENAME_SOURCE", "RENAME_DESTINATION", "PING"}
Commands == {"HANDSHAKE", "GOODBYE", "LOG", "FILE_OPEN", "FILE_READ", "FILE_WRITE", "FILE_SEEK",
             "FILE_TELL", "FILE_SYNC", "FILE_CLOSE", "FILE_STAT", "FILE_CREATE", "FILE_DELETE",
             "FILE_RENAME", "FILE_CREATEDIR", "FILE_OPENDIR", "FILE_CLOSEDIR",
             "FILE_NEXTDIR_PATH", "FILE_NEXTDIR_STAT"}
FixedOptions == {"FILE", "MODE", "LENGTH", "WHERE", "WHENCE"}
Whences == {"SET", "CUR", "END"}
Fds == 1..MaxFd
Inodes == 1..(Cardinality(Paths) + MaxFd)
Dir == 0   \* what a name that is a directory refers to

ASSUME RiiFSAssumption ==
  /\ DataLen \in [Data -> Nat \ {0}]
  /\ FourByte \subseteq Paths \union Data
  /\ Modes \subseteq SUBSET Flags
  /\ Lengths \subseteq Nat /\ Offsets \subseteq Int
  /\ Drops \in BOOLEAN
  /\ MaxFd \in Nat \ {0} /\ MaxSize \in Nat
  /\ IsFiniteSet(Paths)
  /\ DOMAIN InitSize \subseteq Paths
  /\ \A p \in DOMAIN InitSize : InitSize[p] \in 0..MaxSize
  /\ Root \notin Paths
  /\ Unset \notin Commands

VARIABLES
  (* RiiHandler *)
  mounted,     \* Mounted[n] holds this handler
  call,        \* the operation in progress and the options it sets, or Idle
  todo,        \* the SendCommand and ReceiveCommand calls it has left
  awaiting,    \* the command whose return value is awaited, or Unset
  cache,       \* Options/OptionsInit: the 4-byte options sent last
  handle,      \* [Handles -> RiiFileInfo or Unset]
  logBuffer,   \* LogBuffer: text to be sent at the next tick, or Unset
  (* the connection *)
  link,        \* BOOLEAN: the TCP connection is up
  silent,      \* BOOLEAN: it is not, and nothing has told the console
  toServer, toClient,
  (* Connection *)
  serving,     \* BOOLEAN: the Connection object exists
  options,     \* Options
  stream,      \* OpenFiles: [Fds -> fstream or Unset]
  listing,     \* OpenDirs: [Fds -> directory snapshot and cursor, or Unset]
  nextFd,      \* OpenFileFD
  (* the disk of the server *)
  name,        \* [Paths -> Inodes, Dir or Unset]
  size         \* [Inodes -> length]

clientVars == <<mounted, call, todo, awaiting, cache, handle, logBuffer>>
linkVars == <<link, silent, toServer, toClient>>
serverVars == <<serving, options, stream, listing, nextFd>>
diskVars == <<name, size>>
vars == <<clientVars, linkVars, serverVars, diskVars>>

Send(o, v) == [act |-> "SEND", opt |-> o, val |-> v]
Receive(c) == [act |-> "RECEIVE", opt |-> c, val |-> Unset]
Idle == [op |-> "Idle", h |-> Unset, args |-> {}]

NewFile(fd) == [kind |-> "file", fd |-> fd, pos |-> 0, dirty |-> FALSE, seen |-> <<>>]
NewDir(fd) == [NewFile(fd) EXCEPT !.kind = "dir"]

IsFile(h) == handle[h] # Unset /\ handle[h].kind = "file"
IsDir(h) == handle[h] # Unset /\ handle[h].kind = "dir"

(* The server's name table at the start: one inode for each file of InitSize. *)
Init ==
  /\ mounted = FALSE /\ call = Idle /\ todo = <<>> /\ awaiting = Unset
  /\ cache = [o \in Options |-> Unset]
  /\ handle = [h \in Handles |-> Unset]
  /\ logBuffer = Unset
  /\ link = FALSE /\ silent = FALSE /\ toServer = <<>> /\ toClient = <<>>
  /\ serving = FALSE
  /\ options = [o \in Options |-> Unset]
  /\ stream = [fd \in Fds |-> Unset]
  /\ listing = [fd \in Fds |-> Unset]
  /\ nextFd = 1
  /\ LET order == SetToSeq(DOMAIN InitSize)
     IN  /\ name = [p \in Paths |-> IF p \in DOMAIN InitSize
                                    THEN CHOOSE i \in DOMAIN order : order[i] = p
                                    ELSE Unset]
         /\ size = [i \in Inodes |-> IF i \in DOMAIN order THEN InitSize[order[i]] ELSE 0]

-----------------------------------------------------------------------------
(* The handler's operations: each starts the program of one call.           *)

Begin(op, h, steps) ==
  /\ op \in Ops /\ call = Idle
  /\ call' = [op |-> op, h |-> h, args |-> {s \in ToSet(steps) : s.act = "SEND"}]
  /\ todo' = steps
  /\ UNCHANGED <<mounted, awaiting, cache, logBuffer, linkVars, serverVars, diskVars>>
Start(op, h, steps) == mounted /\ Begin(op, h, steps) /\ UNCHANGED handle
Local(op) ==
  /\ op \in Ops /\ mounted /\ call = Idle
  /\ UNCHANGED <<mounted, call, todo, awaiting, cache, linkVars, serverVars, diskVars>>

(* The length of a stream's file once the bytes that write() left in the
   stream's buffer are in it: they end at the position, or are put behind the
   end of the file if it was opened to append. *)
Grown(s) ==
  LET end == IF s.app THEN size[s.node] + s.tail ELSE s.pos
  IN  IF s.tail > 0 /\ end > size[s.node] THEN end ELSE size[s.node]

(* RiiSeek, and DIRTY_SEEK, which runs it before a transfer when a seek is pending. *)
RiiSeek(info, where, whence) ==
  <<Send("FILE", info.fd), Send("WHENCE", whence), Send("WHERE", where), Receive("FILE_SEEK")>>
DirtySeek(info) == IF info.dirty THEN RiiSeek(info, info.pos, "SET") ELSE <<>>

(* What a new handler remembers of the options, and the mutant that remembers
   those of the last connection. *)
KeptCache == cache
NewCache == [o \in Options |-> Unset]

(* Mount connects a new handler to the server, which makes a new Connection
   for it, and sends the handshake. *)
Mount ==
  /\ "Mount" \in Ops
  /\ ~mounted /\ call = Idle /\ ~link /\ ~serving
  /\ call' = [op |-> "Mount", h |-> Unset, args |-> {Send("HANDSHAKE", "1.03")}]
  /\ todo' = <<Send("HANDSHAKE", "1.03"), Receive("HANDSHAKE")>>
  /\ cache' = NewCache /\ logBuffer' = Unset
  /\ link' = TRUE /\ silent' = FALSE /\ toServer' = <<>> /\ toClient' = <<>>
  /\ serving' = TRUE /\ nextFd' = 1
  /\ options' = [o \in Options |-> Unset]
  /\ UNCHANGED <<mounted, awaiting, handle, stream, listing, diskVars>>

(* Callers close their files first. *)
Unmount == /\ \A h \in Handles : handle[h] = Unset
           /\ Start("Unmount", Unset, <<Receive("GOODBYE")>>)

(* Bound: a ping gets no answer, so nothing but this keeps the handler from
   sending the next one before the server has read the last. *)
NoPingPending == \A i \in DOMAIN toServer : toServer[i].opt # "PING"

CheckPhysical == NoPingPending /\ Start("CheckPhysical", Unset, <<Send("PING", Unset)>>)

Open(h, p, mode) ==
  /\ handle[h] = Unset /\ nextFd <= MaxFd
  /\ Start("Open", h, <<Send("PATH", p), Send("MODE", mode), Receive("FILE_OPEN")>>)

Read(h, length) ==
  /\ IsFile(h)
  /\ Start("Read", h, DirtySeek(handle[h]) \o <<Send("FILE", handle[h].fd),
                                                Send("LENGTH", length), Receive("FILE_READ")>>)

(* Bound: no file and no position grows past MaxSize. *)
Write(h, data) ==
  /\ IsFile(h)
  /\ handle[h].pos + DataLen[data] <= MaxSize
  /\ \A i \in Inodes : size[i] + DataLen[data] <= MaxSize
  /\ \A f \in Fds : stream[f] # Unset => Grown(stream[f]) + DataLen[data] <= MaxSize
  /\ Start("Write", h, DirtySeek(handle[h]) \o <<Send("FILE", handle[h].fd),
                                                 Send("DATA", data), Receive("FILE_WRITE")>>)

(* SEEK_SET and SEEK_CUR only move the handler's own position, and a seek to
   where it already is does nothing.  Bound: callers seek to 0..MaxSize; a
   seek from the end may go past it.  Mutant: the seek is not marked pending. *)
MovedClean(info, where) == [info EXCEPT !.pos = where]
Moved(info, where) == [info EXCEPT !.pos = where, !.dirty = TRUE]

SeekLocally(h, where) ==
  /\ where \in 0..MaxSize /\ where # handle[h].pos
  /\ Local("Seek") /\ UNCHANGED logBuffer
  /\ handle' = [handle EXCEPT ![h] = Moved(@, where)]

Seek(h, where, whence) ==
  /\ IsFile(h)
  /\ \/ whence = "SET" /\ SeekLocally(h, where)
     \/ whence = "CUR" /\ SeekLocally(h, handle[h].pos + where)
     \/ whence = "END" /\ Start("Seek", h, RiiSeek(handle[h], where, "END"))

Sync(h) ==
  /\ IsFile(h)
  /\ Start("Sync", h, <<Send("FILE", handle[h].fd), Receive("FILE_TELL"), Receive("FILE_SYNC")>>)

Close(h) ==
  /\ IsFile(h)
  /\ Start("Close", h, <<Send("FILE", handle[h].fd), Receive("FILE_CLOSE")>>)

Stat(p) == Start("Stat", Unset, <<Send("PATH", p), Receive("FILE_STAT")>>)
CreateFile(p) == Start("CreateFile", Unset, <<Send("PATH", p), Receive("FILE_CREATE")>>)
Delete(p) == Start("Delete", Unset, <<Send("PATH", p), Receive("FILE_DELETE")>>)
CreateDir(p) == Start("CreateDir", Unset, <<Send("PATH", p), Receive("FILE_CREATEDIR")>>)
Rename(source, dest) ==
  Start("Rename", Unset, <<Send("RENAME_SOURCE", source), Send("RENAME_DESTINATION", dest),
                           Receive("FILE_RENAME")>>)

OpenDir(h, p) ==
  /\ handle[h] = Unset /\ nextFd <= MaxFd
  /\ Start("OpenDir", h, <<Send("PATH", p), Receive("FILE_OPENDIR")>>)

NextDir(h) ==
  /\ IsDir(h)
  /\ Start("NextDir", h, <<Send("FILE", handle[h].fd), Receive("FILE_NEXTDIR_PATH"),
                           Receive("FILE_NEXTDIR_STAT")>>)

(* The FileInfo is gone before the server is asked. *)
CloseDir(h) ==
  /\ IsDir(h)
  /\ Begin("CloseDir", h, <<Send("FILE", handle[h].fd), Receive("FILE_CLOSEDIR")>>)
  /\ handle' = [handle EXCEPT ![h] = Unset]

(* Log keeps the text for the next tick; added to text already kept it makes
   some other text. *)
Log(text) == Local("Log") /\ logBuffer' = text /\ UNCHANGED handle

(* IdleTick sends the log, and a ping once nothing else was sent for long. *)
IdleTick ==
  /\ NoPingPending
  /\ \E ping \in {<<>>, <<Send("PING", Unset)>>} :
       LET flush == IF logBuffer = Unset THEN <<>>
                    ELSE <<Send("DATA", logBuffer), Receive("LOG")>>
       IN  flush \o ping # <<>> /\ Start("IdleTick", Unset, flush \o ping)

Call ==
  \/ Mount \/ Unmount \/ CheckPhysical \/ IdleTick
  \/ \E p \in Paths : \/ Stat(p) \/ CreateFile(p) \/ Delete(p) \/ CreateDir(p)
                      \/ \E q \in Paths : Rename(p, q)
  \/ \E text \in Data : Log(text)
  \/ \E h \in Handles :
       \/ \E p \in Paths, mode \in Modes : Open(h, p, mode)
       \/ \E length \in Lengths : Read(h, length)
       \/ \E data \in Data : Write(h, data)
       \/ \E where \in Offsets, whence \in Whences : Seek(h, where, whence)
       \/ Sync(h) \/ Close(h)
       \/ \E p \in Paths \union {Root} : OpenDir(h, p)
       \/ NextDir(h) \/ CloseDir(h)

-----------------------------------------------------------------------------
(* SendCommand and ReceiveCommand.                                          *)

(* The options kept in Options/OptionsInit are those of 4 bytes, but for the
   handshake; one that is kept is not sent again.  Mutant: whatever was sent. *)
Cacheable(s) == s.opt \in FixedOptions \/ s.val \in FourByte
CachedAnyValue(s) == Cacheable(s) /\ cache[s.opt] # Unset
Cached(s) == Cacheable(s) /\ cache[s.opt] = s.val

Continue(rest) ==
  /\ todo' = rest
  /\ call' = IF rest = <<>> THEN Idle ELSE call

(* On a dead connection net_send may still take the bytes. *)
ClientSend ==
  /\ todo # <<>> /\ awaiting = Unset /\ Head(todo).act = "SEND"
  /\ LET s == Head(todo)
         remembered == IF Cacheable(s) THEN [cache EXCEPT ![s.opt] = s.val] ELSE cache
     IN  \/ Cached(s) /\ UNCHANGED <<cache, toServer>>
         \/ ~Cached(s) /\ link /\ toServer' = Append(toServer, s) /\ cache' = remembered
         \/ ~Cached(s) /\ ~link /\ UNCHANGED toServer /\ cache' \in {cache, remembered}
  /\ Continue(Tail(todo))
  /\ UNCHANGED <<mounted, awaiting, handle, logBuffer, link, silent, toClient, serverVars, diskVars>>

ClientRequest ==
  /\ todo # <<>> /\ awaiting = Unset /\ Head(todo).act = "RECEIVE"
  /\ awaiting' = Head(todo).opt
  /\ todo' = Tail(todo)
  /\ toServer' = IF link THEN Append(toServer, Head(todo)) ELSE toServer
  /\ UNCHANGED <<mounted, call, cache, handle, logBuffer, link, silent, toClient,
                 serverVars, diskVars>>

(* What each operation does with the value its command returned. *)
WithInfo(info) == /\ handle' = [handle EXCEPT ![call.h] = info]
                  /\ UNCHANGED <<mounted, logBuffer, link>>
NoChange == UNCHANGED <<mounted, handle, logBuffer, link>>

OpenReturned(ret) ==
  /\ awaiting \in {"FILE_OPEN", "FILE_OPENDIR"}
  /\ Continue(todo)
  /\ \/ ret < 0 /\ NoChange
     \/ ret >= 0 /\ awaiting = "FILE_OPEN" /\ WithInfo(NewFile(ret))
     \/ ret >= 0 /\ awaiting = "FILE_OPENDIR" /\ WithInfo(NewDir(ret))

(* Mutant: a write does not move the position. *)
MovesOnRead(ret) == ret > 0 /\ awaiting = "FILE_READ"
MovesPosition(ret) == ret > 0

TransferReturned(ret) ==
  /\ awaiting \in {"FILE_READ", "FILE_WRITE"}
  /\ Continue(todo)
  /\ IF MovesPosition(ret) THEN WithInfo([handle[call.h] EXCEPT !.pos = @ + ret]) ELSE NoChange

(* A seek to the end goes on to ask for the position; a pending seek is over,
   whatever it returned. *)
SeekReturned(ret) ==
  /\ awaiting = "FILE_SEEK"
  /\ \/ /\ call.op = "Seek" /\ NoChange
        /\ Continue(IF ret = 0 THEN <<Receive("FILE_TELL")>> ELSE <<>>)
     \/ /\ call.op # "Seek" /\ Continue(todo)
        /\ WithInfo([handle[call.h] EXCEPT !.dirty = FALSE])

TellReturned(ret) ==
  /\ awaiting = "FILE_TELL" /\ Continue(todo)
  /\ WithInfo([handle[call.h] EXCEPT !.pos = ret])

CloseReturned == awaiting = "FILE_CLOSE" /\ Continue(todo) /\ WithInfo(Unset)

NextDirReturned(ret, entry) ==
  /\ awaiting = "FILE_NEXTDIR_PATH"
  /\ \/ ret < 0 /\ Continue(<<>>) /\ NoChange
     \/ ret >= 0 /\ Continue(todo) /\ WithInfo([handle[call.h] EXCEPT !.seen = Append(@, entry)])

SessionReturned(ret) ==
  /\ awaiting \in {"HANDSHAKE", "GOODBYE", "LOG"} /\ Continue(todo)
  /\ mounted' = CASE awaiting = "HANDSHAKE" -> ret >= 3
                  [] awaiting = "GOODBYE" -> FALSE
                  [] OTHER -> mounted
  /\ link' = (link /\ awaiting # "GOODBYE")
  /\ logBuffer' = IF awaiting = "HANDSHAKE" THEN logBuffer ELSE Unset
  /\ UNCHANGED handle

ValueReturned ==
  /\ awaiting \in {"FILE_SYNC", "FILE_STAT", "FILE_CREATE", "FILE_DELETE", "FILE_RENAME",
                   "FILE_CREATEDIR", "FILE_CLOSEDIR", "FILE_NEXTDIR_STAT"}
  /\ Continue(todo) /\ NoChange

Returned(ret, entry) ==
  \/ OpenReturned(ret) \/ TransferReturned(ret) \/ SeekReturned(ret) \/ TellReturned(ret)
  \/ CloseReturned \/ NextDirReturned(ret, entry) \/ SessionReturned(ret) \/ ValueReturned

(* net_recv blocks, without a limit.  It fails once the console knows that the
   connection is dead and what had arrived is read.  Mutant: it waits. *)
NeverFails == FALSE
ReceiveFails == toClient = <<>> /\ ~link /\ ~silent

ClientReceive ==
  /\ awaiting # Unset
  /\ awaiting' = Unset
  /\ \/ /\ toClient # <<>>
        /\ toClient' = Tail(toClient)
        /\ Returned(Head(toClient).ret, Head(toClient).entry)
     \/ ReceiveFails /\ Returned(-1, Unset) /\ UNCHANGED toClient
  /\ UNCHANGED <<cache, silent, toServer, serverVars, diskVars>>

ClientStep == ClientSend \/ ClientRequest \/ ClientReceive

-----------------------------------------------------------------------------
(* Connection::WaitForAction: one action for each command.                  *)

Receiving(command) ==
  /\ serving /\ toServer # <<>>
  /\ Head(toServer) = Receive(command)
  /\ toServer' = Tail(toServer)

Reply(ret, entry) == <<[command |-> Head(toServer).opt, ret |-> ret, entry |-> entry]>>

(* Mutant: a case without its break answers a second time. *)
ReturnTwice(ret, entry) ==
  toClient' = IF link THEN toClient \o Reply(ret, entry) \o Reply(ret, entry) ELSE toClient
ReturnEntry(ret, entry) == toClient' = IF link THEN toClient \o Reply(ret, entry) ELSE toClient
Return(ret) == ReturnEntry(ret, Unset)

(* Commands that change nothing, the open streams, the open directories, the disk. *)
Answer(command, ret) ==
  Receiving(command) /\ Return(ret) /\ UNCHANGED <<clientVars, link, silent, serverVars, diskVars>>
ServeStream(command) ==
  Receiving(command) /\ UNCHANGED <<clientVars, link, silent, serving, options, listing, nextFd, name>>
ServeListing(command) ==
  Receiving(command) /\ UNCHANGED <<clientVars, link, silent, serving, options, stream, diskVars>>
ServeDisk(command) == Receiving(command) /\ UNCHANGED <<clientVars, link, silent, serverVars>>

fd == options["FILE"]
path == options["PATH"]
FileOpened == fd \in Fds /\ stream[fd] # Unset
DirOpened == fd \in Fds /\ listing[fd] # Unset

Max0(n) == IF n > 0 THEN n ELSE 0
Least(m, n) == IF m < n THEN m ELSE n

IsRegular(p) == name[p] \in Inodes
FreeInode == CHOOSE i \in Inodes : /\ \A p \in Paths : name[p] # i
                                  /\ \A f \in Fds : stream[f] # Unset => stream[f].node # i

(* Options[option] = data.  Mutant: an option that is there already stays (map::insert). *)
Inserted(o, v) == [options EXCEPT ![o] = IF @ = Unset THEN v ELSE @]
Stored(o, v) == [options EXCEPT ![o] = v]

ServerSend ==
  /\ serving /\ toServer # <<>>
  /\ Head(toServer).act = "SEND"
  /\ toServer' = Tail(toServer)
  /\ options' = Stored(Head(toServer).opt, Head(toServer).val)
  /\ UNCHANGED <<clientVars, link, silent, toClient, serving, stream, listing, nextFd, diskVars>>

Handshake == Answer("HANDSHAKE", IF options["HANDSHAKE"] = "1.03" THEN 4 ELSE -1)

(* The reply is sent; then the handler thread deletes the Connection (ServerClose). *)
Goodbye ==
  /\ Receiving("GOODBYE") /\ Return(1) /\ link' = FALSE
  /\ UNCHANGED <<clientVars, silent, serverVars, diskVars>>

LogText == Answer("LOG", 1)

(* The openmode the flags come to: O_CREAT leaves "in" out, and "out" alone truncates. *)
OpensIn(mode) == "CREAT" \notin mode
OpensOut(mode) == mode \intersect {"WRONLY", "RDWR"} # {}
Appends(mode) == "APPEND" \in mode /\ "TRUNC" \notin mode
Truncates(mode) == "TRUNC" \in mode \/ (OpensOut(mode) /\ ~OpensIn(mode) /\ ~Appends(mode))

(* The modes and files that basic_filebuf::open accepts. *)
CanOpen(p, mode) ==
  /\ name[p] # Dir
  /\ OpensOut(mode) \/ Appends(mode) \/ (OpensIn(mode) /\ "TRUNC" \notin mode)
  /\ IsRegular(p) \/ Truncates(mode) \/ Appends(mode)

NewStream(node, mode) ==
  [node |-> node, pos |-> 0, tail |-> 0, ok |-> TRUE, in |-> OpensIn(mode),
   out |-> OpensOut(mode) \/ Appends(mode), app |-> Appends(mode)]

FileOpen ==
  /\ Receiving("FILE_OPEN")
  /\ LET mode == options["MODE"]
         node == IF IsRegular(path) THEN name[path] ELSE FreeInode
     IN  \/ /\ ~CanOpen(path, mode)
            /\ Return(-1)
            /\ UNCHANGED <<stream, nextFd, diskVars>>
         \/ /\ CanOpen(path, mode)
            /\ stream' = [stream EXCEPT ![nextFd] = NewStream(node, mode)]
            /\ nextFd' = nextFd + 1
            /\ name' = [name EXCEPT ![path] = node]
            /\ size' = [size EXCEPT ![node] = IF IsRegular(path) /\ ~Truncates(mode) THEN @ ELSE 0]
            /\ Return(nextFd)
  /\ UNCHANGED <<clientVars, link, silent, serving, options, listing>>

(* What a seek, flush() and close() do first: the buffer is written to the file.
   Mutant: it is dropped. *)
Dropped == size' = size
Flush == size' = IF FileOpened THEN [size EXCEPT ![stream[fd].node] = Grown(stream[fd])] ELSE size

(* A read that stops short sets eofbit and failbit, which only FileSeek clears;
   a failed stream reads nothing.  The reply is padded to the length asked for.
   The seek to where the stream is comes first; it empties the buffer. *)
FileRead ==
  /\ ServeStream("FILE_READ") /\ Flush
  /\ LET length == options["LENGTH"]
         s == stream[fd]
         got == IF s.ok /\ s.in THEN Least(length, Max0(Grown(s) - s.pos)) ELSE 0
     IN  /\ Return(IF FileOpened THEN got ELSE 0)
         /\ stream' = IF FileOpened
                      THEN [stream EXCEPT ![fd].pos = @ + got, ![fd].ok = @ /\ got = length,
                                          ![fd].tail = 0]
                      ELSE stream

(* After the same seek, write() keeps the bytes in the buffer, or has them in the
   file at once if they are too many for it; the length is returned in both cases.
   On a failed stream it writes nothing and sets no badbit, so the length is
   returned all the same; a stream not opened for output goes bad, and is cleared. *)
FileWrite ==
  /\ ServeStream("FILE_WRITE")
  /\ LET length == DataLen[options["DATA"]]
         s == stream[fd]
         end == length + (IF s.app THEN Grown(s) ELSE s.pos)
         stores == FileOpened /\ s.ok /\ s.out
     IN  /\ Return(IF stores \/ (FileOpened /\ ~s.ok) THEN length ELSE 0)
         /\ \/ ~stores /\ UNCHANGED <<stream, size>>
            \/ /\ stores /\ Flush
               /\ stream' = [stream EXCEPT ![fd].pos = @ + length, ![fd].tail = length]
            \/ /\ stores
               /\ stream' = [stream EXCEPT ![fd].pos = end, ![fd].tail = 0]
               /\ size' = [size EXCEPT ![s.node] = IF end > Grown(s) THEN end ELSE Grown(s)]

(* A seek that fails is tried again on the cleared stream, so it fails only
   when it leads before the start of the file.  Mutant: it never fails. *)
Accepted(target) == FALSE
Refused(target) == target < 0

FileSeek ==
  /\ ServeStream("FILE_SEEK") /\ Flush
  /\ LET s == stream[fd]
         target == options["WHERE"] + CASE options["WHENCE"] = "SET" -> 0
                                        [] options["WHENCE"] = "CUR" -> s.pos
                                        [] OTHER -> Grown(s)
     IN  /\ Return(IF ~FileOpened \/ Refused(target) THEN -1 ELSE 0)
         /\ stream' = IF FileOpened
                      THEN [stream EXCEPT ![fd].pos = IF Refused(target) THEN @ ELSE target,
                                          ![fd].ok = TRUE, ![fd].tail = 0]
                      ELSE stream

(* tellg of a failed stream is -1. *)
FileTell == Answer("FILE_TELL", IF FileOpened /\ stream[fd].ok THEN stream[fd].pos ELSE -1)

(* flush() leaves the position where the bytes it wrote end.  Mutant: it is left out. *)
StillBuffered == stream
Flushed == [stream EXCEPT ![fd].pos = IF stream[fd].app /\ stream[fd].tail > 0 THEN Grown(stream[fd])
                                      ELSE @,
                          ![fd].tail = 0]

FileSync ==
  /\ ServeStream("FILE_SYNC") /\ Flush
  /\ Return(IF FileOpened THEN 1 ELSE -1)
  /\ stream' = IF FileOpened THEN Flushed ELSE stream

(* OpenFiles.erase(fd).  Mutant: left out. *)
NotErased == stream
Erased == [stream EXCEPT ![fd] = Unset]

FileClose ==
  /\ ServeStream("FILE_CLOSE") /\ Flush
  /\ Return(IF FileOpened THEN 1 ELSE 0)
  /\ stream' = IF FileOpened THEN Erased ELSE stream

FileStat == Answer("FILE_STAT", IF name[path] = Unset THEN -1 ELSE 0)

FileCreate ==
  /\ ServeDisk("FILE_CREATE")
  /\ Return(IF name[path] = Dir THEN 0 ELSE 1)
  /\ \/ /\ name[path] = Unset
        /\ name' = [name EXCEPT ![path] = FreeInode]
        /\ size' = [size EXCEPT ![FreeInode] = 0]
     \/ name[path] # Unset /\ UNCHANGED diskVars

FileDelete ==
  /\ ServeDisk("FILE_DELETE") /\ UNCHANGED size
  /\ Return(IF name[path] = Unset THEN 0 ELSE 1)
  /\ name' = [name EXCEPT ![path] = Unset]

(* Only a file can be the source; the result of rename() is not looked at. *)
FileRename ==
  /\ ServeDisk("FILE_RENAME") /\ UNCHANGED size
  /\ LET source == options["RENAME_SOURCE"]
         dest == options["RENAME_DESTINATION"]
     IN  /\ Return(IF IsRegular(source) THEN 1 ELSE 0)
         /\ name' = IF IsRegular(source) /\ name[dest] # Dir /\ source # dest
                    THEN [name EXCEPT ![source] = Unset, ![dest] = name[source]]
                    ELSE name

FileCreateDir ==
  /\ ServeDisk("FILE_CREATEDIR") /\ UNCHANGED size
  /\ Return(IF IsRegular(path) THEN 0 ELSE 1)
  /\ name' = [name EXCEPT ![path] = IF @ = Unset THEN Dir ELSE @]

(* The entries are read when the directory is opened, in the host's order. *)
FileOpenDir ==
  /\ ServeListing("FILE_OPENDIR")
  /\ LET directories == {Root} \union {p \in Paths : name[p] = Dir}
         entries == IF path = Root THEN {p \in Paths : name[p] # Unset} ELSE {}
     IN  \/ path \notin directories /\ Return(-1) /\ UNCHANGED <<listing, nextFd>>
         \/ /\ path \in directories /\ Return(nextFd)
            /\ \E order \in SetToSeqs(entries) :
                 listing' = [listing EXCEPT ![nextFd] = [entries |-> order, next |-> 1]]
            /\ nextFd' = nextFd + 1

FileCloseDir ==
  /\ ServeListing("FILE_CLOSEDIR") /\ UNCHANGED nextFd
  /\ Return(IF DirOpened THEN 1 ELSE -1)
  /\ listing' = IF DirOpened THEN [listing EXCEPT ![fd] = Unset] ELSE listing

(* The path does not advance the cursor, the stat that follows it does. *)
FileNextDirPath ==
  /\ Receiving("FILE_NEXTDIR_PATH") /\ UNCHANGED <<clientVars, link, silent, serverVars, diskVars>>
  /\ IF DirOpened /\ listing[fd].next <= Len(listing[fd].entries)
     THEN ReturnEntry(1, listing[fd].entries[listing[fd].next])
     ELSE Return(-1)

(* Mutant: the stat leaves the cursor alone. *)
SameEntry(d) == d
NextEntry(d) == [d EXCEPT !.next = @ + 1]

FileNextDirStat ==
  /\ ServeListing("FILE_NEXTDIR_STAT") /\ UNCHANGED nextFd
  /\ Return(IF DirOpened THEN 0 ELSE 1)
  /\ listing' = IF DirOpened THEN [listing EXCEPT ![fd] = NextEntry(@)] ELSE listing

(* The handler thread finds the connection dead, and reads no more of what was sent.
   The destructor of the Connection closes the streams, one after the other. *)
CloseNext ==
  \E f \in Fds : /\ stream[f] # Unset /\ \A g \in Fds : g < f => stream[g] = Unset
                 /\ stream' = [stream EXCEPT ![f] = Unset]
                 /\ size' = [size EXCEPT ![stream[f].node] = Grown(stream[f])]
                 /\ UNCHANGED <<serving, listing>>
Deleted ==
  /\ \A f \in Fds : stream[f] = Unset
  /\ serving' = FALSE /\ listing' = [f \in Fds |-> Unset]
  /\ UNCHANGED <<stream, size>>
ServerClose ==
  /\ serving /\ ~link /\ toServer' = <<>>
  /\ CloseNext \/ Deleted
  /\ UNCHANGED <<clientVars, link, silent, toClient, options, nextFd, name>>

ServerStep ==
  \/ ServerSend \/ Handshake \/ Goodbye \/ LogText \/ FileOpen \/ FileRead \/ FileWrite
  \/ FileSeek \/ FileTell \/ FileSync \/ FileClose \/ FileStat \/ FileCreate \/ FileDelete
  \/ FileRename \/ FileCreateDir \/ FileOpenDir \/ FileCloseDir \/ FileNextDirPath
  \/ FileNextDirStat \/ ServerClose

(* The network fails, or TimeoutThread shuts the connection down; what was on
   its way to the client may be lost.  If no FIN or RST reaches the console it
   learns of it late, or never. *)
Drop ==
  /\ Drops
  /\ \/ /\ link /\ link' = FALSE
        /\ silent' \in BOOLEAN
        /\ toClient' \in {toClient, <<>>}
     \/ /\ silent /\ ~link /\ silent' = FALSE
        /\ UNCHANGED <<link, toClient>>
  /\ UNCHANGED <<clientVars, toServer, serverVars, diskVars>>

Next == Call \/ ClientStep \/ ServerStep \/ Drop

Spec == Init /\ [][Next]_vars

(* The file module's thread runs its call to the end, unless net_recv blocks it,
   and the handler thread of the server serves what arrives; nobody has to make
   calls, to lose the connection or to learn that it is lost. *)
FairSpec == Spec /\ WF_vars(ClientStep) /\ WF_vars(ServerStep)

-----------------------------------------------------------------------------
(* What must hold.                                                          *)

Info == [kind : {"file", "dir"}, fd : Fds, pos : Int, dirty : BOOLEAN, seen : Seq(Paths)]
Stream == [node : Inodes, pos : Nat, tail : Nat, ok : BOOLEAN, in : BOOLEAN, out : BOOLEAN, app : BOOLEAN]
Listing == [entries : Seq(Paths), next : Nat \ {0}]

(* What is not there is told from all that can be. *)
ASSUME UnsetAssumption ==
  Unset \notin Int \union Paths \union Data \union Modes \union Whences
                 \union Info \union Stream \union Listing

(* The shape of both ends' state. *)
TypeOK ==
  /\ mounted \in BOOLEAN /\ link \in BOOLEAN /\ silent \in BOOLEAN /\ serving \in BOOLEAN
  /\ DOMAIN cache = Options /\ DOMAIN options = Options
  /\ handle \in [Handles -> Info \union {Unset}]
  /\ stream \in [Fds -> Stream \union {Unset}]
  /\ listing \in [Fds -> Listing \union {Unset}]
  /\ nextFd \in 1..(MaxFd + 1)
  /\ name \in [Paths -> Inodes \union {Dir, Unset}]
  /\ size \in [Inodes -> Nat]

Pending(o) == {i \in DOMAIN toServer : toServer[i].act = "SEND" /\ toServer[i].opt = o}

(* RIIFS_LOCAL_OPTIONS: an option the handler will not send again is one the
   server holds, or will hold once it has read what is on its way, whatever
   was sent in between and whichever sends were skipped. *)
OptionAgreement ==
  link => \A o \in FixedOptions : cache[o] # Unset =>
            \/ Pending(o) = {} /\ options[o] = cache[o]
            \/ \E i \in Pending(o) : /\ toServer[i].val = cache[o]
                                    /\ \A j \in Pending(o) : j <= i

(* The options a command of the server reads. *)
Uses(command) ==
  CASE command = "FILE_OPEN" -> {"PATH", "MODE"}
    [] command = "FILE_READ" -> {"FILE", "LENGTH"}
    [] command = "FILE_WRITE" -> {"FILE", "DATA"}
    [] command = "FILE_SEEK" -> {"FILE", "WHERE", "WHENCE"}
    [] command = "FILE_RENAME" -> {"RENAME_SOURCE", "RENAME_DESTINATION"}
    [] command = "LOG" -> {"DATA"}
    [] command \in {"FILE_STAT", "FILE_CREATE", "FILE_DELETE", "FILE_CREATEDIR",
                    "FILE_OPENDIR"} -> {"PATH"}
    [] command \in {"FILE_TELL", "FILE_SYNC", "FILE_CLOSE", "FILE_CLOSEDIR",
                    "FILE_NEXTDIR_PATH", "FILE_NEXTDIR_STAT"} -> {"FILE"}
    [] OTHER -> {}

(* When the server is about to run a command, the options it reads are the
   arguments of the call the handler is in: no option is left from an earlier
   call, because of a send that was skipped or one that was never made. *)
RunsWithCallArguments ==
  link /\ toServer # <<>> /\ Head(toServer).act = "RECEIVE" =>
    \A s \in call.args : s.opt \in Uses(Head(toServer).opt) => options[s.opt] = s.val

(* RIIFS_LOCAL_SEEKING: between calls, the position the handler keeps for a
   file is the position of the server's stream, unless a seek is pending or the
   file was opened to append, which the handler does not know. *)
PositionAgreement ==
  link /\ call = Idle =>
    \A h \in Handles : IsFile(h) /\ ~handle[h].dirty =>
      LET s == stream[handle[h].fd]
      IN  s # Unset /\ (~s.app => s.pos = handle[h].pos)

(* Between calls, every stream and directory the server keeps open belongs
   to exactly one FileInfo of the file module, and every FileInfo has one:
   nothing leaks on the server and nothing is shared. *)
DescriptorAgreement ==
  link /\ mounted /\ call = Idle =>
    /\ \A f \in Fds : stream[f] # Unset => \E h \in Handles : IsFile(h) /\ handle[h].fd = f
    /\ \A f \in Fds : listing[f] # Unset => \E h \in Handles : IsDir(h) /\ handle[h].fd = f
    /\ \A h \in Handles : /\ IsFile(h) => stream[handle[h].fd] # Unset
                         /\ IsDir(h) => listing[handle[h].fd] # Unset
    /\ \A g, h \in Handles : g # h /\ handle[g] # Unset /\ handle[h] # Unset =>
                               handle[g].fd # handle[h].fd

(* A value that reaches the handler is the one of the command it waits for:
   the two ends never get out of step. *)
RepliesMatch ==
  toClient # <<>> => Len(toClient) = 1 /\ Head(toClient).command = awaiting

(* NextDir gives the entries of the directory in order, each of them once,
   although the name and the stat are two commands. *)
ListingInOrder ==
  link /\ call = Idle =>
    \A h \in Handles : IsDir(h) =>
      LET d == listing[handle[h].fd]
      IN  d # Unset /\ handle[h].seen = SubSeq(d.entries, 1, d.next - 1)

(* What the server says it has written, it keeps: an acknowledged write is in the
   stream's buffer or in the file; no step, not the loss of the connection either,
   takes bytes from a buffer without putting them in the file; and a Sync that is
   acknowledged leaves none in the buffer. *)
Answering(command) ==
  toClient = <<>> /\ toClient' # <<>> /\ toClient'[1].command = command /\ toClient'[1].ret > 0
WriteTaken(f) ==
  LET ret == toClient'[1].ret
      end == ret + (IF stream[f].app THEN Grown(stream[f]) ELSE stream[f].pos)
  IN  \/ stream'[f] = [stream[f] EXCEPT !.pos = @ + ret, !.tail = ret]
      \/ stream'[f] = [stream[f] EXCEPT !.pos = end, !.tail = 0] /\ size'[stream[f].node] >= end
BufferKept(f) ==
  stream'[f] = stream[f] \/ size'[stream[f].node] >= Grown(stream[f])
AcknowledgedWritesKept ==
  [][/\ Answering("FILE_WRITE") => WriteTaken(fd)
     /\ \A f \in Fds : stream[f] # Unset /\ stream[f].tail > 0 => BufferKept(f)
     /\ Answering("FILE_SYNC") => stream'[fd].tail = 0]_vars

(* Every operation of the handler returns to its caller, with the connection
   up or lost, unless the loss goes unnoticed while it waits for an answer. *)
CallReturns == call # Idle ~> call = Idle \/ (silent /\ awaiting # Unset)
=============================================================================
