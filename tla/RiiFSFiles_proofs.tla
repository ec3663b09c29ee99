-------------------------- MODULE RiiFSFiles_proofs --------------------------
(***************************************************************************)
(* Proofs about RiiFS: what the two ends hold about the same file agrees,  *)
(* for every number of files, callers and pending commands, and with the   *)
(* connection lost at any moment.  Both keep descriptors, cursors and      *)
(* positions of their own, and neither ever compares them.                 *)
(*                                                                         *)
(* All of it rests on CallInv of RiiFSCalls_proofs: the command the server *)
(* runs is one of the call the handler is in, with the arguments of that   *)
(* call, and the value on its way back is the one that is awaited.  What   *)
(* is added here is what each command that is under way has done to the    *)
(* one side and is still to do to the other:                               *)
(*   OwnInv: a descriptor has been opened and its object not yet made, or  *)
(*     been closed on one side and not yet on the other;                   *)
(*   NextDirInv, ListInv: the name of an entry was given and the cursor,   *)
(*     which only the stat advances, is still on it;                       *)
(*   TransferInv, PosInv: the server has moved by the length in its reply, *)
(*     or to the end, and the handler has not.                             *)
(* Between calls nothing is under way, and the agreement that the property *)
(* states is left.  Each invariant has one lemma for each kind of step: a  *)
(* call begins, the handler sends or asks, the server serves a command,    *)
(* the handler takes the reply.                                            *)
(***************************************************************************)
EXTENDS RiiFSCalls_proofs

(* The commands an operation of the handler runs. *)
CommandsOf(op) ==
  CASE op = "Mount" -> {"HANDSHAKE"}
    [] op = "Unmount" -> {"GOODBYE"}
    [] op = "IdleTick" -> {"LOG"}
    [] op = "Open" -> {"FILE_OPEN"}
    [] op = "Read" -> {"FILE_SEEK", "FILE_READ"}
    [] op = "Write" -> {"FILE_SEEK", "FILE_WRITE"}
    [] op = "Seek" -> {"FILE_SEEK", "FILE_TELL"}
    [] op = "Sync" -> {"FILE_TELL", "FILE_SYNC"}
    [] op = "Close" -> {"FILE_CLOSE"}
    [] op = "Stat" -> {"FILE_STAT"}
    [] op = "CreateFile" -> {"FILE_CREATE"}
    [] op = "Delete" -> {"FILE_DELETE"}
    [] op = "CreateDir" -> {"FILE_CREATEDIR"}
    [] op = "Rename" -> {"FILE_RENAME"}
    [] op = "OpenDir" -> {"FILE_OPENDIR"}
    [] op = "NextDir" -> Listings
    [] op = "CloseDir" -> {"FILE_CLOSEDIR"}
    [] OTHER -> {}

(* A program all of whose commands are in C. *)
OnlyRuns(steps, C) == \E S : steps \in Seq(S) /\ \A m \in S : m.act = "RECEIVE" => m.opt \in C

(* What is due is a command of the call's operation, which callers use. *)
RunsInv ==
  /\ call # Idle => call.op \in Ops
  /\ Due \subseteq CommandsOf(call.op)

(* A Connection is there for every connection, and its streams and directories with it. *)
ServesInv ==
  /\ link => serving
  /\ ~serving => \A f \in Fds : stream[f] = Unset /\ listing[f] = Unset

(* The reply to c is on its way; it is descriptor f. *)
Replied(c) == awaiting = c /\ toClient # <<>>
Opened(c, f) == Replied(c) /\ toClient[1].ret = f
(* The object of directory f is gone, and the server is still to close it. *)
Leaving(f) == "FILE_CLOSEDIR" \in Due /\ \E s \in call.args : s.opt = "FILE" /\ s.val = f
Closing(f) == Leaving(f) /\ ~Replied("FILE_CLOSEDIR")

(* No two objects have the same descriptor, and none has one still to be given. *)
FdsDiffer ==
  /\ \A h \in Handles : handle[h] # Unset => handle[h].fd < nextFd
  /\ \A g, h \in Handles : g # h /\ handle[g] # Unset /\ handle[h] # Unset =>
                             handle[g].fd # handle[h].fd

(* Every object of the file module has its stream or directory. *)
Backed ==
  \A h \in Handles :
    /\ IsFile(h) => stream[handle[h].fd] # Unset \/ (Replied("FILE_CLOSE") /\ call.h = h)
    /\ IsDir(h) => listing[handle[h].fd] # Unset

(* Every stream and directory has its object, or is about to get it or to go. *)
Owned ==
  /\ \A f \in Fds : stream[f] # Unset =>
       Opened("FILE_OPEN", f) \/ \E h \in Handles : IsFile(h) /\ handle[h].fd = f
  /\ \A f \in Fds : listing[f] # Unset =>
       \/ Opened("FILE_OPENDIR", f) \/ Closing(f)
       \/ \E h \in Handles : IsDir(h) /\ handle[h].fd = f

(* What was just opened is new, and what was just closed is gone. *)
Fresh ==
  /\ \A c \in Opens, f \in Fds : Opened(c, f) =>
       /\ f < nextFd
       /\ IF c = "FILE_OPEN" THEN stream[f] # Unset ELSE listing[f] # Unset
       /\ \A h \in Handles : handle[h] # Unset => handle[h].fd # f
  /\ Replied("FILE_CLOSE") => stream[handle[call.h].fd] = Unset
  /\ \A h \in Handles, f \in Fds : Leaving(f) /\ handle[h] # Unset => handle[h].fd # f

(* While the connection is up, descriptors, objects and server files are in step. *)
OwnInv == link => FdsDiffer /\ Backed /\ Owned /\ Fresh

(* Where NextDir is: it asks for the name, then for the stat. *)
NextDirInv ==
  call.op = "NextDir" =>
    \/ /\ awaiting = Unset
       /\ \E f \in Fds : todo = <<Send("FILE", f), Receive("FILE_NEXTDIR_PATH"),
                                Receive("FILE_NEXTDIR_STAT")>>
    \/ awaiting = Unset /\ todo = <<Receive("FILE_NEXTDIR_PATH"), Receive("FILE_NEXTDIR_STAT")>>
    \/ awaiting \in {Unset, "FILE_NEXTDIR_PATH"} /\ todo = <<Receive("FILE_NEXTDIR_STAT")>>
    \/ awaiting = "FILE_NEXTDIR_STAT" /\ todo = <<>>

(* The name was returned and the cursor is still on it. *)
StatDue ==
  /\ call.op = "NextDir"
  /\ \/ awaiting = Unset /\ todo = <<Receive("FILE_NEXTDIR_STAT")>>
     \/ awaiting = "FILE_NEXTDIR_STAT" /\ toClient = <<>>
(* How many entries of a directory the callers have been given. *)
Given(h) == LET d == listing[handle[h].fd]
            IN  IF StatDue /\ call.h = h THEN d.next ELSE d.next - 1

(* The entries given to the callers are the first of the directory. *)
Seen(h) ==
  LET d == listing[handle[h].fd]
  IN  Given(h) <= Len(d.entries) /\ handle[h].seen = SubSeq(d.entries, 1, Given(h))
(* A directory that was just opened is before its first entry. *)
StartsAtFirst == \A f \in Fds : Opened("FILE_OPENDIR", f) => listing[f].next = 1
(* The name that is on its way is that of the entry at the cursor. *)
NameIsNext ==
  Replied("FILE_NEXTDIR_PATH") /\ toClient[1].ret >= 0 =>
    LET d == listing[handle[call.h].fd]
    IN  d.next <= Len(d.entries) /\ toClient[1].entry = d.entries[d.next]

(* While the connection is up, no place in a directory is lost. *)
ListInv ==
  link => (\A h \in Handles : IsDir(h) => Seen(h)) /\ StartsAtFirst /\ NameIsNext

(* All of this about descriptors and directories. *)
FilesInv == CallInv /\ RunsInv /\ ServesInv /\ OwnInv /\ NextDirInv /\ ListInv

(* The commands that move both positions by what they return. *)
Transfers == {"FILE_READ", "FILE_WRITE"}

(* A transfer is the last command of its call, comes after the seek that is
   pending, and that seek leads to where the handler is; a seek to the end is
   one command at a time. *)
TransferInv ==
  link =>
    /\ \A i \in Requests(todo) : todo[i].opt \in Transfers => i = Len(todo)
    /\ awaiting \in Transfers => todo = <<>>
    /\ Due \intersect Transfers # {} /\ handle[call.h].dirty => "FILE_SEEK" \in Due
    /\ "FILE_SEEK" \in Due /\ call.op # "Seek" =>
         \A s \in call.args : /\ s.opt = "WHENCE" => s.val = "SET"
                              /\ s.opt = "WHERE" => s.val = handle[call.h].pos
    /\ call.op = "Seek" => Due \in {{}, {"FILE_SEEK"}, {"FILE_TELL"}}

(* The server has moved to the end, and the handler does not know where that is. *)
AtEnd(h) ==
  /\ call.op = "Seek" /\ call.h = h
  /\ Due = {"FILE_TELL"} \/ (Replied("FILE_SEEK") /\ toClient[1].ret = 0)
(* The server has told where it is. *)
Told(h) == call.h = h /\ Replied("FILE_TELL")
(* How far the server has moved, and the handler has not. *)
Moving(h) == IF call.h = h /\ awaiting \in Transfers /\ toClient # <<>> THEN toClient[1].ret ELSE 0
(* The seek that was pending is made. *)
SoughtBack(h) == call.h = h /\ call.op # "Seek" /\ Replied("FILE_SEEK")

(* A stream is where the handler is but for what is on its way, and it fails
   only where reads are. *)
Positioned(h) ==
  LET s == stream[handle[h].fd]
      p == handle[h]
  IN  /\ p.pos \in Nat
      /\ s # Unset =>
           /\ s.ok \/ ("Read" \in Ops /\ ~AtEnd(h))
           /\ p.dirty \/ s.app \/ AtEnd(h) \/ Told(h) \/ s.pos = p.pos + Moving(h)
           /\ Moving(h) \in Nat
           /\ Told(h) => toClient[1].ret = s.pos
           /\ SoughtBack(h) => s.pos = p.pos

(* A file that was just opened is at its start, and sound. *)
OpensAtStart == \A f \in Fds : Opened("FILE_OPEN", f) => stream[f].pos = 0 /\ stream[f].ok

(* While the connection is up, every file is where its stream is. *)
PosInv == link => (\A h \in Handles : IsFile(h) => Positioned(h)) /\ OpensAtStart

-----------------------------------------------------------------------------
(* The commands of a program.                                               *)

(* The programs calls are made of: options, and the commands they are for. *)
LEMMA RunsS ==
  ASSUME NEW C, NEW o, NEW v
  PROVE  OnlyRuns(<<Send(o, v)>>, C)
<1> DEFINE S == {Send(o, v)}
           p == <<Send(o, v)>>
<1>1. p \in Seq(S)
  OBVIOUS
<1>2. \A m \in S : m.act = "RECEIVE" => m.opt \in C
  BY DEF Send, Receive
<1> HIDE DEF S, p
<1>3. OnlyRuns(p, C)
  BY <1>1, <1>2 DEF OnlyRuns
<1> QED
  BY <1>3 DEF p

(* One command. *)
LEMMA RunsR ==
  ASSUME NEW C, NEW c \in C
  PROVE  OnlyRuns(<<Receive(c)>>, C)
<1> DEFINE S == {Receive(c)}
           p == <<Receive(c)>>
<1>1. p \in Seq(S)
  OBVIOUS
<1>2. \A m \in S : m.act = "RECEIVE" => m.opt \in C
  BY DEF Send, Receive
<1> HIDE DEF S, p
<1>3. OnlyRuns(p, C)
  BY <1>1, <1>2 DEF OnlyRuns
<1> QED
  BY <1>3 DEF p

(* One option and one command. *)
LEMMA RunsSR ==
  ASSUME NEW C, NEW o, NEW v, NEW c \in C
  PROVE  OnlyRuns(<<Send(o, v), Receive(c)>>, C)
<1> DEFINE S == {Send(o, v), Receive(c)}
           p == <<Send(o, v), Receive(c)>>
<1>1. p \in Seq(S)
  OBVIOUS
<1>2. \A m \in S : m.act = "RECEIVE" => m.opt \in C
  BY DEF Send, Receive
<1> HIDE DEF S, p
<1>3. OnlyRuns(p, C)
  BY <1>1, <1>2 DEF OnlyRuns
<1> QED
  BY <1>3 DEF p

(* One option and two commands. *)
LEMMA RunsSRR ==
  ASSUME NEW C, NEW o, NEW v, NEW c \in C, NEW d \in C
  PROVE  OnlyRuns(<<Send(o, v), Receive(c), Receive(d)>>, C)
<1> DEFINE S == {Send(o, v), Receive(c), Receive(d)}
           p == <<Send(o, v), Receive(c), Receive(d)>>
<1>1. p \in Seq(S)
  OBVIOUS
<1>2. \A m \in S : m.act = "RECEIVE" => m.opt \in C
  BY DEF Send, Receive
<1> HIDE DEF S, p
<1>3. OnlyRuns(p, C)
  BY <1>1, <1>2 DEF OnlyRuns
<1> QED
  BY <1>3 DEF p

(* Two options and one command. *)
LEMMA RunsSSR ==
  ASSUME NEW C, NEW o, NEW v, NEW q, NEW w, NEW c \in C
  PROVE  OnlyRuns(<<Send(o, v), Send(q, w), Receive(c)>>, C)
<1> DEFINE S == {Send(o, v), Send(q, w), Receive(c)}
           p == <<Send(o, v), Send(q, w), Receive(c)>>
<1>1. p \in Seq(S)
  OBVIOUS
<1>2. \A m \in S : m.act = "RECEIVE" => m.opt \in C
  BY DEF Send, Receive
<1> HIDE DEF S, p
<1>3. OnlyRuns(p, C)
  BY <1>1, <1>2 DEF OnlyRuns
<1> QED
  BY <1>3 DEF p

(* No command at all. *)
LEMMA RunsNone ==
  ASSUME NEW C
  PROVE  OnlyRuns(<<>>, C)
<1> DEFINE S == {m \in {} : m = m}
<1>1. <<>> \in Seq(S) /\ \A m \in S : m.act = "RECEIVE" => m.opt \in C
  OBVIOUS
<1> HIDE DEF S
<1> QED
  BY <1>1 DEF OnlyRuns

(* Two in a row. *)
LEMMA RunsConcat ==
  ASSUME NEW C, NEW s, OnlyRuns(s, C), NEW t, OnlyRuns(t, C)
  PROVE  OnlyRuns(s \o t, C)
<1>1. PICK S : s \in Seq(S) /\ \A m \in S : m.act = "RECEIVE" => m.opt \in C
  BY DEF OnlyRuns
<1>2. PICK T : t \in Seq(T) /\ \A m \in T : m.act = "RECEIVE" => m.opt \in C
  BY DEF OnlyRuns
<1>3. s \in Seq(S \union T) /\ t \in Seq(S \union T)
  BY <1>1, <1>2
<1>4. s \o t \in Seq(S \union T)
  BY <1>3, ConcatProperties
<1> QED
  BY <1>1, <1>2, <1>4 DEF OnlyRuns

(* What a program is made of is what it asks for. *)
LEMMA RunsRequests ==
  ASSUME NEW C, NEW s, OnlyRuns(s, C)
  PROVE  \A i \in Requests(s) : s[i].opt \in C
<1>1. PICK S : s \in Seq(S) /\ \A m \in S : m.act = "RECEIVE" => m.opt \in C
  BY DEF OnlyRuns
<1>2. \A i \in DOMAIN s : s[i] \in S
  BY <1>1
<1> QED
  BY <1>1, <1>2 DEF Requests

(* The first step of a program is done: no request but the first is gone. *)
LEMMA RequestsKept ==
  ASSUME NEW p, Program(p), p # <<>>
  PROVE  /\ \A i \in Requests(p) : i # 1 =>
              /\ i - 1 \in Requests(Tail(p)) /\ Tail(p)[i - 1] = p[i]
         /\ Len(Tail(p)) = Len(p) - 1 /\ Len(p) \in Nat \ {0}
<1>1. /\ Len(p) \in Nat \ {0}
      /\ DOMAIN Tail(p) = 1..(Len(p) - 1) /\ DOMAIN p = 1..Len(p)
      /\ \A i \in 1..(Len(p) - 1) : Tail(p)[i] = p[i + 1]
  BY ProgramQueue, QueueTail, QueueShape
<1>2. ASSUME NEW i \in Requests(p), i # 1
      PROVE  i - 1 \in Requests(Tail(p)) /\ Tail(p)[i - 1] = p[i]
  <2>1. i \in 1..Len(p) /\ p[i].act = "RECEIVE"
    BY <1>1, <1>2 DEF Requests
  <2>2. i - 1 \in 1..(Len(p) - 1) /\ (i - 1) + 1 = i
    BY <1>1, <1>2, <2>1
  <2>3. Tail(p)[i - 1] = p[i]
    BY <1>1, <2>2
  <2> QED
    BY <1>1, <2>1, <2>2, <2>3 DEF Requests
<1>3. Len(Tail(p)) = Len(p) - 1
  BY <1>1, ProgramQueue, QueueLeft
<1> QED
  BY <1>1, <1>2, <1>3

-----------------------------------------------------------------------------
(* What the steps of the handler do to the commands that are due.           *)

(* A send is no command. *)
LEMMA DueAfterSend ==
  ASSUME CallInv, ClientSend
  PROVE  /\ Due' = Due /\ (Due # {} => call' = call) /\ call' \in {call, Idle}
         /\ (call' = Idle => Due' = {}) /\ todo # <<>>
         /\ awaiting = Unset /\ todo' = Tail(todo) /\ Head(todo).act = "SEND"
         /\ UNCHANGED <<mounted, awaiting, handle, link, toClient, serverVars, diskVars>>
<1>1. /\ todo # <<>> /\ awaiting = Unset /\ Head(todo).act = "SEND" /\ todo' = Tail(todo)
      /\ call' = (IF todo' = <<>> THEN Idle ELSE call)
      /\ UNCHANGED <<mounted, awaiting, handle, link, toClient, serverVars, diskVars>>
  BY DEF ClientSend, Continue
<1>2. 1 \notin Requests(todo) /\ Program(todo)
  BY <1>1, RequestsLeft DEF CallInv, ReplyInv
<1>3. \A i \in Requests(todo') : i + 1 \in Requests(todo) /\ todo'[i] = todo[i + 1]
  BY <1>1, <1>2, RequestsLeft
<1>4. \A i \in Requests(todo) : i - 1 \in Requests(todo') /\ todo'[i - 1] = todo[i]
  BY <1>1, <1>2, RequestsKept
<1>5. Due' = Due
  <2>1. \A i \in Requests(todo') : todo'[i].opt \in {todo[j].opt : j \in Requests(todo)}
    BY <1>3
  <2>2. \A i \in Requests(todo) : todo[i].opt \in {todo'[j].opt : j \in Requests(todo')}
    BY <1>2, <1>4
  <2>3. {todo'[j].opt : j \in Requests(todo')} = {todo[j].opt : j \in Requests(todo)}
    BY <2>1, <2>2
  <2> QED
    BY <1>1, <2>3 DEF Due
<1>6. todo' = <<>> => Due' = {}
  BY <1>1 DEF Due, Requests
<1>7. call' = Idle /\ todo' # <<>> => call = Idle
  BY <1>1
<1>8. call # Idle
  BY <1>1 DEF CallInv, ReplyInv
<1> QED
  BY <1>1, <1>5, <1>6, <1>7, <1>8

(* A command that is asked for is due until it is answered. *)
LEMMA DueAfterRequest ==
  ASSUME CallInv, ClientRequest
  PROVE  /\ Due' = Due /\ call' = call /\ todo' = Tail(todo) /\ todo # <<>>
         /\ awaiting = Unset /\ awaiting' = Head(todo).opt /\ awaiting' # Unset
         /\ toClient = <<>> /\ toClient' = <<>>
         /\ Head(todo) = todo[1] /\ 1 \in Requests(todo)
         /\ UNCHANGED <<mounted, handle, link, serverVars, diskVars>>
<1>1. /\ todo # <<>> /\ awaiting = Unset /\ Head(todo).act = "RECEIVE" /\ todo' = Tail(todo)
      /\ awaiting' = Head(todo).opt
      /\ UNCHANGED <<mounted, call, handle, logBuffer, link, toClient, serverVars, diskVars>>
  BY DEF ClientRequest
<1>2. 1 \in Requests(todo) /\ Program(todo) /\ Head(todo) = todo[1]
  BY <1>1, RequestsLeft DEF CallInv, ReplyInv
<1>3. \A i \in Requests(todo') : i + 1 \in Requests(todo) /\ todo'[i] = todo[i + 1]
  BY <1>1, <1>2, RequestsLeft
<1>4. \A i \in Requests(todo) : i # 1 => i - 1 \in Requests(todo') /\ todo'[i - 1] = todo[i]
  BY <1>1, <1>2, RequestsKept
<1>5. Head(todo).opt \in Commands
  BY <1>1, <1>2, ProgramStep
<1>6. awaiting' # Unset
  BY <1>1, <1>5, RiiFSAssumption
<1>7. Due' = Due
  <2> DEFINE rest == {todo'[j].opt : j \in Requests(todo')}
  <2>1. \A i \in Requests(todo') : todo'[i].opt \in {todo[j].opt : j \in Requests(todo)}
    BY <1>3
  <2>2. \A i \in Requests(todo) : todo[i].opt \in rest \union {awaiting'}
    BY <1>1, <1>2, <1>4
  <2>3. awaiting' \in {todo[j].opt : j \in Requests(todo)}
    BY <1>1, <1>2
  <2>4. rest \union {awaiting'} = {todo[j].opt : j \in Requests(todo)}
    BY <2>1, <2>2, <2>3
  <2> QED
    BY <1>1, <1>6, <2>4 DEF Due
<1>8. toClient = <<>>
  BY <1>1 DEF CallInv, ReplyInv, InStep, NothingAwaited, RequestOnItsWay, ReplyOnItsWay
<1> QED
  BY <1>1, <1>2, <1>6, <1>7, <1>8

(* What is left to do is asked for in the same call, but for the position
   after a seek to the end. *)
LEMMA DueAfterReply ==
  ASSUME CallInv, ClientReceive
  PROVE  /\ \/ Due' \subseteq Due
            \/ awaiting = "FILE_SEEK" /\ call.op = "Seek" /\ Due' = {"FILE_TELL"}
         /\ todo' = todo \/ todo' = <<>> \/ call.op = "Seek"
         /\ awaiting \in Due /\ awaiting' = Unset /\ call # Idle
         /\ call' = IF todo' = <<>> THEN Idle ELSE call
         /\ Due' # {} => call' = call
         /\ call' = Idle => Due' = {}
<1> DEFINE tell == <<Receive("FILE_TELL")>>
<1>1. PICK ret, entry : Returned(ret, entry)
  BY ReturnedIs
<1>2. awaiting # Unset /\ awaiting' = Unset
  BY ReturnedIs
<1>3. \/ Continue(todo) \/ Continue(<<>>)
      \/ Continue(tell) /\ awaiting = "FILE_SEEK" /\ call.op = "Seek"
  <2>1. CASE SeekReturned(ret)
    BY <2>1 DEF SeekReturned
  <2>2. CASE awaiting # "FILE_SEEK"
    BY <1>1, <2>2, ReturnedGoesOn
  <2>3. awaiting = "FILE_SEEK" => SeekReturned(ret)
    BY <1>1 DEF Returned, OpenReturned, TransferReturned, TellReturned, CloseReturned,
         SessionReturned, ValueReturned, NextDirReturned
  <2> QED
    BY <2>1, <2>2, <2>3
<1>4. call' = IF todo' = <<>> THEN Idle ELSE call
  BY <1>3 DEF Continue
<1>5. DOMAIN tell = {1} /\ tell[1] = Receive("FILE_TELL") /\ tell # <<>>
  OBVIOUS
<1>6. Requests(tell) = {1} /\ tell[1].opt = "FILE_TELL" /\ Requests(<<>>) = {}
  BY <1>5 DEF Requests, Receive
<1>7. call # Idle /\ awaiting \in Due
  BY <1>2 DEF CallInv, ReplyInv, Due
<1> HIDE DEF tell
<1>8. Due' = {todo'[i].opt : i \in Requests(todo')}
  BY <1>2 DEF Due
<1>9. \/ todo' = todo \/ todo' = <<>>
      \/ todo' = tell /\ awaiting = "FILE_SEEK" /\ call.op = "Seek"
  BY <1>3 DEF Continue
<1>10. CASE todo' = todo
  BY <1>2, <1>4, <1>6, <1>7, <1>8, <1>10 DEF Due
<1>11. CASE todo' = <<>>
  BY <1>2, <1>4, <1>6, <1>7, <1>8, <1>11
<1>12. CASE todo' = tell /\ awaiting = "FILE_SEEK" /\ call.op = "Seek"
  BY <1>2, <1>4, <1>5, <1>6, <1>7, <1>8, <1>12
<1> QED
  BY <1>9, <1>10, <1>11, <1>12

-----------------------------------------------------------------------------
(* What the calls begin.                                                    *)

(* A call that leaves the objects as they are and runs the commands of op. *)
Begun(op) ==
  /\ call' # Idle /\ call'.op = op /\ op \in Ops /\ OnlyRuns(todo', CommandsOf(op))
  /\ UNCHANGED handle

(* Start begins a call. *)
LEMMA StartBegins ==
  ASSUME NEW op, op # "Idle", NEW h, NEW steps, OnlyRuns(steps, CommandsOf(op)),
         Start(op, h, steps)
  PROVE  Begun(op)
<1>1. call'.op # Idle.op
  BY DEF Start, Begin, Idle
<1> QED
  BY <1>1 DEF Start, Begin, Begun

(* The seek that is pending is one more command of a transfer. *)
LEMMA RunsSeek ==
  ASSUME NEW info, NEW where, NEW whence, NEW C, "FILE_SEEK" \in C
  PROVE  OnlyRuns(RiiSeek(info, where, whence), C) /\ OnlyRuns(DirtySeek(info), C)
<1>1. ASSUME NEW w, NEW v PROVE OnlyRuns(RiiSeek(info, w, v), C)
  <2> DEFINE S == {Send("FILE", info.fd), Send("WHENCE", v), Send("WHERE", w), Receive("FILE_SEEK")}
  <2>1. RiiSeek(info, w, v) \in Seq(S)
    BY DEF RiiSeek
  <2>2. \A m \in S : m.act = "RECEIVE" => m.opt \in C
    BY DEF Send, Receive
  <2> QED
    BY <2>1, <2>2 DEF OnlyRuns
<1> QED
  BY <1>1, RunsNone DEF DirtySeek

(* The commands of each operation. *)
LEMMA CommandsAre ==
  /\ CommandsOf("Mount") = {"HANDSHAKE"} /\ CommandsOf("Unmount") = {"GOODBYE"}
  /\ CommandsOf("IdleTick") = {"LOG"} /\ CommandsOf("Open") = {"FILE_OPEN"}
  /\ CommandsOf("Read") = {"FILE_SEEK", "FILE_READ"}
  /\ CommandsOf("Write") = {"FILE_SEEK", "FILE_WRITE"}
  /\ CommandsOf("Seek") = {"FILE_SEEK", "FILE_TELL"}
  /\ CommandsOf("Sync") = {"FILE_TELL", "FILE_SYNC"}
  /\ CommandsOf("Close") = {"FILE_CLOSE"} /\ CommandsOf("Stat") = {"FILE_STAT"}
  /\ CommandsOf("CreateFile") = {"FILE_CREATE"} /\ CommandsOf("Delete") = {"FILE_DELETE"}
  /\ CommandsOf("CreateDir") = {"FILE_CREATEDIR"} /\ CommandsOf("Rename") = {"FILE_RENAME"}
  /\ CommandsOf("OpenDir") = {"FILE_OPENDIR"} /\ CommandsOf("NextDir") = Listings
  /\ CommandsOf("CloseDir") = {"FILE_CLOSEDIR"}
  BY DEF CommandsOf

(* A transfer, with the seek that may be pending. *)
LEMMA TransferBegins ==
  ASSUME NEW h \in Handles,
         \/ \E length \in Lengths : Read(h, length)
         \/ \E data \in Data : Write(h, data)
  PROVE  Begun("Read") \/ Begun("Write")
<1>1. ASSUME NEW op \in {"Read", "Write"}, NEW o, NEW v, NEW c \in CommandsOf(op),
             Start(op, h, DirtySeek(handle[h]) \o <<Send("FILE", handle[h].fd), Send(o, v), Receive(c)>>)
      PROVE  Begun(op)
  <2>1. OnlyRuns(<<Send("FILE", handle[h].fd), Send(o, v), Receive(c)>>, CommandsOf(op))
    BY <1>1, RunsSSR
  <2>2. "FILE_SEEK" \in CommandsOf(op)
    BY <1>1, CommandsAre
  <2>3. OnlyRuns(DirtySeek(handle[h]), CommandsOf(op))
    BY <2>2, RunsSeek
  <2> QED
    BY <1>1, <2>1, <2>3, RunsConcat, StartBegins
<1>2. "FILE_READ" \in CommandsOf("Read") /\ "FILE_WRITE" \in CommandsOf("Write")
  BY CommandsAre
<1> QED
  BY <1>1, <1>2 DEF Read, Write

(* The tick of an idle handler: the log, a ping, or both. *)
LEMMA TickBegins ==
  ASSUME IdleTick
  PROVE  Begun("IdleTick")
<1> DEFINE ping == <<Send("PING", Unset)>>
           text == <<Send("DATA", logBuffer), Receive("LOG")>>
           C == CommandsOf("IdleTick")
<1>1. PICK p \in {<<>>, ping} :
        Start("IdleTick", Unset, (IF logBuffer = Unset THEN <<>> ELSE text) \o p)
  BY DEF IdleTick
<1>2. "LOG" \in C
  BY CommandsAre
<1>3. OnlyRuns(<<>>, C) /\ OnlyRuns(ping, C) /\ OnlyRuns(text, C)
  BY <1>2, RunsNone, RunsS, RunsSR
<1> HIDE DEF ping, text, C
<1>4. OnlyRuns((IF logBuffer = Unset THEN <<>> ELSE text) \o p, C)
  BY <1>3, RunsConcat
<1> QED
  BY <1>1, <1>4, StartBegins DEF C

(* The program of a call, whatever the call. *)
LEMMA CallBegins ==
  ASSUME CallInv, Call, ~Mount
  PROVE  \/ /\ UNCHANGED <<call, todo>>
            /\ \/ UNCHANGED handle
               \/ \E h \in Handles, where \in Nat :
                    IsFile(h) /\ handle' = [handle EXCEPT ![h] = Moved(handle[h], where)]
         \/ \E op : Begun(op) /\ op \notin {"CloseDir", "NextDir"}
         \/ \E h \in Handles : NextDir(h) \/ CloseDir(h)
<1>1. CASE Unmount \/ CheckPhysical
  <2>1. OnlyRuns(<<Receive("GOODBYE")>>, CommandsOf("Unmount"))
    BY RunsR, CommandsAre
  <2>2. OnlyRuns(<<Send("PING", Unset)>>, CommandsOf("CheckPhysical"))
    BY RunsS
  <2>3. Begun("Unmount") \/ Begun("CheckPhysical")
    BY <1>1, <2>1, <2>2, StartBegins DEF Unmount, CheckPhysical
  <2> QED
    BY <2>3
<1>2. CASE IdleTick
  BY <1>2, TickBegins
<1>3. CASE \E p \in Paths : Stat(p) \/ CreateFile(p) \/ Delete(p) \/ CreateDir(p)
  <2>1. PICK p \in Paths : Stat(p) \/ CreateFile(p) \/ Delete(p) \/ CreateDir(p)
    BY <1>3
  <2>2. ASSUME NEW op \in {"Stat", "CreateFile", "Delete", "CreateDir"}, NEW c \in CommandsOf(op),
               Start(op, Unset, <<Send("PATH", p), Receive(c)>>)
        PROVE  Begun(op)
    BY <2>2, RunsSR, StartBegins
  <2>3. \E op \in {"Stat", "CreateFile", "Delete", "CreateDir"} : Begun(op)
    BY <2>1, <2>2, CommandsAre DEF Stat, CreateFile, Delete, CreateDir
  <2> QED
    BY <2>3
<1>4. CASE \E text \in Data : Log(text)
  BY <1>4 DEF Log, Local
<1>5. CASE \E p, q \in Paths : Rename(p, q)
  <2>1. PICK p, q \in Paths : Rename(p, q)
    BY <1>5
  <2>2. "FILE_RENAME" \in CommandsOf("Rename")
    BY CommandsAre
  <2>3. Begun("Rename")
    BY <2>1, <2>2, RunsSSR, StartBegins DEF Rename
  <2> QED
    BY <2>3
<1>6. CASE \E h \in Handles : \/ \E p \in Paths, mode \in Modes : Open(h, p, mode)
                              \/ \E p \in Paths \union {Root} : OpenDir(h, p)
                              \/ Sync(h) \/ Close(h)
  <2>1. PICK h \in Handles : \/ \E p \in Paths, mode \in Modes : Open(h, p, mode)
                            \/ \E p \in Paths \union {Root} : OpenDir(h, p)
                            \/ Sync(h) \/ Close(h)
    BY <1>6
  <2>2. CASE \E p \in Paths, mode \in Modes : Open(h, p, mode)
    <3>1. "FILE_OPEN" \in CommandsOf("Open")
      BY CommandsAre
    <3>2. Begun("Open")
      BY <2>2, <3>1, RunsSSR, StartBegins DEF Open
    <3> QED
      BY <3>2
  <2>3. CASE \E p \in Paths \union {Root} : OpenDir(h, p)
    <3>1. "FILE_OPENDIR" \in CommandsOf("OpenDir")
      BY CommandsAre
    <3>2. Begun("OpenDir")
      BY <2>3, <3>1, RunsSR, StartBegins DEF OpenDir
    <3> QED
      BY <3>2
  <2>4. CASE Sync(h)
    <3>1. "FILE_TELL" \in CommandsOf("Sync") /\ "FILE_SYNC" \in CommandsOf("Sync")
      BY CommandsAre
    <3>2. Begun("Sync")
      BY <2>4, <3>1, RunsSRR, StartBegins DEF Sync
    <3> QED
      BY <3>2
  <2>5. CASE Close(h)
    <3>1. "FILE_CLOSE" \in CommandsOf("Close")
      BY CommandsAre
    <3>2. Begun("Close")
      BY <2>5, <3>1, RunsSR, StartBegins DEF Close
    <3> QED
      BY <3>2
  <2> QED
    BY <2>1, <2>2, <2>3, <2>4, <2>5
<1>7. CASE \E h \in Handles : \/ \E length \in Lengths : Read(h, length)
                              \/ \E data \in Data : Write(h, data)
  BY <1>7, TransferBegins
<1>8. CASE \E h \in Handles, where \in Offsets, whence \in Whences : Seek(h, where, whence)
  <2>1. PICK h \in Handles, where \in Offsets, whence \in Whences : Seek(h, where, whence)
    BY <1>8
  <2>2. CASE \E w : SeekLocally(h, w)
    <3>1. PICK w : SeekLocally(h, w)
      BY <2>2
    <3>2. w \in Nat /\ h \in Handles /\ IsFile(h)
      <4>1. w \in 0..MaxSize /\ MaxSize \in Nat /\ IsFile(h)
        BY <2>1, <3>1, RiiFSAssumption DEF SeekLocally, Seek
      <4> QED
        BY <4>1
    <3>3. UNCHANGED <<call, todo>> /\ handle' = [handle EXCEPT ![h] = Moved(handle[h], w)]
      BY <3>1 DEF SeekLocally, Local
    <3>4. \E g \in Handles, n \in Nat :
            IsFile(g) /\ handle' = [handle EXCEPT ![g] = Moved(handle[g], n)]
      BY <3>2, <3>3, Zenon
    <3> QED
      BY <3>3, <3>4
  <2>3. CASE Start("Seek", h, RiiSeek(handle[h], where, "END"))
    <3>1. "FILE_SEEK" \in CommandsOf("Seek")
      BY CommandsAre
    <3>2. Begun("Seek")
      BY <2>3, <3>1, RunsSeek, StartBegins
    <3> QED
      BY <3>2
  <2> QED
    BY <2>1, <2>2, <2>3 DEF Seek
<1>9. CASE \E h \in Handles : NextDir(h) \/ CloseDir(h)
  BY <1>9
<1> QED
  BY <1>1, <1>2, <1>3, <1>4, <1>5, <1>6, <1>7, <1>8, <1>9 DEF Call

-----------------------------------------------------------------------------
(* What each call asks for, and in which order.                             *)

(* NextDir and CloseDir begin with a directory. *)
LEMMA DirBegins ==
  ASSUME CallInv, NEW h \in Handles, NextDir(h) \/ CloseDir(h)
  PROVE  /\ handle[h] # Unset /\ handle[h].fd \in Fds /\ handle[h].kind = "dir"
         /\ call'.h = h /\ call' # Idle /\ call'.op \in Ops
         /\ OnlyRuns(todo', CommandsOf(call'.op))
         /\ call'.args = {Send("FILE", handle[h].fd)}
         /\ \/ /\ call'.op = "NextDir" /\ handle' = handle
               /\ todo' = <<Send("FILE", handle[h].fd), Receive("FILE_NEXTDIR_PATH"),
                            Receive("FILE_NEXTDIR_STAT")>>
            \/ /\ call'.op = "CloseDir" /\ handle' = [handle EXCEPT ![h] = Unset]
               /\ todo' = <<Send("FILE", handle[h].fd), Receive("FILE_CLOSEDIR")>>
<1> DEFINE f == handle[h].fd
           next == <<Send("FILE", f), Receive("FILE_NEXTDIR_PATH"), Receive("FILE_NEXTDIR_STAT")>>
           close == <<Send("FILE", f), Receive("FILE_CLOSEDIR")>>
<1>1. handle[h] # Unset /\ handle[h].kind = "dir" /\ f \in Fds
  BY HandleIs DEF NextDir, CloseDir, IsDir, CallInv
<1>2. /\ "FILE_NEXTDIR_PATH" \in CommandsOf("NextDir")
      /\ "FILE_NEXTDIR_STAT" \in CommandsOf("NextDir")
      /\ "FILE_CLOSEDIR" \in CommandsOf("CloseDir")
  BY CommandsAre DEF Listings
<1>3. OnlyRuns(next, CommandsOf("NextDir")) /\ OnlyRuns(close, CommandsOf("CloseDir"))
  BY <1>2, RunsSR, RunsSRR
<1>4. ToSet(next) = {Send("FILE", f), Receive("FILE_NEXTDIR_PATH"), Receive("FILE_NEXTDIR_STAT")}
  <2>1. /\ DOMAIN next = 1..3 /\ next[1] = Send("FILE", f) /\ next[2] = Receive("FILE_NEXTDIR_PATH")
        /\ next[3] = Receive("FILE_NEXTDIR_STAT")
    OBVIOUS
  <2> HIDE DEF next
  <2> QED
    BY <2>1 DEF ToSet
<1>5. ToSet(close) = {Send("FILE", f), Receive("FILE_CLOSEDIR")}
  <2>1. DOMAIN close = 1..2 /\ close[1] = Send("FILE", f) /\ close[2] = Receive("FILE_CLOSEDIR")
    OBVIOUS
  <2> HIDE DEF close
  <2> QED
    BY <2>1 DEF ToSet
<1>6. Send("FILE", f).act = "SEND" /\ \A c : Receive(c).act # "SEND"
  BY DEF Send, Receive
<1> HIDE DEF next, close
<1>7. CASE NextDir(h)
  <2>1. Begin("NextDir", h, next) /\ UNCHANGED handle
    BY <1>7 DEF NextDir, Start, next
  <2>2. /\ call'.op = "NextDir" /\ call'.h = h /\ todo' = next /\ "NextDir" \in Ops
        /\ call'.args = {s \in ToSet(next) : s.act = "SEND"}
    BY <2>1 DEF Begin
  <2>3. call'.args = {Send("FILE", f)}
    BY <1>4, <1>6, <2>2
  <2>4. call' # Idle
    BY <2>2 DEF Idle
  <2> QED
    BY <1>1, <1>2, <1>3, <1>4, <2>1, <2>2, <2>3, <2>4 DEF next
<1>8. CASE CloseDir(h)
  <2>1. Begin("CloseDir", h, close) /\ handle' = [handle EXCEPT ![h] = Unset]
    BY <1>8 DEF CloseDir, close
  <2>2. /\ call'.op = "CloseDir" /\ call'.h = h /\ todo' = close /\ "CloseDir" \in Ops
        /\ call'.args = {s \in ToSet(close) : s.act = "SEND"}
    BY <2>1 DEF Begin
  <2>3. call'.args = {Send("FILE", f)}
    BY <1>5, <1>6, <2>2
  <2>4. call' # Idle
    BY <2>2 DEF Idle
  <2> QED
    BY <1>1, <1>2, <1>3, <1>5, <2>1, <2>2, <2>3, <2>4 DEF close
<1> QED
  BY <1>7, <1>8

(* What the commands due are when a call has begun. *)
LEMMA DueBegun ==
  ASSUME CallInv, Call, ~Mount, NEW C, OnlyRuns(todo', C)
  PROVE  Due' \subseteq C
<1>1. awaiting' = Unset
  BY CallStarts, IdleWaits DEF CallInv, Starts
<1>2. \A i \in Requests(todo') : todo'[i].opt \in C
  BY RunsRequests
<1> QED
  BY <1>1, <1>2 DEF Due

(* A call is no step of the server, and nothing is awaited when it begins. *)
LEMMA CallFrame ==
  ASSUME CallInv, Call, ~Mount
  PROVE  /\ UNCHANGED <<linkVars, serverVars, diskVars>>
         /\ call = Idle /\ awaiting = Unset /\ awaiting' = Unset /\ Due = {} /\ todo = <<>>
<1>1. UNCHANGED <<linkVars, serverVars, diskVars>>
  <2>1. CASE \E op, h, steps : Begin(op, h, steps)
    BY <2>1 DEF Begin
  <2>2. CASE \E op : Local(op)
    BY <2>2 DEF Local
  <2> QED
    BY <2>1, <2>2
       DEF Call, Unmount, CheckPhysical, IdleTick, Stat, CreateFile, Delete, CreateDir, Rename, Log,
           Open, Read, Write, Seek, SeekLocally, Sync, Close, OpenDir, NextDir, CloseDir, Start
<1> QED
  BY <1>1, CallStarts, IdleWaits DEF CallInv, Starts

(* A step that leaves the call as it is. *)
LEMMA SameCall ==
  ASSUME ServerStep \/ Drop \/ UNCHANGED vars
  PROVE  UNCHANGED <<call, todo, awaiting, handle, mounted>> /\ Due' = Due
<1>1. UNCHANGED clientVars
  <2>1. CASE UNCHANGED vars
    BY <2>1 DEF vars
  <2>2. CASE Drop
    BY <2>2 DEF Drop
  <2>3. CASE ServerSend \/ ServerClose \/ Goodbye
    BY <2>3 DEF ServerSend, ServerClose, Goodbye
  <2>4. CASE Handshake \/ LogText \/ FileTell \/ FileStat
    BY <2>4 DEF Handshake, LogText, FileTell, FileStat, Answer
  <2>5. CASE FileRead \/ FileWrite \/ FileSeek \/ FileSync \/ FileClose
    BY <2>5 DEF FileRead, FileWrite, FileSeek, FileSync, FileClose, ServeStream
  <2>6. CASE FileCreate \/ FileDelete \/ FileRename \/ FileCreateDir
    BY <2>6 DEF FileCreate, FileDelete, FileRename, FileCreateDir, ServeDisk
  <2>7. CASE FileOpenDir \/ FileCloseDir \/ FileNextDirStat
    BY <2>7 DEF FileOpenDir, FileCloseDir, FileNextDirStat, ServeListing
  <2>8. CASE FileOpen \/ FileNextDirPath
    BY <2>8 DEF FileOpen, FileNextDirPath
  <2> QED
    BY <2>1, <2>2, <2>3, <2>4, <2>5, <2>6, <2>7, <2>8 DEF ServerStep
<1> QED
  BY <1>1 DEF clientVars, Due

(* A new connection begins with the handshake. *)
LEMMA MountBegins ==
  ASSUME CallInv, Mount
  PROVE  /\ call'.op = "Mount" /\ "Mount" \in Ops /\ Due' = {"HANDSHAKE"}
         /\ todo' = <<Send("HANDSHAKE", "1.03"), Receive("HANDSHAKE")>>
         /\ toClient' = <<>> /\ awaiting' = Unset /\ ~serving /\ serving'
         /\ \A h \in Handles : handle'[h] = Unset
         /\ UNCHANGED <<handle, stream, listing>>
<1>1. /\ call = Idle /\ call'.op = "Mount" /\ "Mount" \in Ops /\ ~mounted
      /\ todo' = <<Send("HANDSHAKE", "1.03"), Receive("HANDSHAKE")>>
      /\ toClient' = <<>> /\ ~serving /\ serving' /\ UNCHANGED <<awaiting, handle, stream, listing>>
  BY DEF Mount
<1>2. awaiting' = Unset
  BY <1>1, IdleWaits DEF CallInv
<1>3. DOMAIN todo' = 1..2 /\ todo'[1] = Send("HANDSHAKE", "1.03") /\ todo'[2] = Receive("HANDSHAKE")
  BY <1>1
<1>4. Requests(todo') = {2} /\ todo'[2].opt = "HANDSHAKE"
  BY <1>3 DEF Requests, Send, Receive
<1>5. Due' = {"HANDSHAKE"}
  BY <1>2, <1>4 DEF Due
<1>6. \A h \in Handles : handle'[h] = Unset
  BY <1>1 DEF CallInv, HandleInv
<1> QED
  BY <1>1, <1>2, <1>5, <1>6

(* Every command that is due is one of its call's. *)
LEMMA RunsInvNext ==
  ASSUME CallInv, RunsInv, [Next]_vars
  PROVE  RunsInv'
<1>1. CASE Mount
  <2>1. Due' \subseteq CommandsOf(call'.op) /\ call'.op \in Ops
    BY <1>1, MountBegins, CommandsAre
  <2> QED
    BY <2>1 DEF RunsInv
<1>2. CASE Call /\ ~Mount
  <2>1. CASE UNCHANGED <<call, todo>>
    <3>1. UNCHANGED awaiting
      BY <1>2, CallStarts DEF Starts
    <3> QED
      BY <2>1, <3>1 DEF RunsInv, Due
  <2>2. ASSUME NEW op, Begun(op) PROVE RunsInv'
    BY <1>2, <2>2, DueBegun DEF Begun, RunsInv
  <2>3. ASSUME NEW h \in Handles, NextDir(h) \/ CloseDir(h) PROVE RunsInv'
    BY <1>2, <2>3, DirBegins, DueBegun DEF RunsInv
  <2> QED
    BY <1>2, <2>1, <2>2, <2>3, CallBegins
<1>3. CASE ClientSend
  BY <1>3, DueAfterSend DEF RunsInv
<1>4. CASE ClientRequest
  BY <1>4, DueAfterRequest DEF RunsInv
<1>5. CASE ClientReceive
  <2>1. CASE Due' \subseteq Due
    BY <1>5, <2>1, DueAfterReply DEF RunsInv
  <2>2. CASE call.op = "Seek" /\ Due' = {"FILE_TELL"}
    BY <1>5, <2>2, DueAfterReply, CommandsAre DEF RunsInv
  <2> QED
    BY <1>5, <2>1, <2>2, DueAfterReply
<1>6. CASE ServerStep \/ Drop \/ UNCHANGED vars
  BY <1>6, SameCall DEF RunsInv
<1> QED
  BY <1>1, <1>2, <1>3, <1>4, <1>5, <1>6 DEF Next, ClientStep

(* The program of NextDir. *)
LEMMA NextDirSteps ==
  ASSUME NEW f, NEW p, NEW s
  PROVE  /\ Head(<<f, p, s>>) = f /\ Tail(<<f, p, s>>) = <<p, s>>
         /\ Head(<<p, s>>) = p /\ Tail(<<p, s>>) = <<s>>
         /\ Head(<<s>>) = s /\ Tail(<<s>>) = <<>>
  OBVIOUS

(* NextDir asks for the name and then for the stat, unless there is no name. *)
LEMMA NextDirInvNext ==
  ASSUME CallInv, NextDirInv, [Next]_vars
  PROVE  NextDirInv'
<1> DEFINE p == Receive("FILE_NEXTDIR_PATH")
           s == Receive("FILE_NEXTDIR_STAT")
<1>0. /\ p.act = "RECEIVE" /\ s.act = "RECEIVE" /\ p.opt = "FILE_NEXTDIR_PATH"
      /\ s.opt = "FILE_NEXTDIR_STAT" /\ \A f : Send("FILE", f).act = "SEND"
      /\ Idle.op # "NextDir"
  BY DEF Receive, Send, Idle
<1> HIDE DEF p, s
<1>i. NextDirInv <=>
        (call.op = "NextDir" =>
           \/ awaiting = Unset /\ \E f \in Fds : todo = <<Send("FILE", f), p, s>>
           \/ awaiting = Unset /\ todo = <<p, s>>
           \/ awaiting \in {Unset, "FILE_NEXTDIR_PATH"} /\ todo = <<s>>
           \/ awaiting = "FILE_NEXTDIR_STAT" /\ todo = <<>>)
  BY DEF NextDirInv, p, s
<1>j. NextDirInv' <=>
        (call'.op = "NextDir" =>
           \/ awaiting' = Unset /\ \E f \in Fds : todo' = <<Send("FILE", f), p, s>>
           \/ awaiting' = Unset /\ todo' = <<p, s>>
           \/ awaiting' \in {Unset, "FILE_NEXTDIR_PATH"} /\ todo' = <<s>>
           \/ awaiting' = "FILE_NEXTDIR_STAT" /\ todo' = <<>>)
  BY DEF NextDirInv, p, s
<1>u. "FILE_NEXTDIR_PATH" # Unset /\ "FILE_NEXTDIR_STAT" # Unset
  BY RiiFSAssumption DEF Commands
<1>k. /\ Head(<<p, s>>) = p /\ Tail(<<p, s>>) = <<s>> /\ Head(<<s>>) = s /\ Tail(<<s>>) = <<>>
      /\ <<s>> # <<>>
  BY NextDirSteps
<1>l. ASSUME NEW f
      PROVE  /\ Head(<<Send("FILE", f), p, s>>).act = "SEND"
             /\ Tail(<<Send("FILE", f), p, s>>) = <<p, s>>
  BY <1>0, NextDirSteps
<1>1. CASE Mount
  BY <1>1, <1>j, MountBegins
<1>2. CASE Call /\ ~Mount
  <2>0. UNCHANGED awaiting /\ awaiting = Unset
    BY <1>2, CallStarts, IdleWaits DEF Starts, CallInv
  <2>1. CASE UNCHANGED <<call, todo>>
    BY <2>0, <2>1, <1>i, <1>j
  <2>2. ASSUME NEW op, Begun(op), op # "NextDir" PROVE NextDirInv'
    BY <1>j, <2>2 DEF Begun
  <2>3. ASSUME NEW h \in Handles, NextDir(h) \/ CloseDir(h) PROVE NextDirInv'
    BY <1>j, <2>0, <2>3, DirBegins DEF p, s
  <2> QED
    BY <1>2, <2>1, <2>2, <2>3, CallBegins
<1>3. CASE ClientSend
  <2>1. /\ call'.op = "NextDir" => call.op = "NextDir"
        /\ awaiting = Unset /\ awaiting' = Unset /\ todo # <<>>
        /\ todo' = Tail(todo) /\ Head(todo).act = "SEND"
    BY <1>0, <1>3, DueAfterSend
  <2>2. call'.op = "NextDir" => \E f \in Fds : todo = <<Send("FILE", f), p, s>>
    <3>1. todo = <<p, s>> \/ todo = <<s>> => Head(todo).act # "SEND"
      BY <1>0, <1>k
    <3> QED
      BY <1>i, <1>u, <2>1, <3>1
  <2>3. call'.op = "NextDir" => todo' = <<p, s>>
    BY <1>l, <2>1, <2>2
  <2> QED
    BY <1>j, <2>1, <2>3
<1>4. CASE ClientRequest
  <2>1. /\ call' = call /\ awaiting = Unset /\ awaiting' = Head(todo).opt
        /\ todo' = Tail(todo) /\ todo # <<>> /\ Head(todo).act = "RECEIVE"
    BY <1>4, DueAfterRequest DEF ClientRequest
  <2>2. ASSUME call.op = "NextDir"
        PROVE  todo = <<p, s>> \/ todo = <<s>>
    <3>1. ASSUME NEW f \in Fds, todo = <<Send("FILE", f), p, s>> PROVE FALSE
      BY <1>l, <2>1, <3>1
    <3> QED
      BY <1>i, <1>u, <2>1, <2>2, <3>1
  <2>3. ASSUME call.op = "NextDir"
        PROVE  \/ awaiting' = "FILE_NEXTDIR_PATH" /\ todo' = <<s>>
               \/ awaiting' = "FILE_NEXTDIR_STAT" /\ todo' = <<>>
    <3>1. CASE todo = <<p, s>>
      BY <1>0, <1>k, <2>1, <3>1
    <3>2. CASE todo = <<s>>
      BY <1>0, <1>k, <2>1, <3>2
    <3> QED
      BY <2>2, <2>3, <3>1, <3>2
  <2> QED
    BY <1>j, <2>1, <2>3
<1>5. CASE ClientReceive
  <2>1. /\ awaiting' = Unset /\ awaiting # Unset /\ call # Idle
        /\ call' = IF todo' = <<>> THEN Idle ELSE call
        /\ todo' = todo \/ todo' = <<>> \/ call.op = "Seek"
    BY <1>5, DueAfterReply, ReturnedIs
  <2>2. ASSUME call'.op = "NextDir" PROVE todo' = <<s>>
    <3>1. todo' # <<>> /\ call' = call
      BY <1>0, <2>1, <2>2
    <3>2. todo' = todo
      BY <2>1, <2>2, <3>1
    <3> QED
      BY <1>i, <2>1, <2>2, <3>1, <3>2
  <2> QED
    BY <1>j, <2>1, <2>2
<1>6. CASE ServerStep \/ Drop \/ UNCHANGED vars
  BY <1>6, <1>i, <1>j, SameCall
<1> QED
  BY <1>1, <1>2, <1>3, <1>4, <1>5, <1>6 DEF Next, ClientStep

(* The server has a Connection as long as the connection is up, and keeps
   nothing of one that is gone. *)
LEMMA ServesInvNext ==
  ASSUME CallInv, ServesInv, [Next]_vars
  PROVE  ServesInv'
<1>1. CASE Mount
  BY <1>1, MountBegins DEF ServesInv
<1>2. CASE Call /\ ~Mount
  <2>1. UNCHANGED <<linkVars, serverVars>>
    BY <1>2, CallFrame
  <2> QED
    BY <2>1 DEF ServesInv, linkVars, serverVars
<1>3. CASE ClientStep
  <2>1. UNCHANGED <<serving, stream, listing>> /\ (link' => link)
    BY <1>3, DueAfterSend, DueAfterRequest, ReturnedIs, ReceiveSendsNothing DEF ClientStep, serverVars
  <2> QED
    BY <2>1 DEF ServesInv
<1>4. CASE ServerClose \/ Goodbye
  <2>1. CASE Goodbye
    BY <2>1 DEF Goodbye, Receiving, serverVars, ServesInv
  <2>2. CASE ServerClose /\ CloseNext
    <3>1. serving /\ serving' = serving /\ UNCHANGED link
      BY <2>2 DEF ServerClose, CloseNext
    <3> QED
      BY <3>1 DEF ServesInv
  <2>3. CASE ServerClose /\ Deleted
    BY <2>3 DEF ServerClose, Deleted, ServesInv
  <2> QED
    BY <1>4, <2>1, <2>2, <2>3 DEF ServerClose
<1>5. CASE ServerSend \/ Drop \/ UNCHANGED vars
  BY <1>5 DEF ServerSend, Drop, vars, linkVars, serverVars, ServesInv
<1>6. CASE ServerStep /\ ~ServerSend /\ ~ServerClose /\ ~Goodbye
  <2>1. serving /\ serving' /\ (link' => link)
    <3>1. CASE Handshake \/ LogText \/ FileTell \/ FileStat
      BY <3>1 DEF Handshake, LogText, FileTell, FileStat, Answer, Receiving, serverVars
    <3>2. CASE FileRead \/ FileWrite \/ FileSeek \/ FileSync \/ FileClose
      BY <3>2 DEF FileRead, FileWrite, FileSeek, FileSync, FileClose, ServeStream, Receiving
    <3>3. CASE FileCreate \/ FileDelete \/ FileRename \/ FileCreateDir
      BY <3>3 DEF FileCreate, FileDelete, FileRename, FileCreateDir, ServeDisk, Receiving, serverVars
    <3>4. CASE FileOpenDir \/ FileCloseDir \/ FileNextDirStat
      BY <3>4 DEF FileOpenDir, FileCloseDir, FileNextDirStat, ServeListing, Receiving
    <3>5. CASE FileOpen \/ FileNextDirPath
      BY <3>5 DEF FileOpen, FileNextDirPath, Receiving, serverVars
    <3> QED
      BY <1>6, <3>1, <3>2, <3>3, <3>4, <3>5 DEF ServerStep
  <2> QED
    BY <2>1 DEF ServesInv
<1> QED
  BY <1>1, <1>2, <1>3, <1>4, <1>5, <1>6 DEF Next

-----------------------------------------------------------------------------
(* Descriptors and objects, one lemma for each kind of step.                *)

(* A step that opens and closes nothing, on either side. *)
SameObjects ==
  \A h \in Handles : /\ handle'[h] = Unset <=> handle[h] = Unset
                     /\ handle[h] # Unset => /\ handle'[h].kind = handle[h].kind
                                             /\ handle'[h].fd = handle[h].fd
SameServer ==
  /\ nextFd' = nextFd
  /\ \A f \in Fds : /\ stream'[f] = Unset <=> stream[f] = Unset
                    /\ listing'[f] = Unset <=> listing[f] = Unset

(* Such a step keeps the invariant when it opens, closes and leaves nothing. *)
LEMMA OwnInvSame ==
  ASSUME HandleInv, OwnInv, link' => link, SameObjects, SameServer,
         \A c \in Opens, f \in Fds : Opened(c, f)' <=> Opened(c, f),
         Replied("FILE_CLOSE")' <=> Replied("FILE_CLOSE"),
         Replied("FILE_CLOSE") => call'.h = call.h /\ call.h \in Handles /\ handle[call.h] # Unset,
         \A f \in Fds : Closing(f) => Closing(f)',
         \A f \in Fds : Leaving(f)' => Leaving(f)
  PROVE  OwnInv'
<1> SUFFICES ASSUME link' PROVE FdsDiffer' /\ Backed' /\ Owned' /\ Fresh'
  BY DEF OwnInv
<1>1. FdsDiffer /\ Backed /\ Owned /\ Fresh
  BY DEF OwnInv
<1>2. \A h \in Handles : /\ IsFile(h)' <=> IsFile(h)
                         /\ IsDir(h)' <=> IsDir(h)
  BY DEF SameObjects, IsFile, IsDir
<1>3. \A h \in Handles : handle[h] # Unset => handle[h].fd \in Fds
  BY HandleIs
<1>4. FdsDiffer'
  BY <1>1 DEF FdsDiffer, SameObjects, SameServer
<1>5. Backed'
  <2>1. ASSUME NEW h \in Handles, IsFile(h)'
        PROVE  stream'[handle'[h].fd] # Unset \/ (Replied("FILE_CLOSE")' /\ call'.h = h)
    <3>1. IsFile(h) /\ handle[h] # Unset
      BY <1>2, <2>1 DEF IsFile
    <3> QED
      BY <1>1, <1>3, <3>1 DEF Backed, SameObjects, SameServer
  <2>2. ASSUME NEW h \in Handles, IsDir(h)'
        PROVE  listing'[handle'[h].fd] # Unset
    <3>1. IsDir(h) /\ handle[h] # Unset
      BY <1>2, <2>2 DEF IsDir
    <3> QED
      BY <1>1, <1>3, <3>1 DEF Backed, SameObjects, SameServer
  <2> QED
    BY <2>1, <2>2 DEF Backed
<1>6. Owned'
  <2>1. "FILE_OPEN" \in Opens /\ "FILE_OPENDIR" \in Opens
    BY DEF Opens
  <2>2. \A h \in Handles : IsFile(h) \/ IsDir(h) => handle'[h].fd = handle[h].fd
    BY DEF SameObjects, IsFile, IsDir
  <2>3. ASSUME NEW f \in Fds, stream'[f] # Unset
        PROVE  Opened("FILE_OPEN", f)' \/ \E h \in Handles : IsFile(h)' /\ handle'[h].fd = f
    <3>1. Opened("FILE_OPEN", f) \/ \E h \in Handles : IsFile(h) /\ handle[h].fd = f
      BY <1>1, <2>3 DEF Owned, SameServer
    <3> QED
      BY <1>2, <2>1, <2>2, <3>1
  <2>4. ASSUME NEW f \in Fds, listing'[f] # Unset
        PROVE  \/ Opened("FILE_OPENDIR", f)' \/ Closing(f)'
               \/ \E h \in Handles : IsDir(h)' /\ handle'[h].fd = f
    <3>1. \/ Opened("FILE_OPENDIR", f) \/ Closing(f)
          \/ \E h \in Handles : IsDir(h) /\ handle[h].fd = f
      BY <1>1, <2>4 DEF Owned, SameServer
    <3> QED
      BY <1>2, <2>1, <2>2, <3>1
  <2> QED
    BY <2>3, <2>4 DEF Owned
<1>7. Fresh'
  <2>1. ASSUME NEW c \in Opens, NEW f \in Fds, Opened(c, f)'
        PROVE  /\ f < nextFd'
               /\ IF c = "FILE_OPEN" THEN stream'[f] # Unset ELSE listing'[f] # Unset
               /\ \A h \in Handles : handle'[h] # Unset => handle'[h].fd # f
    BY <1>1, <2>1 DEF Fresh, SameServer, SameObjects
  <2>2. Replied("FILE_CLOSE")' => stream'[handle'[call'.h].fd] = Unset
    <3>1. ASSUME Replied("FILE_CLOSE")
          PROVE  /\ stream[handle[call.h].fd] = Unset /\ call'.h = call.h /\ call.h \in Handles
                 /\ handle[call.h].fd \in Fds /\ handle'[call.h].fd = handle[call.h].fd
      BY <1>1, <1>3, <3>1 DEF Fresh, SameObjects
    <3> QED
      BY <3>1 DEF SameServer
  <2>3. \A h \in Handles, f \in Fds : Leaving(f)' /\ handle'[h] # Unset => handle'[h].fd # f
    BY <1>1 DEF Fresh, SameObjects
  <2> QED
    BY <2>1, <2>2, <2>3 DEF Fresh
<1> QED
  BY <1>4, <1>5, <1>6, <1>7

(* The file whose closing was answered is still the one of the call. *)
LEMMA ClosedFile ==
  ASSUME CallInv, Replied("FILE_CLOSE")
  PROVE  call.h \in Handles /\ handle[call.h] # Unset /\ handle[call.h].fd \in Fds
<1>1. "FILE_CLOSE" \in Due
  BY RiiFSAssumption DEF Replied, Due, Commands
<1>2. Fits("FILE_CLOSE", call.h, call.args)
  BY <1>1 DEF CallInv, HandleInv
<1> QED
  BY <1>2, HandleIs DEF Fits, OnHandle, CallInv

(* No command has been asked for when a call begins. *)
LEMMA NothingReplied ==
  ASSUME awaiting = Unset \/ toClient = <<>>
  PROVE  \A c \in Commands : ~Replied(c) /\ \A f : ~Opened(c, f)
  BY RiiFSAssumption DEF Replied, Opened

(* An object that seeks within the handler keeps its descriptor. *)
LEMMA MovedIs ==
  ASSUME HandleInv, NEW h \in Handles, NEW where \in Nat, IsFile(h),
         handle' = [handle EXCEPT ![h] = Moved(handle[h], where)]
  PROVE  /\ SameObjects
         /\ \A g \in Handles : g # h => handle'[g] = handle[g]
         /\ handle'[h] = Moved(handle[h], where)
         /\ handle'[h].pos = where /\ handle'[h].dirty = TRUE /\ handle'[h].seen = handle[h].seen
<1> DEFINE info == handle[h]
           moved == Moved(info, where)
<1>1. handle \in [Handles -> Info \union {Unset}] /\ info \in Info /\ info # Unset
  BY HandleIs DEF HandleInv, IsFile
<1>2. where \in Int
  OBVIOUS
<1>3. moved \in Info
  BY <1>1, <1>2 DEF Moved, Info
<1>4. handle'[h] = moved /\ \A g \in Handles : g # h => handle'[g] = handle[g]
  BY <1>1
<1>5. moved.kind = info.kind /\ moved.fd = info.fd
  BY <1>1 DEF Moved, Info
<1>6. moved.pos = where
  BY <1>1 DEF Moved, Info
<1>7. moved.dirty = TRUE /\ moved.seen = info.seen
  BY <1>1 DEF Moved, Info
<1> HIDE DEF info, moved
<1>8. moved # Unset
  BY <1>3, UnsetAssumption
<1> QED
  BY <1>1, <1>4, <1>5, <1>6, <1>7, <1>8 DEF SameObjects, info, moved

(* A call that begins with a command on a directory, or with any other. *)
LEMMA OwnInvCall ==
  ASSUME CallInv, OwnInv, Call, ~Mount
  PROVE  OwnInv'
<1>1. /\ UNCHANGED <<linkVars, serverVars, diskVars>>
      /\ awaiting = Unset /\ awaiting' = Unset /\ Due = {}
  BY CallFrame
<1>2. UNCHANGED <<link, stream, listing, nextFd>> /\ SameServer
  BY <1>1 DEF linkVars, serverVars, SameServer
<1>3. /\ \A c \in Commands : ~Replied(c) /\ ~Replied(c)' /\ \A f : ~Opened(c, f) /\ ~Opened(c, f)'
      /\ Opens \subseteq Commands /\ "FILE_CLOSE" \in Commands /\ "FILE_CLOSEDIR" \in Commands
  <2>1. \A c \in Commands : ~Replied(c)' /\ \A f : ~Opened(c, f)'
    BY <1>1, RiiFSAssumption DEF Replied, Opened
  <2> QED
    BY <1>1, <2>1, NothingReplied DEF Commands, Opens
<1>4. \A f : ~Leaving(f) /\ ~Closing(f)
  BY <1>1 DEF Leaving, Closing
<1>5. HandleInv
  BY DEF CallInv
<1>6. ASSUME SameObjects, "FILE_CLOSEDIR" \notin Due' PROVE OwnInv'
  <2>1. \A f : ~Leaving(f)'
    BY <1>6 DEF Leaving
  <2> QED
    BY <1>2, <1>3, <1>4, <1>5, <1>6, <2>1, OwnInvSame
<1>7. CASE UNCHANGED <<call, todo>>
  <2>1. Due' = {}
    BY <1>1, <1>7 DEF Due
  <2>2. handle' = handle => SameObjects
    BY DEF SameObjects
  <2>3. ASSUME NEW h \in Handles, NEW where \in Nat, IsFile(h),
               handle' = [handle EXCEPT ![h] = Moved(handle[h], where)]
        PROVE  SameObjects
    BY <1>5, <2>3, MovedIs
  <2>4. SameObjects
    <3>1. CASE UNCHANGED handle
      BY <2>2, <3>1
    <3>2. CASE ~UNCHANGED handle
      <4>1. ~\E op : Begun(op)
        BY <3>2 DEF Begun
      <4>2. ~\E h \in Handles : NextDir(h) \/ CloseDir(h)
        BY <1>7, DirBegins, CallFrame
      <4> QED
        BY <2>3, <3>2, <4>1, <4>2, CallBegins
    <3> QED
      BY <3>1, <3>2
  <2> QED
    BY <1>6, <2>1, <2>4
<1>8. ASSUME NEW op, Begun(op), op \notin {"CloseDir", "NextDir"} PROVE OwnInv'
  <2>1. Due' \subseteq CommandsOf(op)
    BY <1>8, DueBegun DEF Begun
  <2>2. "FILE_CLOSEDIR" \notin CommandsOf(op)
    BY <1>8 DEF CommandsOf
  <2>3. SameObjects
    BY <1>8 DEF Begun, SameObjects
  <2> QED
    BY <1>6, <2>1, <2>2, <2>3
<1>9. ASSUME NEW h \in Handles, NextDir(h) \/ CloseDir(h), call'.op = "NextDir" PROVE OwnInv'
  <2>1. Due' \subseteq Listings /\ handle' = handle
    BY <1>9, DirBegins, DueBegun, CommandsAre
  <2> QED
    BY <1>6, <2>1 DEF Listings, SameObjects
<1>10. ASSUME NEW h \in Handles, NextDir(h) \/ CloseDir(h), call'.op = "CloseDir" PROVE OwnInv'
  <2>0. PICK f \in Fds : f = handle[h].fd
    BY <1>10, DirBegins
  <2>1. /\ handle[h] # Unset /\ f \in Fds /\ handle' = [handle EXCEPT ![h] = Unset]
        /\ call'.args = {Send("FILE", f)} /\ handle[h].kind = "dir"
        /\ todo' = <<Send("FILE", f), Receive("FILE_CLOSEDIR")>>
    BY <1>10, <2>0, DirBegins
  <2>2. "FILE_CLOSEDIR" \in Due'
    <3>1. DOMAIN todo' = 1..2 /\ todo'[2] = Receive("FILE_CLOSEDIR")
      BY <2>1
    <3> QED
      BY <3>1 DEF Due, Requests, Receive
  <2>3. Leaving(f)' /\ \A g : Leaving(g)' => g = f
    <3>1. Send("FILE", f).opt = "FILE" /\ Send("FILE", f).val = f
      BY DEF Send
    <3>2. \E s \in call'.args : s.opt = "FILE" /\ s.val = f
      BY <2>1, <3>1
    <3>3. \A s \in call'.args : s.val = f
      BY <2>1, <3>1
    <3> QED
      BY <2>2, <3>2, <3>3 DEF Leaving
  <2>4. Closing(f)'
    BY <1>3, <2>3 DEF Closing
  <2>5. handle'[h] = Unset /\ \A g \in Handles : g # h => handle'[g] = handle[g]
    BY <2>1, <1>5 DEF HandleInv
  <2> SUFFICES ASSUME link' PROVE FdsDiffer' /\ Backed' /\ Owned' /\ Fresh'
    BY DEF OwnInv
  <2>6. FdsDiffer /\ Backed /\ Owned /\ Fresh
    BY <1>2 DEF OwnInv
  <2>7. \A g \in Handles : g # h => (IsFile(g)' <=> IsFile(g)) /\ (IsDir(g)' <=> IsDir(g))
    BY <2>5 DEF IsFile, IsDir
  <2>8. ~IsFile(h)' /\ ~IsDir(h)' /\ ~IsFile(h)
    BY <2>1, <2>5 DEF IsFile, IsDir
  <2>9. FdsDiffer'
    BY <1>2, <2>5, <2>6 DEF FdsDiffer
  <2>10. Backed'
    BY <1>2, <1>3, <2>5, <2>6, <2>7, <2>8 DEF Backed
  <2>11. Owned'
    <3>1. ASSUME NEW e \in Fds, stream'[e] # Unset
          PROVE  \E g \in Handles : IsFile(g)' /\ handle'[g].fd = e
      <4>1. "FILE_OPEN" \in Commands
        BY <1>3 DEF Opens
      <4>2. PICK g \in Handles : IsFile(g) /\ handle[g].fd = e
        BY <1>2, <1>3, <2>6, <3>1, <4>1 DEF Owned
      <4> QED
        BY <2>5, <2>7, <2>8, <4>2
    <3>2. ASSUME NEW e \in Fds, listing'[e] # Unset
          PROVE  Closing(e)' \/ \E g \in Handles : IsDir(g)' /\ handle'[g].fd = e
      <4>1. "FILE_OPENDIR" \in Commands
        BY <1>3 DEF Opens
      <4>2. PICK g \in Handles : IsDir(g) /\ handle[g].fd = e
        BY <1>2, <1>3, <1>4, <2>6, <3>2, <4>1 DEF Owned
      <4>3. CASE g = h
        <5>1. e = f
          BY <2>0, <4>2, <4>3
        <5> QED
          BY <2>4, <5>1
      <4>4. CASE g # h
        <5>1. IsDir(g)' /\ handle'[g].fd = e
          BY <2>5, <2>7, <4>2, <4>4
        <5> QED
          BY <5>1, Zenon
      <4> QED
        BY <4>3, <4>4
    <3> QED
      BY <3>1, <3>2 DEF Owned
  <2>12. Fresh'
    <3>1. \A g \in Handles : handle'[g] # Unset => handle'[g].fd # f
      BY <2>0, <2>1, <2>5, <2>6 DEF FdsDiffer
    <3>2. \A c \in Opens, e \in Fds : ~Opened(c, e)'
      BY <1>3
    <3> QED
      BY <1>3, <2>3, <3>1, <3>2 DEF Fresh
  <2> QED
    BY <2>9, <2>10, <2>11, <2>12
<1>11. \A h \in Handles : NextDir(h) \/ CloseDir(h) => call'.op \in {"NextDir", "CloseDir"}
  BY DirBegins
<1>12. CASE \E op : Begun(op) /\ op \notin {"CloseDir", "NextDir"}
  BY <1>8, <1>12
<1>13. CASE \E h \in Handles : NextDir(h) \/ CloseDir(h)
  BY <1>9, <1>10, <1>11, <1>13
<1> QED
  BY <1>7, <1>12, <1>13, CallBegins

(* A new connection begins without objects, and its server without files. *)
LEMMA OwnInvMount ==
  ASSUME CallInv, ServesInv, Mount
  PROVE  OwnInv'
<1>1. /\ \A h \in Handles : handle'[h] = Unset
      /\ toClient' = <<>> /\ Due' = {"HANDSHAKE"}
      /\ \A f \in Fds : stream'[f] = Unset /\ listing'[f] = Unset
  BY MountBegins DEF ServesInv
<1>2. \A h \in Handles : ~IsFile(h)' /\ ~IsDir(h)'
  BY <1>1 DEF IsFile, IsDir
<1>3. \A f : ~Leaving(f)'
  BY <1>1 DEF Leaving
<1>4. \A c : ~Replied(c)' /\ \A f : ~Opened(c, f)'
  BY <1>1 DEF Replied, Opened
<1>5. FdsDiffer' /\ Backed' /\ Owned'
  BY <1>1, <1>2 DEF FdsDiffer, Backed, Owned
<1>6. Fresh'
  BY <1>3, <1>4 DEF Fresh
<1> QED
  BY <1>5, <1>6 DEF OwnInv

(* Nothing is asked of the objects of a connection that is lost. *)
LEMMA OwnInvLost ==
  ASSUME ~link'
  PROVE  OwnInv'
  BY DEF OwnInv

(* A step that is not seen by the objects, the replies or the server's files. *)
LEMMA OwnInvStill ==
  ASSUME CallInv, OwnInv, link' => link,
         UNCHANGED <<call, todo, awaiting, handle, toClient, stream, listing, nextFd>>
  PROVE  OwnInv'
<1>1. Due' = Due /\ SameObjects /\ SameServer
  BY DEF Due, SameObjects, SameServer
<1>2. /\ \A c : (Replied(c)' <=> Replied(c)) /\ \A f : Opened(c, f)' <=> Opened(c, f)
      /\ \A f : Leaving(f)' <=> Leaving(f)
  BY <1>1 DEF Replied, Opened, Leaving
<1>3. \A f : Closing(f)' <=> Closing(f)
  BY <1>2 DEF Closing
<1>4. HandleInv
  BY DEF CallInv
<1> QED
  BY <1>1, <1>2, <1>3, <1>4, ClosedFile, OwnInvSame

(* The handler sends an option, or asks for a command. *)
LEMMA OwnInvAsks ==
  ASSUME CallInv, OwnInv, ClientSend \/ ClientRequest
  PROVE  OwnInv'
<1>1. /\ Due' = Due /\ (Due # {} => call' = call) /\ (call' = call \/ Due' = {})
      /\ UNCHANGED <<handle, link, stream, listing, nextFd>>
      /\ awaiting = Unset /\ (awaiting' = Unset \/ toClient' = <<>>)
  BY DueAfterSend, DueAfterRequest DEF serverVars
<1>2. SameObjects /\ SameServer
  BY <1>1 DEF SameObjects, SameServer
<1>3. Opens \subseteq Commands /\ {"FILE_CLOSE", "FILE_CLOSEDIR"} \subseteq Commands
  BY DEF Opens, Commands
<1>4. \A c \in Commands : ~Replied(c) /\ \A f : ~Opened(c, f)
  BY <1>1, NothingReplied
<1>5. \A c \in Commands : ~Replied(c)' /\ \A f : ~Opened(c, f)'
  BY <1>1, RiiFSAssumption DEF Replied, Opened
<1>6. \A f : Leaving(f)' <=> Leaving(f)
  <2>1. CASE Due = {}
    BY <1>1, <2>1 DEF Leaving
  <2>2. CASE Due # {}
    BY <1>1, <2>2 DEF Leaving
  <2> QED
    BY <2>1, <2>2
<1>7. \A f : Closing(f) => Closing(f)'
  BY <1>3, <1>5, <1>6 DEF Closing
<1>8. HandleInv
  BY DEF CallInv
<1> QED
  BY <1>1, <1>2, <1>3, <1>4, <1>5, <1>6, <1>7, <1>8, OwnInvSame

(* The handler takes the reply: what it is, and that nothing is replied any more. *)
LEMMA Replies ==
  ASSUME CallInv, ClientReceive, link'
  PROVE  /\ link /\ Replied(awaiting) /\ awaiting \in Commands /\ awaiting \in Due
         /\ Returned(toClient[1].ret, toClient[1].entry)
         /\ Returns(awaiting, toClient[1].ret, toClient[1].entry)
         /\ Fits(awaiting, call.h, call.args)
         /\ awaiting' = Unset /\ toClient' = <<>>
         /\ UNCHANGED <<serverVars, diskVars>>
         /\ \A c \in Commands : ~Replied(c)' /\ \A f : ~Opened(c, f)'
<1>1. /\ awaiting # Unset /\ awaiting' = Unset /\ toClient' = <<>>
      /\ UNCHANGED <<serverVars, diskVars>>
  BY ReturnedIs
<1>2. link
  <2>1. PICK ret, entry : Returned(ret, entry)
    BY ReturnedIs
  <2>2. link' => link
    BY <2>1 DEF Returned, OpenReturned, TransferReturned, SeekReturned, TellReturned, CloseReturned,
         SessionReturned, ValueReturned, NextDirReturned, NoChange, WithInfo
  <2> QED
    BY <2>2
<1>3. toClient # <<>> /\ Returned(Head(toClient).ret, Head(toClient).entry)
  BY <1>2 DEF ClientReceive, ReceiveFails
<1>4. PICK r : toClient = <<r>> /\ r.command = awaiting
  BY <1>3 DEF CallInv, ReplyInv, InStep, NothingAwaited, RequestOnItsWay, ReplyOnItsWay
<1>5. Head(toClient) = r /\ toClient[1] = r /\ DOMAIN toClient = {1}
  BY <1>4
<1>6. Returns(awaiting, r.ret, r.entry)
  BY <1>4, <1>5 DEF CallInv, ReturnsInv
<1>7. awaiting \in Due /\ Fits(awaiting, call.h, call.args)
  BY <1>1 DEF Due, CallInv, HandleInv
<1>8. awaiting \in Commands
  <2>1. Returned(r.ret, r.entry)
    BY <1>3, <1>5
  <2> QED
    BY <2>1 DEF Returned, OpenReturned, TransferReturned, SeekReturned, TellReturned, CloseReturned,
         SessionReturned, ValueReturned, NextDirReturned, Commands
<1>9. \A c \in Commands : ~Replied(c)' /\ \A f : ~Opened(c, f)'
  BY <1>1, RiiFSAssumption DEF Replied, Opened
<1> QED
  BY <1>1, <1>2, <1>3, <1>5, <1>6, <1>7, <1>8, <1>9 DEF Replied

(* A reply that opens and closes nothing leaves the objects where they are. *)
LEMMA ReplyKeepsObjects ==
  ASSUME CallInv, ClientReceive, link', awaiting \notin Opens \union {"FILE_CLOSE"}
  PROVE  SameObjects
<1> DEFINE ret == toClient[1].ret
           entry == toClient[1].entry
<1>1. /\ Returned(ret, entry) /\ Returns(awaiting, ret, entry)
      /\ Fits(awaiting, call.h, call.args) /\ awaiting # Unset
  BY Replies, ReturnedIs
<1> HIDE DEF ret, entry
<1>2. handle \in [Handles -> Info \union {Unset}]
  BY DEF CallInv, HandleInv
<1>3. CASE awaiting \in Sessions
  <2>1. handle' = handle
    BY <1>1, <1>3 DEF Sessions, Returned, OpenReturned, TransferReturned, SeekReturned, TellReturned,
         CloseReturned, SessionReturned, ValueReturned, NextDirReturned
  <2> QED
    BY <2>1 DEF SameObjects
<1>4. CASE awaiting \notin Sessions
  <2>1. awaiting \notin Single
    BY <1>4 DEF Single
  <2>2. \A h \in Handles : handle[h] # Unset =>
          handle'[h] # Unset /\ handle'[h].kind = handle[h].kind /\ handle'[h].fd = handle[h].fd
    BY <1>1, <2>1, ReturnedHandles
  <2>3. \/ handle' = handle
        \/ awaiting \in OnHandle /\ \E info : handle' = [handle EXCEPT ![call.h] = info]
    BY <1>1
       DEF Opens, OnHandle, Listings, Returned, OpenReturned, TransferReturned, SeekReturned,
           TellReturned, CloseReturned, SessionReturned, ValueReturned, NextDirReturned, NoChange,
           WithInfo
  <2>4. awaiting \in OnHandle => handle[call.h] # Unset
    BY <1>1 DEF Fits
  <2>5. \A h \in Handles : handle[h] = Unset => handle'[h] = Unset
    <3>1. CASE handle' = handle
      BY <3>1
    <3>2. CASE awaiting \in OnHandle /\ \E info : handle' = [handle EXCEPT ![call.h] = info]
      BY <1>2, <2>4, <3>2
    <3> QED
      BY <2>3, <3>1, <3>2
  <2> QED
    BY <2>2, <2>5 DEF SameObjects
<1> QED
  BY <1>3, <1>4

(* A reply leaves no closing of a directory due that was not. *)
LEMMA ReplyLeaves ==
  ASSUME CallInv, RunsInv, ClientReceive, link'
  PROVE  /\ \A f : Leaving(f)' => Leaving(f)
         /\ awaiting # "FILE_CLOSEDIR" => \A f : ~Leaving(f)
<1>1. /\ Due' \subseteq Due \/ Due' = {"FILE_TELL"}
      /\ Due' # {} => call' = call
      /\ awaiting \in Due
  BY DueAfterReply
<1>2. \A f : Leaving(f)' => Leaving(f)
  BY <1>1 DEF Leaving
<1>3. ASSUME "FILE_CLOSEDIR" \in Due PROVE awaiting = "FILE_CLOSEDIR"
  <2>1. "FILE_CLOSEDIR" \in CommandsOf(call.op)
    BY <1>3 DEF RunsInv
  <2>2. CommandsOf(call.op) = {"FILE_CLOSEDIR"}
    BY <2>1 DEF CommandsOf, Listings
  <2> QED
    BY <1>1, <2>2 DEF RunsInv
<1> QED
  BY <1>2, <1>3 DEF Leaving

(* The reply to a command that opens and closes no file, or that opened nothing. *)
LEMMA OwnInvReply ==
  ASSUME CallInv, RunsInv, OwnInv, ClientReceive, link',
         \/ awaiting \notin Opens \union {"FILE_CLOSE"}
         \/ awaiting \in Opens /\ toClient[1].ret \notin Fds /\ handle' = handle
  PROVE  OwnInv'
<1>1. /\ link /\ Replied(awaiting) /\ UNCHANGED serverVars
      /\ \A c \in Commands : ~Replied(c)' /\ \A f : ~Opened(c, f)'
  BY Replies
<1>2. Opens \subseteq Commands /\ {"FILE_CLOSE", "FILE_CLOSEDIR"} \subseteq Commands
      /\ "FILE_CLOSE" \notin Opens
  BY DEF Opens, Commands
<1>3. SameServer
  BY <1>1 DEF SameServer, serverVars
<1>4. SameObjects
  BY ReplyKeepsObjects DEF SameObjects
<1>5. /\ ~Replied("FILE_CLOSE")
      /\ \A c \in Opens, f \in Fds : ~Opened(c, f)
  BY <1>2 DEF Replied, Opened
<1>6. \A f : ~Closing(f)
  BY <1>1, ReplyLeaves DEF Closing
<1>7. \A f : Leaving(f)' => Leaving(f)
  BY ReplyLeaves
<1>8. HandleInv
  BY DEF CallInv
<1> QED
  BY <1>1, <1>2, <1>3, <1>4, <1>5, <1>6, <1>7, <1>8, OwnInvSame

(* The object of what was opened: the descriptor is the one the server put it under. *)
LEMMA OpenedIs ==
  ASSUME CallInv, ClientReceive, link', awaiting \in Opens
  PROVE  /\ call.h \in Handles /\ handle[call.h] = Unset
         /\ \/ toClient[1].ret = -1 /\ handle' = handle
            \/ /\ toClient[1].ret \in Fds
               /\ Opened(awaiting, toClient[1].ret)
               /\ handle'[call.h] # Unset /\ handle'[call.h].fd = toClient[1].ret
               /\ handle'[call.h].kind = (IF awaiting = "FILE_OPEN" THEN "file" ELSE "dir")
               /\ awaiting = "FILE_OPENDIR" => handle'[call.h].seen = <<>>
               /\ awaiting = "FILE_OPEN" => handle'[call.h].pos = 0 /\ handle'[call.h].dirty = FALSE
               /\ \A h \in Handles : h # call.h => handle'[h] = handle[h]
<1>1. /\ Returned(toClient[1].ret, toClient[1].entry)
      /\ Returns(awaiting, toClient[1].ret, toClient[1].entry)
      /\ Fits(awaiting, call.h, call.args) /\ Replied(awaiting)
  BY Replies
<1>2. PICK ret : ret = toClient[1].ret
  OBVIOUS
<1>3. OpenReturned(ret) /\ ret \in Fds \union {-1}
  BY <1>1, <1>2 DEF Opens, Returns, Returned, OpenReturned, TransferReturned, SeekReturned,
       TellReturned, CloseReturned, SessionReturned, ValueReturned, NextDirReturned
<1>4. call.h \in Handles /\ handle[call.h] = Unset
  BY <1>1 DEF Fits
<1>5. MaxFd \in Nat
  BY RiiFSAssumption
<1>6. CASE ret = -1
  <2>1. handle' = handle
    BY <1>3, <1>6 DEF OpenReturned, NoChange
  <2> QED
    BY <1>2, <1>4, <1>6, <2>1
<1>7. CASE ret \in Fds
  <2> DEFINE info == IF awaiting = "FILE_OPEN" THEN NewFile(ret) ELSE NewDir(ret)
  <2>1. handle' = [handle EXCEPT ![call.h] = info]
    <3>1. ~(ret < 0)
      BY <1>5, <1>7 DEF Fds
    <3>2. \/ awaiting = "FILE_OPEN" /\ WithInfo(NewFile(ret))
          \/ awaiting = "FILE_OPENDIR" /\ WithInfo(NewDir(ret))
      BY <1>3, <3>1 DEF OpenReturned
    <3> QED
      BY <3>2 DEF WithInfo
  <2>2. NewFile(ret) \in Info /\ NewDir(ret) \in Info
    <3>1. <<>> \in Seq(Paths)
      BY EmptySeq
    <3>2. NewFile(ret) \in Info
      BY <1>7, <3>1 DEF NewFile, Info
    <3> QED
      BY <3>2 DEF NewDir, Info
  <2>3. /\ info # Unset /\ info.fd = ret /\ info.seen = <<>> /\ info.pos = 0 /\ info.dirty = FALSE
        /\ info.kind = (IF awaiting = "FILE_OPEN" THEN "file" ELSE "dir")
    <3>1. NewFile(ret) # Unset /\ NewDir(ret) # Unset
      BY <2>2, UnsetAssumption
    <3>2. /\ NewFile(ret).fd = ret /\ NewFile(ret).seen = <<>> /\ NewFile(ret).kind = "file"
          /\ NewFile(ret).pos = 0 /\ NewFile(ret).dirty = FALSE
      BY DEF NewFile
    <3>3. /\ NewDir(ret).fd = ret /\ NewDir(ret).seen = <<>> /\ NewDir(ret).kind = "dir"
          /\ NewDir(ret).pos = 0 /\ NewDir(ret).dirty = FALSE
      BY DEF NewFile, NewDir
    <3> QED
      BY <3>1, <3>2, <3>3
  <2> HIDE DEF info
  <2>4. handle \in [Handles -> Info \union {Unset}]
    BY DEF CallInv, HandleInv
  <2>5. handle'[call.h] = info /\ \A h \in Handles : h # call.h => handle'[h] = handle[h]
    BY <1>4, <2>1, <2>4
  <2>6. Opened(awaiting, ret)
    BY <1>1, <1>2 DEF Opened
  <2> QED
    BY <1>2, <1>4, <1>7, <2>3, <2>5, <2>6
<1> QED
  BY <1>3, <1>6, <1>7

(* What was opened gets its object. *)
LEMMA OwnInvOpened ==
  ASSUME CallInv, RunsInv, OwnInv, ClientReceive, link', awaiting \in Opens
  PROVE  OwnInv'
<1>0. PICK ret : ret = toClient[1].ret
  OBVIOUS
<1>h. PICK h \in Handles : h = call.h
  BY OpenedIs
<1>1. CASE ret = -1 /\ handle' = handle
  <2>1. ret \notin Fds
    BY <1>1, RiiFSAssumption DEF Fds
  <2> QED
    BY <1>0, <1>1, <2>1, OwnInvReply
<1>2. CASE ~(ret = -1 /\ handle' = handle)
  <2>1. /\ handle[h] = Unset /\ ret \in Fds /\ Opened(awaiting, ret)
        /\ handle'[h] # Unset /\ handle'[h].fd = ret
        /\ handle'[h].kind = (IF awaiting = "FILE_OPEN" THEN "file" ELSE "dir")
        /\ \A g \in Handles : g # h => handle'[g] = handle[g]
    BY <1>0, <1>h, <1>2, OpenedIs
  <2>2. /\ link /\ UNCHANGED <<stream, listing, nextFd>> /\ Replied(awaiting)
        /\ \A c \in Commands : ~Replied(c)' /\ \A f : ~Opened(c, f)'
    BY Replies DEF serverVars
  <2>3. Opens = {"FILE_OPEN", "FILE_OPENDIR"} /\ Opens \subseteq Commands /\ "FILE_CLOSE" \in Commands
    BY DEF Opens, Commands
  <2>4. FdsDiffer /\ Backed /\ Owned /\ Fresh
    BY <2>2 DEF OwnInv
  <2>5. /\ ret < nextFd
        /\ IF awaiting = "FILE_OPEN" THEN stream[ret] # Unset ELSE listing[ret] # Unset
        /\ \A g \in Handles : handle[g] # Unset => handle[g].fd # ret
    BY <2>1, <2>4 DEF Fresh
  <2>6. \A f : ~Leaving(f) /\ ~Leaving(f)'
    BY <2>3, ReplyLeaves
  <2>7. \A g \in Handles : g # h => (IsFile(g)' <=> IsFile(g)) /\ (IsDir(g)' <=> IsDir(g))
    BY <2>1 DEF IsFile, IsDir
  <2>8. /\ IsFile(h)' <=> awaiting = "FILE_OPEN"
        /\ IsDir(h)' <=> awaiting = "FILE_OPENDIR"
        /\ ~IsFile(h) /\ ~IsDir(h)
    BY <2>1, <2>3 DEF IsFile, IsDir
  <2>9. FdsDiffer'
    BY <2>1, <2>2, <2>4, <2>5 DEF FdsDiffer
  <2>10. ~Replied("FILE_CLOSE")
    BY <2>3 DEF Replied
  <2>11. Backed'
    <3>1. ASSUME NEW g \in Handles
          PROVE  /\ IsFile(g)' => stream[handle'[g].fd] # Unset
                 /\ IsDir(g)' => listing[handle'[g].fd] # Unset
      <4>1. CASE g = h
        BY <2>1, <2>5, <2>8, <4>1
      <4>2. CASE g # h
        BY <2>1, <2>4, <2>7, <2>10, <4>2 DEF Backed
      <4> QED
        BY <4>1, <4>2
    <3> QED
      BY <2>2, <3>1 DEF Backed
  <2>12. Owned'
    <3>1. ASSUME NEW f \in Fds, stream[f] # Unset
          PROVE  \E g \in Handles : IsFile(g)' /\ handle'[g].fd = f
      <4>1. CASE Opened("FILE_OPEN", f)
        <5>1. f = ret /\ awaiting = "FILE_OPEN"
          BY <1>0, <4>1 DEF Opened, Replied
        <5> QED
          BY <2>1, <2>8, <5>1
      <4>2. CASE \E g \in Handles : IsFile(g) /\ handle[g].fd = f
        <5>1. PICK g \in Handles : IsFile(g) /\ handle[g].fd = f
          BY <4>2
        <5>2. g # h
          BY <2>8, <5>1
        <5> QED
          BY <2>1, <2>7, <5>1, <5>2
      <4> QED
        BY <2>4, <3>1, <4>1, <4>2 DEF Owned
    <3>2. ASSUME NEW f \in Fds, listing[f] # Unset
          PROVE  \E g \in Handles : IsDir(g)' /\ handle'[g].fd = f
      <4>1. CASE Opened("FILE_OPENDIR", f)
        <5>1. f = ret /\ awaiting = "FILE_OPENDIR"
          BY <1>0, <4>1 DEF Opened, Replied
        <5> QED
          BY <2>1, <2>8, <5>1
      <4>2. CASE \E g \in Handles : IsDir(g) /\ handle[g].fd = f
        <5>1. PICK g \in Handles : IsDir(g) /\ handle[g].fd = f
          BY <4>2
        <5>2. g # h
          BY <2>8, <5>1
        <5> QED
          BY <2>1, <2>7, <5>1, <5>2
      <4> QED
        BY <2>4, <2>6, <3>2, <4>1, <4>2 DEF Owned, Closing
    <3> QED
      BY <2>2, <3>1, <3>2 DEF Owned
  <2>13. Fresh'
    BY <2>2, <2>3, <2>6 DEF Fresh
  <2> QED
    BY <2>9, <2>11, <2>12, <2>13 DEF OwnInv
<1> QED
  BY <1>1, <1>2

(* The object of a file that was closed goes. *)
LEMMA OwnInvClosed ==
  ASSUME CallInv, RunsInv, OwnInv, ClientReceive, link', awaiting = "FILE_CLOSE"
  PROVE  OwnInv'
<1>1. /\ link /\ UNCHANGED <<stream, listing, nextFd>> /\ Replied("FILE_CLOSE")
      /\ \A c \in Commands : ~Replied(c)' /\ \A f : ~Opened(c, f)'
      /\ Returned(toClient[1].ret, toClient[1].entry) /\ Fits("FILE_CLOSE", call.h, call.args)
  BY Replies DEF serverVars
<1>2. PICK h \in Handles : h = call.h /\ handle[h] # Unset /\ handle[h].kind = "file"
  BY <1>1 DEF Fits, OnHandle, Listings
<1>3. handle' = [handle EXCEPT ![h] = Unset]
  <2>1. CloseReturned
    BY <1>1 DEF Returned, OpenReturned, TransferReturned, SeekReturned, TellReturned, CloseReturned,
         SessionReturned, ValueReturned, NextDirReturned
  <2> QED
    BY <1>2, <2>1 DEF CloseReturned, WithInfo
<1>4. handle'[h] = Unset /\ \A g \in Handles : g # h => handle'[g] = handle[g]
  BY <1>3 DEF CallInv, HandleInv
<1>5. FdsDiffer /\ Backed /\ Owned /\ Fresh
  BY <1>1 DEF OwnInv
<1>6. stream[handle[h].fd] = Unset
  BY <1>1, <1>2, <1>5 DEF Fresh
<1>7. \A f : ~Leaving(f) /\ ~Leaving(f)'
  BY ReplyLeaves
<1>8. Opens = {"FILE_OPEN", "FILE_OPENDIR"} /\ Opens \subseteq Commands /\ "FILE_CLOSE" \in Commands
  BY DEF Opens, Commands
<1>9. \A g \in Handles : g # h => (IsFile(g)' <=> IsFile(g)) /\ (IsDir(g)' <=> IsDir(g))
  BY <1>4 DEF IsFile, IsDir
<1>10. ~IsFile(h)' /\ ~IsDir(h)' /\ ~IsDir(h)
  BY <1>2, <1>4 DEF IsFile, IsDir
<1>11. FdsDiffer'
  BY <1>1, <1>4, <1>5 DEF FdsDiffer
<1>12. Backed'
  <2>1. ASSUME NEW g \in Handles
        PROVE  /\ IsFile(g)' => stream[handle'[g].fd] # Unset
               /\ IsDir(g)' => listing[handle'[g].fd] # Unset
    BY <1>2, <1>4, <1>5, <1>9, <1>10 DEF Backed
  <2> QED
    BY <1>1, <2>1 DEF Backed
<1>13. Owned'
  <2>1. \A f : ~Opened("FILE_OPEN", f) /\ ~Opened("FILE_OPENDIR", f) /\ ~Closing(f)
    BY <1>7 DEF Opened, Replied, Closing
  <2>2. ASSUME NEW f \in Fds, stream[f] # Unset
        PROVE  \E g \in Handles : IsFile(g)' /\ handle'[g].fd = f
    <3>1. PICK g \in Handles : IsFile(g) /\ handle[g].fd = f
      BY <1>5, <2>1, <2>2 DEF Owned
    <3>2. g # h
      BY <1>6, <2>2, <3>1
    <3> QED
      BY <1>4, <1>9, <3>1, <3>2
  <2>3. ASSUME NEW f \in Fds, listing[f] # Unset
        PROVE  \E g \in Handles : IsDir(g)' /\ handle'[g].fd = f
    <3>1. PICK g \in Handles : IsDir(g) /\ handle[g].fd = f
      BY <1>5, <2>1, <2>3 DEF Owned
    <3>2. g # h
      BY <1>10, <3>1
    <3> QED
      BY <1>4, <1>9, <3>1, <3>2
  <2> QED
    BY <1>1, <2>2, <2>3 DEF Owned
<1>14. Fresh'
  BY <1>1, <1>7, <1>8 DEF Fresh
<1> QED
  BY <1>11, <1>12, <1>13, <1>14 DEF OwnInv

(* The server answers the command that is waited for, which was run on the
   descriptor of the call. *)
LEMMA Answers ==
  ASSUME CallInv, ServerStep, ~ServerSend, ~ServerClose, link', NEW c, Receiving(c)
  PROVE  /\ link /\ awaiting = c /\ toClient = <<>> /\ c \in Due /\ c # Unset
         /\ UNCHANGED <<call, todo, awaiting, handle>> /\ Due' = Due
         /\ Fits(c, call.h, call.args)
         /\ \A k : ~Replied(k) /\ (Replied(k)' <=> k = c)
         /\ \A f : Leaving(f)' <=> Leaving(f)
         /\ \A ret, entry : ReturnEntry(ret, entry) =>
              toClient'[1].ret = ret /\ toClient'[1].entry = entry
         /\ \A ret : Return(ret) => toClient'[1].ret = ret
<1>1. link /\ toServer # <<>> /\ Head(toServer) = Receive(c)
  BY CommandTakesFromQueue DEF Receiving
<1>2. awaiting = c /\ toClient = <<>>
  BY <1>1, CommandOptions
<1>3. UNCHANGED <<call, todo, awaiting, handle>> /\ Due' = Due
  BY SameCall
<1>4. c # Unset
  <2>1. Queue(toServer) /\ InStep
    BY DEF CallInv, ReplyInv
  <2>2. 1 \in Requests(toServer)
    BY <1>1, <2>1, QueueLeft DEF Requests, Receive
  <2> QED
    BY <1>1, <1>2, <2>1, <2>2 DEF InStep, NothingAwaited, RequestOnItsWay, ReplyOnItsWay
<1>5. c \in Due /\ Fits(c, call.h, call.args)
  BY <1>2, <1>4 DEF Due, CallInv, HandleInv
<1>6. ASSUME NEW ret, NEW entry, ReturnEntry(ret, entry)
      PROVE  toClient' # <<>> /\ toClient'[1].ret = ret /\ toClient'[1].entry = entry
  <2> DEFINE r == [command |-> Head(toServer).opt, ret |-> ret, entry |-> entry]
  <2>1. toClient' = <<>> \o <<r>>
    BY <1>1, <1>2, <1>6 DEF ReturnEntry, Reply
  <2>2. r.ret = ret /\ r.entry = entry
    OBVIOUS
  <2> HIDE DEF r
  <2>3. toClient' = <<r>>
    BY <2>1
  <2>4. toClient' # <<>> /\ toClient'[1] = r
    BY <2>3
  <2> QED
    BY <2>2, <2>4
<1>7. toClient' # <<>>
  <2>1. \E ret, entry : ReturnEntry(ret, entry)
    BY CommandReplies
  <2> QED
    BY <1>6, <2>1
<1>8. \A k : ~Replied(k) /\ (Replied(k)' <=> k = c)
  BY <1>2, <1>3, <1>7 DEF Replied
<1>9. \A f : Leaving(f)' <=> Leaving(f)
  BY <1>3 DEF Leaving
<1>10. \A ret : Return(ret) => toClient'[1].ret = ret
  BY <1>6 DEF Return
<1> QED
  BY <1>1, <1>2, <1>3, <1>4, <1>5, <1>6, <1>8, <1>9, <1>10

(* The descriptor a command is run on is the argument of the call. *)
LEMMA AnswersOn ==
  ASSUME CallInv, ServerStep, ~ServerSend, ~ServerClose, link', NEW c, Receiving(c),
         "FILE" \in Uses(c)
  PROVE  /\ fd \in Fds
         /\ \E s \in call.args : s.opt = "FILE" /\ s.val = fd
         /\ \A s \in call.args : s.opt = "FILE" => s.val = fd
         /\ c \in OnHandle => /\ call.h \in Handles /\ handle[call.h] # Unset
                              /\ handle[call.h].fd = fd
                              /\ handle[call.h].kind = IF c \in Listings THEN "dir" ELSE "file"
<1>1. /\ link /\ awaiting = c /\ c # Unset /\ Fits(c, call.h, call.args)
  BY Answers
<1>2. /\ fd \in Legal(c, "FILE")
      /\ \A s \in call.args : s.opt = "FILE" => fd = s.val
  BY <1>1, CommandOptions DEF fd
<1>3. \E s \in call.args : s.opt = "FILE"
  BY <1>1 DEF CallInv, ArgsInv, Supplied
<1> QED
  BY <1>1, <1>2, <1>3, LegalAre DEF Fits

(* A command that opens and closes nothing. *)
LEMMA OwnInvAnswer ==
  ASSUME CallInv, OwnInv, ServerStep, ~ServerSend, ~ServerClose, NEW c, Receiving(c),
         link' => /\ SameServer /\ c \notin {"FILE_CLOSE", "FILE_CLOSEDIR"}
                  /\ c \in Opens => toClient'[1].ret \notin Fds
  PROVE  OwnInv'
<1> SUFFICES ASSUME link' PROVE OwnInv'
  BY OwnInvLost
<1>1. /\ link /\ UNCHANGED handle
      /\ \A k : ~Replied(k) /\ (Replied(k)' <=> k = c)
      /\ \A f : Leaving(f)' <=> Leaving(f)
  BY Answers
<1>2. SameObjects
  BY <1>1 DEF SameObjects
<1>3. \A k \in Opens, f \in Fds : ~Opened(k, f) /\ ~Opened(k, f)'
  BY <1>1 DEF Opened
<1>4. \A f : Closing(f) => Closing(f)'
  BY <1>1 DEF Closing
<1>5. HandleInv
  BY DEF CallInv
<1> QED
  BY <1>1, <1>2, <1>3, <1>4, <1>5, OwnInvSame

(* A stream that a command moves to position p, whatever it leaves in the buffer. *)
Moves(p, ok) ==
  \E n \in Nat : stream' = [stream EXCEPT ![fd].pos = p, ![fd].ok = ok, ![fd].tail = n]

(* The other streams stay as they are, and this one stays open. *)
LEMMA MovesAre ==
  ASSUME ServerInv, FileOpened, NEW p \in Nat, NEW ok \in BOOLEAN, Moves(p, ok)
  PROVE  /\ \A f \in Fds : f # fd => stream'[f] = stream[f]
         /\ fd \in Fds /\ stream[fd] # Unset /\ stream'[fd] # Unset
         /\ stream'[fd].pos = p /\ stream'[fd].ok = ok /\ stream'[fd].app = stream[fd].app
         /\ \A f \in Fds : stream'[f] = Unset <=> stream[f] = Unset
<1>1. fd \in Fds /\ stream[fd] \in Stream /\ stream[fd] # Unset
      /\ stream \in [Fds -> Stream \union {Unset}]
  BY DEF FileOpened, ServerInv
<1>2. PICK f \in Fds : f = fd
  BY <1>1
<1>3. PICK s \in Stream : s = stream[f]
  BY <1>1, <1>2
<1>10. PICK n \in Nat : stream' = [stream EXCEPT ![fd].pos = p, ![fd].ok = ok, ![fd].tail = n]
  BY DEF Moves
<1> DEFINE t == [s EXCEPT !.pos = p, !.ok = ok, !.tail = n]
<1>4. stream' = [stream EXCEPT ![f] = t]
  BY <1>1, <1>2, <1>3, <1>10 DEF Stream
<1>5. t \in Stream
  BY <1>3, <1>10 DEF Stream
<1>6. t.pos = p /\ t.ok = ok
  BY <1>3 DEF Stream
<1>7. t.app = s.app
  BY <1>3 DEF Stream
<1> HIDE DEF t
<1>8. t # Unset
  BY <1>5, UnsetAssumption
<1>9. stream'[f] = t /\ \A g \in Fds : g # f => stream'[g] = stream[g]
  BY <1>1, <1>4
<1> QED
  BY <1>1, <1>2, <1>3, <1>6, <1>7, <1>8, <1>9

(* A read moves the stream by what it returns; one that stops short leaves it failed. *)
LEMMA ReadMoves ==
  ASSUME CallInv, FileRead, FileOpened
  PROVE  \E got \in Nat, ok \in BOOLEAN :
           Moves(stream[fd].pos + got, ok) /\ Return(got) /\ stream[fd].pos + got \in Nat
<1> DEFINE s == stream[fd]
           length == options["LENGTH"]
           got == IF s.ok /\ s.in THEN Least(length, Max0(Grown(s) - s.pos)) ELSE 0
<1>1. s \in Stream /\ stream \in [Fds -> Stream \union {Unset}] /\ fd \in Fds
      /\ Grown(s) \in Nat
  BY GrownIs DEF CallInv, ServerInv, FileOpened
<1>2. s.pos \in Nat /\ s.ok \in BOOLEAN /\ s.in \in BOOLEAN /\ Grown(s) \in Nat
  BY <1>1 DEF Stream
<1>3. length \in Nat
  <2>1. options["LENGTH"] \in Legal("FILE_READ", "LENGTH")
    BY CommandOptions, UsesAre DEF FileRead, ServeStream
  <2> QED
    BY <2>1, LegalAre, RiiFSAssumption
<1>4. got \in Nat
  <2>1. Least(length, Max0(Grown(s) - s.pos)) \in Nat
    BY <1>2, <1>3 DEF Least, Max0
  <2> QED
    BY <2>1
<1>5. Return(got) /\ stream' = [stream EXCEPT ![fd].pos = @ + got, ![fd].ok = @ /\ got = length,
                                              ![fd].tail = 0]
  BY DEF FileRead
<1> HIDE DEF got, length
<1>6. stream' = [stream EXCEPT ![fd].pos = s.pos + got, ![fd].ok = (s.ok /\ got = length),
                               ![fd].tail = 0]
  BY <1>1, <1>5 DEF Stream
<1>7. (s.ok /\ got = length) \in BOOLEAN /\ s.pos + got \in Nat
  BY <1>2, <1>4
<1>8. Moves(s.pos + got, s.ok /\ got = length)
  BY <1>6 DEF Moves
<1> QED
  BY <1>4, <1>5, <1>7, <1>8

(* A seek moves the stream to where it leads, unless that is before the start,
   and mends it either way. *)
LEMMA SeekMoves ==
  ASSUME CallInv, FileSeek, FileOpened
  PROVE  \E p \in Nat :
           /\ Moves(p, TRUE)
           /\ \/ Return(-1) /\ p = stream[fd].pos /\ ~(options["WHENCE"] = "SET" /\ options["WHERE"] \in Nat)
              \/ Return(0) /\ (options["WHENCE"] = "SET" => p = options["WHERE"])
<1> DEFINE s == stream[fd]
           where == options["WHERE"]
           target == where + CASE options["WHENCE"] = "SET" -> 0
                               [] options["WHENCE"] = "CUR" -> s.pos
                               [] OTHER -> Grown(s)
           p == IF Refused(target) THEN s.pos ELSE target
<1>1. s \in Stream /\ stream \in [Fds -> Stream \union {Unset}] /\ fd \in Fds
      /\ Grown(s) \in Nat
  BY GrownIs DEF CallInv, ServerInv, FileOpened
<1>2. s.pos \in Nat /\ Grown(s) \in Nat
  BY <1>1 DEF Stream
<1>3. where \in Int
  BY CommandOptions, UsesAre, LegalAre DEF FileSeek, ServeStream
<1>4. target \in Int /\ (options["WHENCE"] = "SET" => target = where)
  BY <1>2, <1>3
<1>5. /\ Return(IF Refused(target) THEN -1 ELSE 0)
      /\ stream' = [stream EXCEPT ![fd].pos = IF Refused(target) THEN @ ELSE target,
                               ![fd].ok = TRUE, ![fd].tail = 0]
  BY DEF FileSeek
<1> HIDE DEF target, where
<1>6. Moves(p, TRUE)
  BY <1>1, <1>5 DEF Moves, Stream
<1>7. p \in Nat
  BY <1>2, <1>4 DEF Refused
<1>8. CASE Refused(target)
  <2>1. Return(-1) /\ p = s.pos
    BY <1>5, <1>8
  <2>2. target < 0
    BY <1>8 DEF Refused
  <2>3. ~(options["WHENCE"] = "SET" /\ options["WHERE"] \in Nat)
    BY <1>3, <1>4, <2>2 DEF where
  <2> QED
    BY <1>6, <1>7, <2>1, <2>3
<1>9. CASE ~Refused(target)
  <2>1. Return(0) /\ p = target
    BY <1>5, <1>9
  <2>2. options["WHENCE"] = "SET" => p = options["WHERE"]
    BY <1>4, <2>1 DEF where
  <2> QED
    BY <1>6, <1>7, <2>1, <2>2
<1> QED
  BY <1>8, <1>9

(* A write that stores something moves the stream by what it returns, or to
   past the end of the file; any other leaves it. *)
LEMMA WriteMoves ==
  ASSUME CallInv, FileWrite, FileOpened
  PROVE  \/ /\ UNCHANGED stream
            /\ Return(0) \/ ~stream[fd].ok
         \/ \E p \in Nat, length \in Nat :
              /\ Moves(p, stream[fd].ok) /\ stream[fd].ok /\ Return(length)
              /\ ~stream[fd].app => p = stream[fd].pos + length
<1> DEFINE s == stream[fd]
           length == DataLen[options["DATA"]]
           end == length + (IF s.app THEN Grown(s) ELSE s.pos)
<1>1. s \in Stream /\ stream \in [Fds -> Stream \union {Unset}] /\ fd \in Fds
      /\ Grown(s) \in Nat
  BY GrownIs DEF CallInv, ServerInv, FileOpened
<1>2. s.pos \in Nat /\ Grown(s) \in Nat
  BY <1>1 DEF Stream
<1>3. length \in Nat
  <2>1. options["DATA"] \in Legal("FILE_WRITE", "DATA")
    BY CommandOptions, UsesAre DEF FileWrite, ServeStream
  <2> QED
    BY <2>1, LegalAre, RiiFSAssumption
<1>4. end \in Nat /\ (~s.app => end = s.pos + length)
  BY <1>2, <1>3
<1>5. /\ Return(IF (s.ok /\ s.out) \/ ~s.ok THEN length ELSE 0)
      /\ \/ ~(s.ok /\ s.out) /\ UNCHANGED stream
         \/ /\ s.ok /\ s.out
            /\ stream' = [stream EXCEPT ![fd].pos = @ + length, ![fd].tail = length]
         \/ /\ s.ok /\ s.out
            /\ stream' = [stream EXCEPT ![fd].pos = end, ![fd].tail = 0]
  BY DEF FileWrite
<1> HIDE DEF end, length
<1>6. ASSUME s.ok, s.out, stream' = [stream EXCEPT ![fd].pos = @ + length, ![fd].tail = length]
      PROVE  \E p \in Nat : Moves(p, s.ok) /\ (~s.app => p = s.pos + length)
  <2>1. s.pos + length \in Nat
    BY <1>2, <1>3
  <2>2. Moves(s.pos + length, s.ok)
    BY <1>1, <1>3, <1>6 DEF Moves, Stream
  <2> QED
    BY <2>1, <2>2
<1>7. ASSUME s.ok, s.out, stream' = [stream EXCEPT ![fd].pos = end, ![fd].tail = 0]
      PROVE  \E p \in Nat : Moves(p, s.ok) /\ (~s.app => p = s.pos + length)
  <2>1. Moves(end, s.ok)
    BY <1>1, <1>7 DEF Moves, Stream
  <2> QED
    BY <1>3, <1>4, <2>1
<1>8. CASE s.ok /\ s.out
  <2>1. \E p \in Nat : Moves(p, s.ok) /\ (~s.app => p = s.pos + length)
    BY <1>5, <1>6, <1>7, <1>8
  <2>2. Return(length)
    BY <1>5, <1>8
  <2> QED
    BY <1>3, <1>8, <2>1, <2>2
<1>9. CASE ~(s.ok /\ s.out)
  BY <1>5, <1>9
<1> QED
  BY <1>8, <1>9

(* A sync leaves the stream where it is, unless it was opened to append. *)
LEMMA SyncMoves ==
  ASSUME CallInv, FileSync, FileOpened
  PROVE  \E p \in Nat : Moves(p, stream[fd].ok) /\ (~stream[fd].app => p = stream[fd].pos)
<1> DEFINE s == stream[fd]
           p == IF s.app /\ s.tail > 0 THEN Grown(s) ELSE s.pos
<1>1. s \in Stream /\ stream \in [Fds -> Stream \union {Unset}] /\ fd \in Fds
      /\ Grown(s) \in Nat
  BY GrownIs DEF CallInv, ServerInv, FileOpened
<1>2. p \in Nat /\ (~s.app => p = s.pos)
  BY <1>1 DEF Stream
<1>3. stream' = [stream EXCEPT ![fd].pos = p, ![fd].tail = 0]
  BY <1>1 DEF FileSync, Flushed
<1> HIDE DEF p
<1>4. Moves(p, s.ok)
  BY <1>1, <1>3 DEF Moves, Stream
<1> QED
  BY <1>2, <1>4

(* Reading, writing, seeking and syncing keep the streams open that are. *)
LEMMA StreamsKept ==
  ASSUME CallInv, FileRead \/ FileWrite \/ FileSeek \/ FileSync
  PROVE  /\ SameServer
         /\ \A f \in Fds : f # fd => stream'[f] = stream[f]
<1>1. UNCHANGED <<listing, nextFd>>
  BY DEF FileRead, FileWrite, FileSeek, FileSync, ServeStream
<1>2. UNCHANGED stream \/ \E p \in Nat, ok \in BOOLEAN : FileOpened /\ Moves(p, ok)
  <2>1. CASE ~FileOpened
    BY <2>1 DEF FileRead, FileWrite, FileSeek, FileSync
  <2>2. CASE FileOpened /\ FileRead
    BY <2>2, ReadMoves
  <2>3. CASE FileOpened /\ FileSeek
    BY <2>3, SeekMoves
  <2>4. CASE FileOpened /\ FileWrite
    <3>1. stream[fd].ok \in BOOLEAN
      BY <2>4 DEF CallInv, ServerInv, FileOpened, Stream
    <3> QED
      BY <2>4, <3>1, WriteMoves
  <2>5. CASE FileOpened /\ FileSync
    <3>1. stream[fd].ok \in BOOLEAN
      BY <2>5 DEF CallInv, ServerInv, FileOpened, Stream
    <3> QED
      BY <2>5, <3>1, SyncMoves
  <2> QED
    BY <2>1, <2>2, <2>3, <2>4, <2>5
<1>3. \A f \in Fds : /\ stream'[f] = Unset <=> stream[f] = Unset
                     /\ f # fd => stream'[f] = stream[f]
  <2>1. CASE UNCHANGED stream
    BY <2>1
  <2>2. CASE \E p \in Nat, ok \in BOOLEAN : FileOpened /\ Moves(p, ok)
    BY <2>2, MovesAre DEF CallInv
  <2> QED
    BY <1>2, <2>1, <2>2
<1> QED
  BY <1>1, <1>3 DEF SameServer

(* The name leaves the cursor of a directory, the stat advances it. *)
LEMMA StatAdvances ==
  ASSUME CallInv, FileNextDirStat
  PROVE  /\ SameServer
         /\ \A f \in Fds : f # fd => listing'[f] = listing[f]
         /\ DirOpened => /\ listing'[fd].entries = listing[fd].entries
                         /\ listing'[fd].next = listing[fd].next + 1
<1>1. UNCHANGED <<stream, nextFd>>
  BY DEF FileNextDirStat, ServeListing
<1>2. listing' = IF DirOpened THEN [listing EXCEPT ![fd] = NextEntry(listing[fd])] ELSE listing
  BY DEF FileNextDirStat
<1>3. CASE DirOpened
  <2>1. fd \in Fds /\ listing[fd] \in Listing /\ listing \in [Fds -> Listing \union {Unset}]
        /\ listing[fd] # Unset
    BY <1>3 DEF CallInv, ServerInv, DirOpened
  <2>2. NextEntry(listing[fd]) \in Listing
    BY <2>1 DEF NextEntry, Listing
  <2>3. NextEntry(listing[fd]) # Unset
    BY <2>2, UnsetAssumption
  <2>4. /\ NextEntry(listing[fd]).entries = listing[fd].entries
        /\ NextEntry(listing[fd]).next = listing[fd].next + 1
    BY <2>1 DEF NextEntry, Listing
  <2>5. listing'[fd] = NextEntry(listing[fd]) /\ \A f \in Fds : f # fd => listing'[f] = listing[f]
    BY <1>2, <1>3, <2>1
  <2> QED
    BY <1>1, <2>1, <2>3, <2>4, <2>5 DEF SameServer
<1>4. CASE ~DirOpened
  BY <1>1, <1>2, <1>4 DEF SameServer
<1> QED
  BY <1>3, <1>4

(* A file that is opened, or a directory, is put under the next descriptor. *)
LEMMA OwnInvPut ==
  ASSUME CallInv, OwnInv, ServerStep, ~ServerSend, ~ServerClose, NEW c \in Opens, Receiving(c), link',
         nextFd \in Fds, nextFd' = nextFd + 1, Return(nextFd),
         IF c = "FILE_OPEN" THEN stream'[nextFd] # Unset ELSE listing'[nextFd] # Unset,
         \A f \in Fds : /\ f # nextFd \/ c # "FILE_OPEN" => stream'[f] = stream[f]
                        /\ f # nextFd \/ c = "FILE_OPEN" => listing'[f] = listing[f]
  PROVE  OwnInv'
<1>1. /\ link /\ UNCHANGED <<call, handle>>
      /\ \A k : ~Replied(k) /\ (Replied(k)' <=> k = c)
      /\ \A f : Leaving(f)' <=> Leaving(f)
      /\ toClient'[1].ret = nextFd
  BY Answers
<1>2. FdsDiffer /\ Backed /\ Owned /\ Fresh
  BY <1>1 DEF OwnInv
<1>3. Opens = {"FILE_OPEN", "FILE_OPENDIR"}
  BY DEF Opens
<1>4. PICK n \in Fds : n = nextFd
  OBVIOUS
<1>5. \A h \in Handles : handle[h] # Unset => handle[h].fd \in Fds /\ handle[h].fd # n
  <2>1. \A h \in Handles : handle[h] # Unset => handle[h].fd \in Fds /\ handle[h].fd < n
    BY <1>2, <1>4, HandleIs DEF CallInv, FdsDiffer
  <2>2. \A f \in Fds : f \in Nat
    BY RiiFSAssumption DEF Fds
  <2> QED
    BY <2>1, <2>2
<1>6. \A h \in Handles : (IsFile(h)' <=> IsFile(h)) /\ (IsDir(h)' <=> IsDir(h))
  BY <1>1 DEF IsFile, IsDir
<1>7. \A k, f : (~Opened(k, f)) /\ (Opened(k, f)' <=> k = c /\ f = n)
  BY <1>1, <1>4 DEF Opened
<1>8. FdsDiffer'
  <2>1. \A h \in Handles : handle[h] # Unset => handle[h].fd < nextFd'
    <3>1. \A f \in Fds : f \in Nat
      BY RiiFSAssumption DEF Fds
    <3>2. ASSUME NEW h \in Handles, handle[h] # Unset PROVE handle[h].fd < nextFd + 1
      BY <1>2, <1>4, <1>5, <3>1, <3>2 DEF FdsDiffer
    <3> QED
      BY <3>2
  <2> QED
    BY <1>1, <1>2, <2>1 DEF FdsDiffer
<1>9. Backed'
  <2>1. ASSUME NEW h \in Handles, IsFile(h)' PROVE stream'[handle'[h].fd] # Unset
    BY <1>1, <1>2, <1>4, <1>5, <1>6, <2>1 DEF Backed, IsFile
  <2>2. ASSUME NEW h \in Handles, IsDir(h)' PROVE listing'[handle'[h].fd] # Unset
    BY <1>1, <1>2, <1>4, <1>5, <1>6, <2>2 DEF Backed, IsDir
  <2> QED
    BY <2>1, <2>2 DEF Backed
<1>10. Owned'
  <2>1. ASSUME NEW f \in Fds, stream'[f] # Unset
        PROVE  Opened("FILE_OPEN", f)' \/ \E h \in Handles : IsFile(h)' /\ handle'[h].fd = f
    <3>1. CASE f = n /\ c = "FILE_OPEN"
      BY <1>7, <3>1
    <3>2. CASE ~(f = n /\ c = "FILE_OPEN")
      <4>1. PICK h \in Handles : IsFile(h) /\ handle[h].fd = f
        BY <1>2, <1>4, <1>7, <2>1, <3>2 DEF Owned
      <4> QED
        BY <1>1, <1>6, <4>1
    <3> QED
      BY <3>1, <3>2
  <2>2. ASSUME NEW f \in Fds, listing'[f] # Unset
        PROVE  \/ Opened("FILE_OPENDIR", f)' \/ Closing(f)'
               \/ \E h \in Handles : IsDir(h)' /\ handle'[h].fd = f
    <3>1. CASE f = n /\ c # "FILE_OPEN"
      BY <1>3, <1>7, <3>1
    <3>2. CASE ~(f = n /\ c # "FILE_OPEN")
      <4>1. Closing(f) \/ \E h \in Handles : IsDir(h) /\ handle[h].fd = f
        BY <1>2, <1>4, <1>7, <2>2, <3>2 DEF Owned
      <4>2. Closing(f) => Closing(f)'
        BY <1>1, <1>3 DEF Closing
      <4>3. \A h \in Handles : IsDir(h) /\ handle[h].fd = f => IsDir(h)' /\ handle'[h].fd = f
        BY <1>1, <1>6
      <4> QED
        BY <4>1, <4>2, <4>3
    <3> QED
      BY <3>1, <3>2
  <2> QED
    BY <2>1, <2>2 DEF Owned
<1>11. Fresh'
  <2>1. n < nextFd'
    BY <1>4, RiiFSAssumption DEF Fds
  <2>2. ASSUME NEW k \in Opens, NEW f \in Fds, Opened(k, f)'
        PROVE  /\ f < nextFd'
               /\ IF k = "FILE_OPEN" THEN stream'[f] # Unset ELSE listing'[f] # Unset
               /\ \A h \in Handles : handle'[h] # Unset => handle'[h].fd # f
    BY <1>1, <1>4, <1>5, <1>7, <2>1, <2>2
  <2>3. ~Replied("FILE_CLOSE")'
    BY <1>1, <1>3
  <2>4. \A h \in Handles, f \in Fds : Leaving(f)' /\ handle'[h] # Unset => handle'[h].fd # f
    BY <1>1, <1>2 DEF Fresh
  <2> QED
    BY <2>2, <2>3, <2>4 DEF Fresh
<1> QED
  BY <1>8, <1>9, <1>10, <1>11 DEF OwnInv

(* The server closes the file of the call, and no other. *)
LEMMA OwnInvErased ==
  ASSUME CallInv, OwnInv, FileClose, ServerStep, ~ServerSend, ~ServerClose, link'
  PROVE  OwnInv'
<1>1. Receiving("FILE_CLOSE") /\ UNCHANGED <<listing, nextFd>>
  BY DEF FileClose, ServeStream
<1>2. /\ link /\ UNCHANGED <<call, handle>>
      /\ \A k : ~Replied(k) /\ (Replied(k)' <=> k = "FILE_CLOSE")
      /\ \A f : Leaving(f)' <=> Leaving(f)
  BY <1>1, Answers
<1>3. /\ fd \in Fds /\ call.h \in Handles /\ handle[call.h] # Unset
      /\ handle[call.h].fd = fd /\ handle[call.h].kind = "file"
  BY <1>1, AnswersOn, UsesAre DEF OnHandle, Listings
<1>4. PICK n \in Fds : n = fd
  BY <1>3
<1>5. stream \in [Fds -> Stream \union {Unset}]
  BY DEF CallInv, ServerInv
<1>6. stream'[n] = Unset /\ \A f \in Fds : f # n => stream'[f] = stream[f]
  <2>1. stream' = IF FileOpened THEN [stream EXCEPT ![fd] = Unset] ELSE stream
    BY DEF FileClose, Erased
  <2> QED
    BY <1>3, <1>4, <1>5, <2>1 DEF FileOpened
<1>7. FdsDiffer /\ Backed /\ Owned /\ Fresh
  BY <1>2 DEF OwnInv
<1>8. \A h \in Handles : (IsFile(h)' <=> IsFile(h)) /\ (IsDir(h)' <=> IsDir(h))
  BY <1>2 DEF IsFile, IsDir
<1>9. \A f : /\ ~Opened("FILE_OPEN", f) /\ ~Opened("FILE_OPENDIR", f)
             /\ ~Opened("FILE_OPEN", f)' /\ ~Opened("FILE_OPENDIR", f)'
  BY <1>2 DEF Opened
<1>10. FdsDiffer'
  BY <1>1, <1>2, <1>7 DEF FdsDiffer
<1>11. Backed'
  <2>1. ASSUME NEW h \in Handles, IsFile(h), h # call.h PROVE stream'[handle'[h].fd] # Unset
    <3>1. handle[h] # Unset /\ handle[h].fd # n /\ handle[h].fd \in Fds
      BY <1>3, <1>4, <1>7, <2>1, HandleIs DEF FdsDiffer, IsFile, CallInv
    <3>2. stream[handle[h].fd] # Unset
      BY <1>2, <1>7, <2>1 DEF Backed
    <3> QED
      BY <1>2, <1>6, <3>1, <3>2
  <2> QED
    BY <1>1, <1>2, <1>7, <1>8, <2>1 DEF Backed
<1>12. Owned'
  <2>1. ASSUME NEW f \in Fds, stream'[f] # Unset
        PROVE  \E h \in Handles : IsFile(h)' /\ handle'[h].fd = f
    <3>1. PICK h \in Handles : IsFile(h) /\ handle[h].fd = f
      BY <1>6, <1>7, <1>9, <2>1 DEF Owned
    <3> QED
      BY <1>2, <1>8, <3>1
  <2>2. ASSUME NEW f \in Fds, listing'[f] # Unset
        PROVE  Closing(f)' \/ \E h \in Handles : IsDir(h)' /\ handle'[h].fd = f
    <3>1. Closing(f) \/ \E h \in Handles : IsDir(h) /\ handle[h].fd = f
      BY <1>1, <1>7, <1>9, <2>2 DEF Owned
    <3>2. Closing(f) => Closing(f)'
      BY <1>2 DEF Closing
    <3> QED
      BY <1>2, <1>8, <3>1, <3>2
  <2> QED
    BY <2>1, <2>2 DEF Owned
<1>13. Fresh'
  <2>1. \A c \in Opens, f \in Fds : ~Opened(c, f)'
    BY <1>9 DEF Opens
  <2>2. stream'[handle'[call'.h].fd] = Unset
    BY <1>2, <1>3, <1>4, <1>6
  <2>3. \A h \in Handles, f \in Fds : Leaving(f)' /\ handle'[h] # Unset => handle'[h].fd # f
    BY <1>2, <1>7 DEF Fresh
  <2> QED
    BY <2>1, <2>2, <2>3 DEF Fresh
<1> QED
  BY <1>10, <1>11, <1>12, <1>13 DEF OwnInv

(* The server closes the directory that is leaving, and no other. *)
LEMMA OwnInvDirClosed ==
  ASSUME CallInv, OwnInv, FileCloseDir, ServerStep, ~ServerSend, ~ServerClose, link'
  PROVE  OwnInv'
<1>1. Receiving("FILE_CLOSEDIR") /\ UNCHANGED <<stream, nextFd>>
  BY DEF FileCloseDir, ServeListing
<1>2. /\ link /\ UNCHANGED <<call, handle>> /\ "FILE_CLOSEDIR" \in Due
      /\ \A k : ~Replied(k) /\ (Replied(k)' <=> k = "FILE_CLOSEDIR")
      /\ \A f : Leaving(f)' <=> Leaving(f)
  BY <1>1, Answers
<1>3. /\ fd \in Fds
      /\ \E s \in call.args : s.opt = "FILE" /\ s.val = fd
      /\ \A s \in call.args : s.opt = "FILE" => s.val = fd
  BY <1>1, AnswersOn, UsesAre
<1>4. PICK n \in Fds : n = fd
  BY <1>3
<1>5. \A f : Leaving(f) <=> f = n
  BY <1>2, <1>3, <1>4 DEF Leaving
<1>6. listing'[n] = Unset /\ \A f \in Fds : f # n => listing'[f] = listing[f]
  <2>1. listing' = IF DirOpened THEN [listing EXCEPT ![fd] = Unset] ELSE listing
    BY DEF FileCloseDir
  <2>2. listing \in [Fds -> Listing \union {Unset}]
    BY DEF CallInv, ServerInv
  <2> QED
    BY <1>3, <1>4, <2>1, <2>2 DEF DirOpened
<1>7. FdsDiffer /\ Backed /\ Owned /\ Fresh
  BY <1>2 DEF OwnInv
<1>8. \A h \in Handles : (IsFile(h)' <=> IsFile(h)) /\ (IsDir(h)' <=> IsDir(h))
  BY <1>2 DEF IsFile, IsDir
<1>9. \A f : /\ ~Opened("FILE_OPEN", f) /\ ~Opened("FILE_OPENDIR", f)
             /\ ~Opened("FILE_OPEN", f)' /\ ~Opened("FILE_OPENDIR", f)'
  BY <1>2 DEF Opened
<1>10. FdsDiffer'
  BY <1>1, <1>2, <1>7 DEF FdsDiffer
<1>11. Backed'
  <2>1. ASSUME NEW h \in Handles, IsDir(h) PROVE listing'[handle'[h].fd] # Unset
    <3>1. handle[h] # Unset /\ handle[h].fd # n /\ handle[h].fd \in Fds
      BY <1>5, <1>7, <2>1, HandleIs DEF Fresh, IsDir, CallInv
    <3>2. listing[handle[h].fd] # Unset
      BY <1>7, <2>1 DEF Backed
    <3> QED
      BY <1>2, <1>6, <3>1, <3>2
  <2>2. ASSUME NEW h \in Handles, IsFile(h) PROVE stream'[handle'[h].fd] # Unset
    BY <1>1, <1>2, <1>7, <2>2 DEF Backed
  <2> QED
    BY <1>8, <2>1, <2>2 DEF Backed
<1>12. Owned'
  <2>1. ASSUME NEW f \in Fds, stream'[f] # Unset
        PROVE  \E h \in Handles : IsFile(h)' /\ handle'[h].fd = f
    <3>1. PICK h \in Handles : IsFile(h) /\ handle[h].fd = f
      BY <1>1, <1>7, <1>9, <2>1 DEF Owned
    <3> QED
      BY <1>2, <1>8, <3>1
  <2>2. ASSUME NEW f \in Fds, listing'[f] # Unset
        PROVE  \E h \in Handles : IsDir(h)' /\ handle'[h].fd = f
    <3>1. f # n /\ listing[f] # Unset
      BY <1>6, <2>2
    <3>2. PICK h \in Handles : IsDir(h) /\ handle[h].fd = f
      BY <1>5, <1>7, <1>9, <3>1 DEF Owned, Closing
    <3> QED
      BY <1>2, <1>8, <3>2
  <2> QED
    BY <2>1, <2>2 DEF Owned
<1>13. Fresh'
  <2>1. \A c \in Opens, f \in Fds : ~Opened(c, f)'
    BY <1>9 DEF Opens
  <2>2. ~Replied("FILE_CLOSE")'
    BY <1>2
  <2>3. \A h \in Handles, f \in Fds : Leaving(f)' /\ handle'[h] # Unset => handle'[h].fd # f
    BY <1>2, <1>7 DEF Fresh
  <2> QED
    BY <2>1, <2>2, <2>3 DEF Fresh
<1> QED
  BY <1>10, <1>11, <1>12, <1>13 DEF OwnInv

(* There is a descriptor for what is opened. *)
LEMMA PutAt ==
  ASSUME CallInv, NEW c \in Opens, Receiving(c)
  PROVE  nextFd \in Fds
<1>1. nextFd <= MaxFd
  BY CommandOptions
<1> QED
  BY <1>1, RiiFSAssumption DEF CallInv, ServerInv, Fds

(* A file that is opened is a new stream, at its start. *)
LEMMA FilePut ==
  ASSUME CallInv, FileOpen
  PROVE  /\ Receiving("FILE_OPEN") /\ "FILE_OPEN" \in Opens /\ UNCHANGED listing
         /\ \/ Return(-1) /\ UNCHANGED <<stream, nextFd>>
            \/ /\ nextFd \in Fds /\ nextFd' = nextFd + 1 /\ Return(nextFd)
               /\ stream'[nextFd] # Unset /\ stream'[nextFd].pos = 0 /\ stream'[nextFd].ok
               /\ \A f \in Fds : f # nextFd => stream'[f] = stream[f]
<1> DEFINE mode == options["MODE"]
           node == IF IsRegular(path) THEN name[path] ELSE FreeInode
<1>1. Receiving("FILE_OPEN") /\ "FILE_OPEN" \in Opens /\ UNCHANGED listing
  BY DEF FileOpen, Opens
<1>2. CASE Return(-1) /\ UNCHANGED <<stream, nextFd>>
  BY <1>1, <1>2
<1>3. CASE ~(Return(-1) /\ UNCHANGED <<stream, nextFd>>)
  <2>1. /\ stream' = [stream EXCEPT ![nextFd] = NewStream(node, mode)]
        /\ nextFd' = nextFd + 1 /\ Return(nextFd)
    BY <1>3 DEF FileOpen
  <2>2. node \in Inodes
    <3>1. path \in Paths
      <4>1. "PATH" \in Uses("FILE_OPEN")
        BY UsesAre
      <4>2. options["PATH"] \in Legal("FILE_OPEN", "PATH")
        BY <1>1, <4>1, CommandOptions
      <4> QED
        BY <4>2, LegalAre DEF path
    <3>2. CASE IsRegular(path)
      BY <3>2 DEF IsRegular
    <3>3. CASE ~IsRegular(path)
      BY <3>1, <3>3, FreeInodeIs DEF IsRegular, CallInv
    <3> QED
      BY <3>2, <3>3
  <2>3. NewStream(node, mode) \in Stream
    BY <2>2 DEF NewStream, Stream, OpensIn, OpensOut, Appends
  <2>4. NewStream(node, mode).pos = 0 /\ NewStream(node, mode).ok
    BY DEF NewStream
  <2>5. NewStream(node, mode) # Unset
    BY <2>3, UnsetAssumption
  <2> HIDE DEF mode, node
  <2>6. nextFd \in Fds /\ stream \in [Fds -> Stream \union {Unset}]
    BY <1>1, PutAt DEF CallInv, ServerInv
  <2>7. stream'[nextFd] = NewStream(node, mode) /\ \A f \in Fds : f # nextFd => stream'[f] = stream[f]
    BY <2>1, <2>6
  <2> QED
    BY <1>1, <2>1, <2>4, <2>5, <2>6, <2>7
<1> QED
  BY <1>2, <1>3

(* A directory that is opened is before its first entry. *)
LEMMA DirPut ==
  ASSUME CallInv, FileOpenDir
  PROVE  /\ Receiving("FILE_OPENDIR") /\ "FILE_OPENDIR" \in Opens /\ UNCHANGED stream
         /\ \/ Return(-1) /\ UNCHANGED <<listing, nextFd>>
            \/ /\ nextFd \in Fds /\ nextFd' = nextFd + 1 /\ Return(nextFd)
               /\ listing'[nextFd] # Unset /\ listing'[nextFd].next = 1
               /\ listing'[nextFd].entries \in Seq(Paths)
               /\ \A f \in Fds : f # nextFd => listing'[f] = listing[f]
<1> DEFINE entries == IF path = Root THEN {p \in Paths : name[p] # Unset} ELSE {}
<1>1. Receiving("FILE_OPENDIR") /\ "FILE_OPENDIR" \in Opens /\ UNCHANGED stream
  BY DEF FileOpenDir, ServeListing, Opens
<1>2. CASE Return(-1) /\ UNCHANGED <<listing, nextFd>>
  BY <1>1, <1>2
<1>3. CASE ~(Return(-1) /\ UNCHANGED <<listing, nextFd>>)
  <2>1. /\ \E order \in SetToSeqs(entries) :
             listing' = [listing EXCEPT ![nextFd] = [entries |-> order, next |-> 1]]
        /\ nextFd' = nextFd + 1 /\ Return(nextFd)
    BY <1>3 DEF FileOpenDir
  <2>2. \A order \in SetToSeqs(entries) : order \in Seq(Paths)
    <3>1. entries \subseteq Paths /\ IsFiniteSet(entries)
      <4>1. entries \subseteq Paths
        OBVIOUS
      <4> QED
        BY <4>1, RiiFSAssumption, FS_Subset
    <3> HIDE DEF entries
    <3>2. Cardinality(entries) \in Nat
      BY <3>1, FS_CardinalityType
    <3> QED
      BY <3>1, <3>2 DEF SetToSeqs
  <2> HIDE DEF entries
  <2>3. PICK order \in Seq(Paths) :
          listing' = [listing EXCEPT ![nextFd] = [entries |-> order, next |-> 1]]
    BY <2>1, <2>2
  <2> DEFINE d == [entries |-> order, next |-> 1]
  <2>4. d \in Listing
    BY DEF Listing
  <2>5. d # Unset
    BY <2>4, UnsetAssumption
  <2>6. d.next = 1 /\ d.entries = order
    OBVIOUS
  <2> HIDE DEF d
  <2>7. nextFd \in Fds /\ listing \in [Fds -> Listing \union {Unset}]
    BY <1>1, PutAt DEF CallInv, ServerInv
  <2>8. listing'[nextFd] = d /\ \A f \in Fds : f # nextFd => listing'[f] = listing[f]
    BY <2>3, <2>7 DEF d
  <2> QED
    BY <1>1, <2>1, <2>5, <2>6, <2>7, <2>8
<1> QED
  BY <1>2, <1>3

(* A file or a directory is opened, or not. *)
LEMMA OwnInvOpens ==
  ASSUME CallInv, OwnInv, FileOpen \/ FileOpenDir, ServerStep, ~ServerSend, ~ServerClose, link'
  PROVE  OwnInv'
<1>1. ASSUME NEW c \in Opens, Receiving(c), Return(-1), UNCHANGED <<stream, listing, nextFd>>
      PROVE  OwnInv'
  <2>1. toClient'[1].ret = -1
    BY <1>1, Answers
  <2>2. -1 \notin Fds
    BY RiiFSAssumption DEF Fds
  <2>3. SameServer /\ c \notin {"FILE_CLOSE", "FILE_CLOSEDIR"}
    BY <1>1 DEF SameServer, Opens
  <2> QED
    BY <1>1, <2>1, <2>2, <2>3, OwnInvAnswer
<1>2. CASE FileOpen
  BY <1>1, <1>2, FilePut, OwnInvPut
<1>3. CASE FileOpenDir
  <2>1. "FILE_OPENDIR" # "FILE_OPEN"
    OBVIOUS
  <2> QED
    BY <1>1, <1>3, <2>1, DirPut, OwnInvPut
<1> QED
  BY <1>2, <1>3

(* No step of the system mixes up, leaks or shares a descriptor. *)
LEMMA OwnInvNext ==
  ASSUME CallInv, RunsInv, ServesInv, OwnInv, [Next]_vars
  PROVE  OwnInv'
<1>1. CASE Mount
  BY <1>1, OwnInvMount
<1>2. CASE Call /\ ~Mount
  BY <1>2, OwnInvCall
<1>3. CASE ClientSend \/ ClientRequest
  BY <1>3, OwnInvAsks
<1>4. CASE ClientReceive /\ link'
  <2>1. CASE awaiting \in Opens
    BY <1>4, <2>1, OwnInvOpened
  <2>2. CASE awaiting = "FILE_CLOSE"
    BY <1>4, <2>2, OwnInvClosed
  <2>3. CASE awaiting \notin Opens \union {"FILE_CLOSE"}
    BY <1>4, <2>3, OwnInvReply
  <2> QED
    BY <2>1, <2>2, <2>3
<1>5. CASE ServerSend \/ UNCHANGED vars
  <2>1. UNCHANGED <<call, todo, awaiting, handle, toClient, stream, listing, nextFd, link>>
    BY <1>5 DEF ServerSend, vars, clientVars, linkVars, serverVars
  <2> QED
    BY <2>1, OwnInvStill
<1>6. CASE ~link' \/ ServerClose \/ Goodbye \/ Drop
  BY <1>6, OwnInvLost DEF ServerClose, Goodbye, Drop
<1>7. CASE ServerStep /\ ~ServerSend /\ ~ServerClose /\ ~Goodbye /\ link'
  <2>1. ASSUME NEW c, Receiving(c), c \notin Opens \union {"FILE_CLOSE", "FILE_CLOSEDIR"}, SameServer
        PROVE  OwnInv'
    BY <1>7, <2>1, OwnInvAnswer
  <2>2. UNCHANGED serverVars => SameServer
    BY DEF serverVars, SameServer
  <2>3. CASE Handshake \/ LogText \/ FileTell \/ FileStat
    BY <2>1, <2>2, <2>3 DEF Handshake, LogText, FileTell, FileStat, Answer, Opens
  <2>4. CASE FileRead \/ FileWrite \/ FileSeek \/ FileSync
    BY <2>1, <2>4, StreamsKept DEF FileRead, FileWrite, FileSeek, FileSync, ServeStream, Opens
  <2>5. CASE FileCreate \/ FileDelete \/ FileRename \/ FileCreateDir
    BY <2>1, <2>2, <2>5 DEF FileCreate, FileDelete, FileRename, FileCreateDir, ServeDisk, Opens
  <2>6. CASE FileNextDirPath
    BY <2>1, <2>2, <2>6 DEF FileNextDirPath, Opens
  <2>7. CASE FileNextDirStat
    BY <2>1, <2>7, StatAdvances DEF FileNextDirStat, ServeListing, Opens
  <2>8. CASE FileOpen \/ FileOpenDir
    BY <1>7, <2>8, OwnInvOpens
  <2>9. CASE FileClose
    BY <1>7, <2>9, OwnInvErased
  <2>10. CASE FileCloseDir
    BY <1>7, <2>10, OwnInvDirClosed
  <2> QED
    BY <1>7, <2>3, <2>4, <2>5, <2>6, <2>7, <2>8, <2>9, <2>10 DEF ServerStep
<1> QED
  BY <1>1, <1>2, <1>3, <1>4, <1>5, <1>6, <1>7 DEF Next, ClientStep

-----------------------------------------------------------------------------
(* Directories are listed in order.                                         *)

(* A directory that neither side moves in. *)
LEMMA SeenSame ==
  ASSUME NEW h \in Handles, Seen(h), handle'[h] = handle[h],
         listing'[handle[h].fd] = listing[handle[h].fd],
         (StatDue' /\ call'.h = h) <=> (StatDue /\ call.h = h)
  PROVE  Seen(h)'
<1>1. Given(h)' = Given(h)
  BY DEF Given
<1> QED
  BY <1>1 DEF Seen

(* A step that leaves each directory it keeps open where it is. *)
LEMMA ListInvSame ==
  ASSUME ListInv, link' => link,
         link' => /\ StartsAtFirst' /\ NameIsNext'
                  /\ \A h \in Handles : IsDir(h)' =>
                       /\ handle'[h] = handle[h]
                       /\ listing'[handle[h].fd] = listing[handle[h].fd]
                       /\ (StatDue' /\ call'.h = h) <=> (StatDue /\ call.h = h)
  PROVE  ListInv'
<1> SUFFICES ASSUME link', NEW h \in Handles, IsDir(h)' PROVE Seen(h)'
  BY DEF ListInv
<1>1. IsDir(h)
  BY DEF IsDir
<1> QED
  BY <1>1, SeenSame DEF ListInv

(* Before the server answers there is no name and no new directory. *)
LEMMA NothingListed ==
  ASSUME awaiting' = Unset \/ toClient' = <<>> \/ awaiting' \notin Opens \union Listings
  PROVE  StartsAtFirst' /\ NameIsNext'
<1>1. "FILE_OPENDIR" # Unset /\ "FILE_NEXTDIR_PATH" # Unset
  BY RiiFSAssumption DEF Commands
<1>2. ~Replied("FILE_OPENDIR")' /\ ~Replied("FILE_NEXTDIR_PATH")'
  BY <1>1 DEF Replied, Opens, Listings
<1> QED
  BY <1>2 DEF StartsAtFirst, NameIsNext, Opened

(* A call begins before the first name of its directory. *)
LEMMA ListInvCall ==
  ASSUME CallInv, ListInv, Call, ~Mount
  PROVE  ListInv'
<1>1. /\ UNCHANGED <<link, listing>> /\ awaiting' = Unset /\ awaiting = Unset /\ call = Idle
  BY CallFrame DEF linkVars, serverVars
<1>2. "FILE_NEXTDIR_STAT" # Unset /\ Idle.op # "NextDir"
  BY RiiFSAssumption DEF Commands, Idle
<1>3. ~StatDue
  BY <1>1, <1>2 DEF StatDue
<1>4. ~StatDue'
  <2>1. CASE call' = Idle
    BY <1>1, <1>2, <2>1 DEF StatDue
  <2>2. ASSUME NEW op, Begun(op), op \notin {"CloseDir", "NextDir"} PROVE ~StatDue'
    BY <2>2 DEF Begun, StatDue
  <2>3. ASSUME NEW h \in Handles, NextDir(h) \/ CloseDir(h) PROVE ~StatDue'
    <3>1. CASE call'.op = "NextDir"
      <4>1. todo' = <<Send("FILE", handle[h].fd), Receive("FILE_NEXTDIR_PATH"),
                      Receive("FILE_NEXTDIR_STAT")>>
        BY <2>3, <3>1, DirBegins
      <4>2. Len(todo') = 3
        BY <4>1
      <4>3. Len(<<Receive("FILE_NEXTDIR_STAT")>>) = 1
        OBVIOUS
      <4> QED
        BY <1>1, <1>2, <4>2, <4>3 DEF StatDue
    <3> QED
      BY <3>1 DEF StatDue
  <2> QED
    BY <1>1, <2>1, <2>2, <2>3, CallBegins
<1>5. \A h \in Handles : IsDir(h)' => handle'[h] = handle[h]
  <2>1. ASSUME NEW h \in Handles, NEW where \in Nat, IsFile(h),
               handle' = [handle EXCEPT ![h] = Moved(handle[h], where)],
               NEW g \in Handles, IsDir(g)'
        PROVE  handle'[g] = handle[g]
    <3>1. handle'[h].kind = "file" /\ (g # h => handle'[g] = handle[g])
      BY <2>1, MovedIs DEF CallInv, SameObjects, IsFile
    <3> QED
      BY <2>1, <3>1 DEF IsDir
  <2>2. ASSUME NEW h \in Handles, NextDir(h) \/ CloseDir(h), NEW g \in Handles, IsDir(g)'
        PROVE  handle'[g] = handle[g]
    <3>1. handle' = handle \/ handle' = [handle EXCEPT ![h] = Unset]
      BY <2>2, DirBegins
    <3>2. handle \in [Handles -> Info \union {Unset}]
      BY DEF CallInv, HandleInv
    <3> QED
      BY <2>2, <3>1, <3>2 DEF IsDir
  <2>3. ASSUME NEW op, Begun(op) PROVE handle' = handle
    BY <2>3 DEF Begun
  <2> QED
    BY <2>1, <2>2, <2>3, CallBegins
<1> QED
  BY <1>1, <1>3, <1>4, <1>5, NothingListed, ListInvSame

(* Asking for the stat makes it no more and no less due. *)
LEMMA ListInvAsks ==
  ASSUME CallInv, NextDirInv, ListInv, ClientSend \/ ClientRequest
  PROVE  ListInv'
<1> DEFINE p == Receive("FILE_NEXTDIR_PATH")
           s == Receive("FILE_NEXTDIR_STAT")
<1>1. /\ UNCHANGED <<handle, link, listing>> /\ awaiting = Unset /\ todo' = Tail(todo)
      /\ call' \in {call, Idle} /\ (awaiting' = Unset \/ toClient' = <<>>)
  BY DueAfterSend, DueAfterRequest DEF serverVars
<1>2. "FILE_NEXTDIR_STAT" # Unset /\ "FILE_NEXTDIR_PATH" # Unset /\ Idle.op # "NextDir"
      /\ p.act = "RECEIVE" /\ s.act = "RECEIVE" /\ p.opt = "FILE_NEXTDIR_PATH"
      /\ s.opt = "FILE_NEXTDIR_STAT" /\ \A f : Send("FILE", f).act = "SEND"
  BY RiiFSAssumption DEF Commands, Idle, Receive, Send
<1> HIDE DEF p, s
<1>3. /\ Head(<<p, s>>) = p /\ Tail(<<p, s>>) = <<s>> /\ Head(<<s>>) = s /\ Tail(<<s>>) = <<>>
      /\ <<s>> # <<p, s>> /\ <<s>> # <<>>
  <2>1. Len(<<s>>) = 1 /\ Len(<<p, s>>) = 2
    OBVIOUS
  <2> QED
    BY <2>1, NextDirSteps
<1>4. \A f : /\ Head(<<Send("FILE", f), p, s>>) = Send("FILE", f)
             /\ Tail(<<Send("FILE", f), p, s>>) = <<p, s>>
             /\ <<Send("FILE", f), p, s>> # <<s>>
  <2>1. \A f : Len(<<Send("FILE", f), p, s>>) = 3
    OBVIOUS
  <2>2. Len(<<s>>) = 1
    OBVIOUS
  <2> QED
    BY <2>1, <2>2, NextDirSteps
<1>5. StatDue' <=> /\ call'.op = "NextDir"
                   /\ \/ awaiting' = Unset /\ todo' = <<s>>
                      \/ awaiting' = "FILE_NEXTDIR_STAT" /\ toClient' = <<>>
  BY DEF StatDue, s
<1>6. StatDue <=> call.op = "NextDir" /\ todo = <<s>>
  BY <1>1, <1>2 DEF StatDue, s
<1>7. call.op = "NextDir" => \/ \E f \in Fds : todo = <<Send("FILE", f), p, s>>
                             \/ todo = <<p, s>>
                             \/ todo = <<s>>
  BY <1>1, <1>2 DEF NextDirInv, p, s
<1>8. (~StatDue' /\ ~StatDue) \/ (call' = call /\ StatDue' /\ StatDue)
  <2>1. CASE ClientSend
    <3>1. Head(todo).act = "SEND" /\ awaiting' = Unset
      BY <2>1, DueAfterSend
    <3>2. call.op = "NextDir" => \E f \in Fds : todo = <<Send("FILE", f), p, s>>
      BY <1>2, <1>3, <1>7, <3>1
    <3>3. call.op = "NextDir" => todo' = <<p, s>> /\ todo # <<s>>
      BY <1>1, <1>4, <3>2
    <3>4. ~StatDue
      BY <1>6, <3>3
    <3>5. call'.op = "NextDir" => call.op = "NextDir"
      BY <1>1, <1>2
    <3>6. ~StatDue'
      BY <1>2, <1>3, <1>5, <3>1, <3>3, <3>5
    <3> QED
      BY <3>4, <3>6
  <2>2. CASE ClientRequest
    <3>1. Head(todo).act = "RECEIVE" /\ awaiting' = Head(todo).opt /\ call' = call /\ toClient' = <<>>
          /\ awaiting' # Unset
      BY <2>2, DueAfterRequest DEF ClientRequest
    <3>2. call.op = "NextDir" => todo = <<p, s>> \/ todo = <<s>>
      BY <1>2, <1>4, <1>7, <3>1
    <3>3. todo = <<p, s>> => awaiting' = "FILE_NEXTDIR_PATH"
      BY <1>2, <1>3, <3>1
    <3>4. todo = <<s>> => awaiting' = "FILE_NEXTDIR_STAT"
      BY <1>2, <1>3, <3>1
    <3>5. "FILE_NEXTDIR_PATH" # "FILE_NEXTDIR_STAT"
      OBVIOUS
    <3> QED
      BY <1>3, <1>5, <1>6, <3>1, <3>2, <3>3, <3>4, <3>5
  <2> QED
    BY <2>1, <2>2
<1> QED
  BY <1>1, <1>8, NothingListed, ListInvSame

(* The next entry is added to those that were given. *)
LEMMA OneMore ==
  ASSUME NEW S, NEW e \in Seq(S), NEW n \in Nat \ {0}, n <= Len(e)
  PROVE  Append(SubSeq(e, 1, n - 1), e[n]) = SubSeq(e, 1, n)
<1> DEFINE a == SubSeq(e, 1, n - 1)
           b == SubSeq(e, 1, n)
<1>1. e[n] \in S /\ \A i \in 1..n : e[i] \in S
  OBVIOUS
<1>2. b \in Seq(S) /\ Len(b) = n /\ \A i \in 1..n : b[i] = e[i]
  BY <1>1, SubSeqProperties
<1>3. a \in Seq(S) /\ Len(a) = n - 1 /\ \A i \in 1..(n - 1) : a[i] = e[i]
  BY <1>1, SubSeqProperties
<1> HIDE DEF a, b
<1>4. /\ Append(a, e[n]) \in Seq(S) /\ Len(Append(a, e[n])) = n
      /\ \A i \in 1..(n - 1) : Append(a, e[n])[i] = a[i]
      /\ Append(a, e[n])[n] = e[n]
  BY <1>1, <1>3, AppendProperties
<1>5. \A i \in 1..n : Append(a, e[n])[i] = b[i]
  BY <1>2, <1>3, <1>4
<1>6. Append(a, e[n]) = b
  BY <1>2, <1>4, <1>5, SeqEqual
<1> QED
  BY <1>6 DEF a, b

(* A directory has its listing, which has a cursor. *)
LEMMA ListingOf ==
  ASSUME CallInv, OwnInv, link, NEW h \in Handles, IsDir(h)
  PROVE  /\ handle[h] # Unset /\ handle[h].fd \in Fds /\ listing[handle[h].fd] # Unset
         /\ listing[handle[h].fd].entries \in Seq(Paths)
         /\ listing[handle[h].fd].next \in Nat \ {0}
         /\ Len(listing[handle[h].fd].entries) \in Nat
         /\ handle[h].seen \in Seq(Paths)
<1>1. handle[h] \in Info /\ handle[h] # Unset /\ handle[h].fd \in Fds
  BY HandleIs DEF CallInv, IsDir
<1>2. PICK f \in Fds : f = handle[h].fd
  BY <1>1
<1>3. listing[f] # Unset
  BY <1>2 DEF OwnInv, Backed
<1>4. listing[f] \in Listing
  BY <1>3 DEF CallInv, ServerInv
<1>5. listing[f].entries \in Seq(Paths) /\ listing[f].next \in Nat \ {0}
  BY <1>4 DEF Listing
<1>6. Len(listing[f].entries) \in Nat
  BY <1>5
<1>7. handle[h].seen \in Seq(Paths)
  BY <1>1 DEF Info
<1> QED
  BY <1>1, <1>2, <1>3, <1>5, <1>6, <1>7

(* Only the two commands of NextDir are awaited in it, and nowhere else. *)
LEMMA ListingsOfNextDir ==
  ASSUME RunsInv, awaiting # Unset
  PROVE  call.op = "NextDir" <=> awaiting \in Listings
<1>1. awaiting \in CommandsOf(call.op)
  BY DEF RunsInv, Due
<1> QED
  BY <1>1 DEF CommandsOf, Listings

(* A reply that is not about a directory leaves every directory as it was. *)
LEMMA ReplyKeepsDirs ==
  ASSUME CallInv, ClientReceive, link', awaiting \notin {"FILE_OPENDIR", "FILE_NEXTDIR_PATH"},
         NEW h \in Handles, IsDir(h)'
  PROVE  handle'[h] = handle[h]
<1>1. /\ Returned(toClient[1].ret, toClient[1].entry)
      /\ Fits(awaiting, call.h, call.args) /\ Replied(awaiting)
  BY Replies
<1>2. handle \in [Handles -> Info \union {Unset}]
  BY DEF CallInv, HandleInv
<1>3. CASE awaiting = "FILE_OPEN"
  <2>1. \/ handle' = handle
        \/ /\ handle'[call.h].kind = "file"
           /\ \A g \in Handles : g # call.h => handle'[g] = handle[g]
    BY <1>3, OpenedIs DEF Opens
  <2> QED
    BY <2>1 DEF IsDir
<1>4. CASE awaiting = "FILE_CLOSE"
  <2>1. CloseReturned
    BY <1>1, <1>4 DEF Returned, OpenReturned, TransferReturned, SeekReturned, TellReturned,
         CloseReturned, SessionReturned, ValueReturned, NextDirReturned
  <2>2. call.h \in Handles /\ handle' = [handle EXCEPT ![call.h] = Unset]
    BY <1>1, <1>4, <2>1 DEF CloseReturned, WithInfo, Fits, OnHandle
  <2> QED
    BY <1>2, <2>2 DEF IsDir
<1>5. CASE awaiting \in {"FILE_READ", "FILE_WRITE", "FILE_SEEK", "FILE_TELL"}
  <2>1. call.h \in Handles /\ handle[call.h] # Unset /\ handle[call.h].kind = "file"
    BY <1>1, <1>5 DEF Fits, OnHandle, Listings
  <2>2. handle'[call.h].kind = "file"
    BY <1>5, <2>1, ReplyKeepsObjects DEF SameObjects, Opens
  <2>3. handle' = handle \/ \E info : handle' = [handle EXCEPT ![call.h] = info]
    BY <1>1, <1>5 DEF Returned, OpenReturned, TransferReturned, SeekReturned, TellReturned,
         CloseReturned, SessionReturned, ValueReturned, NextDirReturned, NoChange, WithInfo
  <2>4. \A g \in Handles : g # call.h => handle'[g] = handle[g]
    BY <1>2, <2>3
  <2> QED
    BY <2>2, <2>4 DEF IsDir
<1>6. CASE awaiting \notin {"FILE_OPEN", "FILE_CLOSE", "FILE_READ", "FILE_WRITE", "FILE_SEEK",
                             "FILE_TELL"}
  <2>1. handle' = handle
    BY <1>1, <1>6 DEF Returned, OpenReturned, TransferReturned, SeekReturned, TellReturned,
         CloseReturned, SessionReturned, ValueReturned, NextDirReturned, NoChange
  <2> QED
    BY <2>1
<1> QED
  BY <1>3, <1>4, <1>5, <1>6

(* The name is given to the caller, or there is none. *)
LEMMA ListInvName ==
  ASSUME CallInv, RunsInv, OwnInv, NextDirInv, ListInv, ClientReceive, link',
         awaiting = "FILE_NEXTDIR_PATH"
  PROVE  ListInv'
<1>1. /\ link /\ Replied("FILE_NEXTDIR_PATH") /\ UNCHANGED <<listing>> /\ awaiting' = Unset
      /\ Returned(toClient[1].ret, toClient[1].entry)
      /\ Returns("FILE_NEXTDIR_PATH", toClient[1].ret, toClient[1].entry)
      /\ Fits("FILE_NEXTDIR_PATH", call.h, call.args)
  BY Replies DEF serverVars
<1>2. PICK ret, entry : ret = toClient[1].ret /\ entry = toClient[1].entry
  OBVIOUS
<1>3. PICK h \in Handles : h = call.h /\ handle[h] # Unset /\ IsDir(h)
  BY <1>1 DEF Fits, OnHandle, Listings, IsDir
<1>4. "FILE_NEXTDIR_PATH" # Unset /\ "FILE_NEXTDIR_STAT" # Unset /\ Idle.op # "NextDir"
  BY RiiFSAssumption DEF Commands, Idle
<1>5. call.op = "NextDir" /\ todo = <<Receive("FILE_NEXTDIR_STAT")>> /\ ~StatDue
  <2>1. call.op = "NextDir"
    BY <1>4, ListingsOfNextDir DEF Listings
  <2> QED
    BY <1>4, <2>1 DEF NextDirInv, StatDue
<1>6. NextDirReturned(ret, entry)
  BY <1>1, <1>2 DEF Returned, OpenReturned, TransferReturned, SeekReturned, TellReturned,
       CloseReturned, SessionReturned, ValueReturned, NextDirReturned
<1>7. CASE ret < 0 /\ Continue(<<>>) /\ NoChange
  <2>1. call' = Idle /\ handle' = handle
    BY <1>7 DEF Continue, NoChange
  <2>2. ~StatDue'
    BY <1>4, <2>1 DEF StatDue
  <2> QED
    BY <1>1, <1>5, <2>1, <2>2, NothingListed, ListInvSame
<1>8. CASE ret >= 0 /\ Continue(todo) /\ WithInfo([handle[call.h] EXCEPT !.seen = Append(@, entry)])
  <2>1. <<Receive("FILE_NEXTDIR_STAT")>> # <<>>
    OBVIOUS
  <2>2. call' = call /\ todo' = todo /\ StatDue'
    BY <1>1, <1>5, <1>8, <2>1 DEF Continue, StatDue
  <2> DEFINE info == [handle[h] EXCEPT !.seen = Append(@, entry)]
  <2>3. handle' = [handle EXCEPT ![h] = info] /\ handle \in [Handles -> Info \union {Unset}]
    BY <1>3, <1>8 DEF WithInfo, CallInv, HandleInv
  <2>4. handle[h] \in Info
    BY <1>3, <2>3
  <2>5. info.fd = handle[h].fd /\ info.seen = Append(handle[h].seen, entry)
    BY <2>4 DEF Info
  <2> HIDE DEF info
  <2>6. /\ handle'[h].fd = handle[h].fd /\ handle'[h].seen = Append(handle[h].seen, entry)
        /\ \A g \in Handles : g # h => handle'[g] = handle[g]
    BY <2>3, <2>5
  <2>7. Seen(h) /\ NameIsNext
    BY <1>1, <1>3 DEF ListInv
  <2>8. PICK d : d = listing[handle[h].fd]
    OBVIOUS
  <2>9. d.entries \in Seq(Paths) /\ d.next \in Nat \ {0}
    BY <1>1, <1>3, <2>8, ListingOf
  <2>10. handle[h].seen = SubSeq(d.entries, 1, d.next - 1)
    BY <1>5, <2>7, <2>8 DEF Seen, Given
  <2>11. d.next <= Len(d.entries) /\ entry = d.entries[d.next]
    BY <1>1, <1>2, <1>3, <1>8, <2>7, <2>8 DEF NameIsNext
  <2>12. handle'[h].seen = SubSeq(d.entries, 1, d.next)
    BY <2>6, <2>9, <2>10, <2>11, OneMore
  <2>13. Seen(h)'
    BY <1>1, <1>3, <2>2, <2>6, <2>8, <2>11, <2>12 DEF Seen, Given
  <2>14. ASSUME NEW g \in Handles, g # h, IsDir(g)' PROVE Seen(g)'
    <3>1. IsDir(g) /\ handle'[g] = handle[g]
      BY <2>6, <2>14 DEF IsDir
    <3>2. Seen(g)
      BY <1>1, <3>1 DEF ListInv
    <3> QED
      BY <1>1, <1>3, <1>5, <2>2, <2>14, <3>1, <3>2, SeenSame
  <2> QED
    BY <1>1, <2>13, <2>14, NothingListed DEF ListInv
<1> QED
  BY <1>6, <1>7, <1>8 DEF NextDirReturned

(* A directory that was opened starts with nothing given. *)
LEMMA ListInvOpened ==
  ASSUME CallInv, RunsInv, OwnInv, ListInv, ClientReceive, link', awaiting = "FILE_OPENDIR"
  PROVE  ListInv'
<1>1. /\ link /\ UNCHANGED <<listing>> /\ awaiting' = Unset
  BY Replies DEF serverVars
<1>2. "FILE_OPENDIR" # Unset /\ Idle.op # "NextDir"
  BY RiiFSAssumption DEF Commands, Idle
<1>3. call.op # "NextDir"
  BY <1>2, ListingsOfNextDir DEF Listings
<1>4. ~StatDue /\ ~StatDue'
  <2>1. call' = Idle \/ call' = call
    BY DueAfterReply
  <2> QED
    BY <1>2, <1>3, <2>1 DEF StatDue
<1>5. PICK h \in Handles : h = call.h
  BY OpenedIs DEF Opens
<1>6. CASE handle' = handle
  BY <1>1, <1>4, <1>6, NothingListed, ListInvSame
<1>7. CASE handle' # handle
  <2>1. PICK ret : ret = toClient[1].ret
    OBVIOUS
  <2>2. /\ ret \in Fds /\ Opened("FILE_OPENDIR", ret)
        /\ handle'[h].fd = ret /\ handle'[h].seen = <<>>
        /\ \A g \in Handles : g # h => handle'[g] = handle[g]
    BY <1>5, <1>7, <2>1, OpenedIs DEF Opens
  <2>3. listing[ret].next = 1
    BY <1>1, <2>2 DEF ListInv, StartsAtFirst
  <2>4. listing[ret].entries \in Seq(Paths)
    BY <1>1, <2>2 DEF OwnInv, Fresh, Opens, CallInv, ServerInv, Listing
  <2>5. Seen(h)'
    <3>1. PICK d : d = listing[ret]
      OBVIOUS
    <3>2. 0 <= Len(d.entries) /\ SubSeq(d.entries, 1, 0) = <<>>
      BY <2>4, <3>1, SubSeqEmpty
    <3>3. Given(h)' = 0
      BY <1>1, <1>4, <2>2, <2>3 DEF Given
    <3> QED
      BY <1>1, <2>2, <3>1, <3>2, <3>3 DEF Seen
  <2>6. ASSUME NEW g \in Handles, g # h, IsDir(g)' PROVE Seen(g)'
    <3>1. IsDir(g) /\ handle'[g] = handle[g]
      BY <2>2, <2>6 DEF IsDir
    <3>2. Seen(g)
      BY <1>1, <3>1 DEF ListInv
    <3> QED
      BY <1>1, <1>4, <3>1, <3>2, SeenSame
  <2> QED
    BY <1>1, <2>5, <2>6, NothingListed DEF ListInv
<1> QED
  BY <1>6, <1>7

(* The handler takes a reply. *)
LEMMA ListInvReply ==
  ASSUME CallInv, RunsInv, OwnInv, NextDirInv, ListInv, ClientReceive, link'
  PROVE  ListInv'
<1>1. CASE awaiting \in {"FILE_OPENDIR", "FILE_NEXTDIR_PATH"}
  BY <1>1, ListInvName, ListInvOpened
<1>2. CASE awaiting \notin {"FILE_OPENDIR", "FILE_NEXTDIR_PATH"}
  <2>1. /\ link /\ UNCHANGED <<listing>> /\ awaiting' = Unset /\ Replied(awaiting)
        /\ awaiting # Unset
    BY Replies, ReturnedIs DEF serverVars
  <2>2. ~StatDue
    BY <2>1 DEF StatDue, Replied
  <2>3. ~StatDue'
    <3>1. Idle.op # "NextDir" /\ "FILE_NEXTDIR_STAT" # Unset
      BY RiiFSAssumption DEF Commands, Idle
    <3>2. call' = (IF todo' = <<>> THEN Idle ELSE call)
          /\ (todo' = todo \/ todo' = <<>> \/ call.op = "Seek")
      BY DueAfterReply
    <3>3. call.op = "NextDir" => todo = <<>>
      BY <1>2, <2>1, ListingsOfNextDir DEF NextDirInv, Listings
    <3> QED
      BY <2>1, <3>1, <3>2, <3>3 DEF StatDue
  <2> QED
    BY <1>2, <2>1, <2>2, <2>3, ReplyKeepsDirs, NothingListed, ListInvSame
<1> QED
  BY <1>1, <1>2

(* A command that is not about a directory, or that opened none. *)
LEMMA ListInvAnswer ==
  ASSUME CallInv, OwnInv, ListInv, ServerStep, ~ServerSend, ~ServerClose, link',
         NEW c, Receiving(c), c # "FILE_NEXTDIR_STAT",
         \A h \in Handles : IsDir(h) => listing'[handle[h].fd] = listing[handle[h].fd],
         StartsAtFirst', NameIsNext'
  PROVE  ListInv'
<1>1. /\ link /\ awaiting = c /\ c # Unset /\ UNCHANGED <<call, awaiting, handle>>
  BY Answers
<1>2. ~StatDue /\ ~StatDue'
  BY <1>1 DEF StatDue
<1>3. \A h \in Handles : IsDir(h)' <=> IsDir(h)
  BY <1>1 DEF IsDir
<1> QED
  BY <1>1, <1>2, <1>3, ListInvSame

(* The name that is returned is that of the entry at the cursor. *)
LEMMA ListInvPath ==
  ASSUME CallInv, OwnInv, ListInv, FileNextDirPath, ServerStep, ~ServerSend, ~ServerClose, link'
  PROVE  ListInv'
<1>1. Receiving("FILE_NEXTDIR_PATH") /\ UNCHANGED <<listing>>
  BY DEF FileNextDirPath, serverVars
<1>2. /\ awaiting' = "FILE_NEXTDIR_PATH" /\ UNCHANGED <<call, handle>>
      /\ \A ret, entry : ReturnEntry(ret, entry) =>
           toClient'[1].ret = ret /\ toClient'[1].entry = entry
      /\ \A ret : Return(ret) => toClient'[1].ret = ret
      /\ \A k : Replied(k)' <=> k = "FILE_NEXTDIR_PATH"
  BY <1>1, Answers
<1>3. fd = handle[call.h].fd
  BY <1>1, AnswersOn, UsesAre DEF OnHandle, Listings
<1>4. StartsAtFirst'
  BY <1>2 DEF StartsAtFirst, Opened
<1>5. NameIsNext'
  <2>1. CASE /\ DirOpened /\ listing[fd].next <= Len(listing[fd].entries)
             /\ ReturnEntry(1, listing[fd].entries[listing[fd].next])
    BY <1>1, <1>2, <1>3, <2>1 DEF NameIsNext
  <2>2. CASE Return(-1)
    <3>1. toClient'[1].ret = -1
      BY <1>2, <2>2
    <3>2. ~(toClient'[1].ret >= 0)
      BY <3>1
    <3> QED
      BY <3>2 DEF NameIsNext
  <2> QED
    BY <2>1, <2>2 DEF FileNextDirPath
<1> QED
  BY <1>1, <1>4, <1>5, ListInvAnswer

(* The stat goes on to the next entry, once the one before was given. *)
LEMMA ListInvStat ==
  ASSUME CallInv, RunsInv, OwnInv, ListInv, FileNextDirStat, ServerStep, ~ServerSend, ~ServerClose,
         link'
  PROVE  ListInv'
<1>1. Receiving("FILE_NEXTDIR_STAT")
  BY DEF FileNextDirStat, ServeListing
<1>2. /\ awaiting = "FILE_NEXTDIR_STAT" /\ UNCHANGED <<call, awaiting, handle>> /\ link
      /\ "FILE_NEXTDIR_STAT" # Unset /\ toClient = <<>>
      /\ \A k : Replied(k)' <=> k = "FILE_NEXTDIR_STAT"
  BY <1>1, Answers
<1>3. PICK h \in Handles : h = call.h /\ handle[h] # Unset /\ handle[h].fd = fd /\ IsDir(h)
  BY <1>1, AnswersOn, UsesAre DEF OnHandle, Listings, IsDir
<1>4. StatDue /\ ~StatDue'
  <2>1. call.op = "NextDir"
    BY <1>2, ListingsOfNextDir DEF Listings
  <2>2. toClient' # <<>>
    BY <1>2 DEF Replied
  <2> QED
    BY <1>2, <2>1, <2>2 DEF StatDue
<1>5. PICK n \in Fds : n = fd /\ listing[n] # Unset /\ listing[n].next \in Nat \ {0}
  BY <1>2, <1>3, ListingOf
<1>6. /\ listing'[n].entries = listing[n].entries
      /\ listing'[n].next = listing[n].next + 1
      /\ \A f \in Fds : f # n => listing'[f] = listing[f]
  BY <1>5, StatAdvances DEF DirOpened
<1>7. Seen(h)'
  <2>1. Seen(h)
    BY <1>2, <1>3 DEF ListInv
  <2>2. Given(h)' = Given(h)
    <3>1. Given(h) = listing[n].next
      BY <1>3, <1>4, <1>5 DEF Given
    <3>2. Given(h)' = listing'[n].next - 1
      BY <1>2, <1>3, <1>4, <1>5 DEF Given
    <3> QED
      BY <1>5, <1>6, <3>1, <3>2
  <2> QED
    BY <1>2, <1>3, <1>5, <1>6, <2>1, <2>2 DEF Seen
<1>8. ASSUME NEW g \in Handles, g # h, IsDir(g)' PROVE Seen(g)'
  <2>1. IsDir(g) /\ handle[g] # Unset
    BY <1>2, <1>8 DEF IsDir
  <2>2. handle[g].fd \in Fds /\ handle[g].fd # n
    BY <1>2, <1>3, <1>5, <1>8, <2>1, HandleIs DEF OwnInv, FdsDiffer, CallInv
  <2>3. Seen(g)
    BY <1>2, <2>1 DEF ListInv
  <2> QED
    BY <1>2, <1>3, <1>6, <1>8, <2>2, <2>3, SeenSame
<1>9. StartsAtFirst' /\ NameIsNext'
  BY <1>2 DEF StartsAtFirst, NameIsNext, Opened
<1> QED
  BY <1>7, <1>8, <1>9 DEF ListInv

(* What is opened or closed is not what is being listed. *)
LEMMA ListInvOpens ==
  ASSUME CallInv, OwnInv, ListInv, FileOpenDir \/ FileCloseDir, ServerStep, ~ServerSend, ~ServerClose,
         link'
  PROVE  ListInv'
<1>1. CASE FileOpenDir
  <2>1. Receiving("FILE_OPENDIR")
    BY <1>1, DirPut
  <2>2. /\ link /\ \A k : Replied(k)' <=> k = "FILE_OPENDIR"
        /\ \A ret : Return(ret) => toClient'[1].ret = ret
    BY <2>1, Answers
  <2>3. NameIsNext'
    BY <2>2 DEF NameIsNext
  <2>4. \A h \in Handles : IsDir(h) => handle[h].fd \in Fds /\ handle[h].fd # nextFd
    <3>1. \A h \in Handles : IsDir(h) => handle[h].fd \in Fds /\ handle[h].fd < nextFd
      BY <2>2, HandleIs DEF OwnInv, FdsDiffer, CallInv, IsDir
    <3>2. \A f \in Fds : f \in Nat
      BY RiiFSAssumption DEF Fds
    <3> QED
      BY <3>1, <3>2
  <2>5. CASE Return(-1) /\ UNCHANGED <<listing, nextFd>>
    <3>1. toClient'[1].ret \notin Fds
      BY <2>2, <2>5, RiiFSAssumption DEF Fds
    <3>2. StartsAtFirst'
      BY <3>1 DEF StartsAtFirst, Opened
    <3> QED
      BY <2>1, <2>3, <2>5, <3>2, ListInvAnswer
  <2>6. CASE /\ nextFd \in Fds /\ Return(nextFd) /\ listing'[nextFd].next = 1
             /\ \A f \in Fds : f # nextFd => listing'[f] = listing[f]
    <3>1. StartsAtFirst'
      BY <2>2, <2>6 DEF StartsAtFirst, Opened
    <3>2. \A h \in Handles : IsDir(h) => listing'[handle[h].fd] = listing[handle[h].fd]
      BY <2>4, <2>6
    <3> QED
      BY <2>1, <2>3, <3>1, <3>2, ListInvAnswer
  <2> QED
    BY <1>1, <2>5, <2>6, DirPut
<1>2. CASE FileCloseDir
  <2>1. Receiving("FILE_CLOSEDIR")
    BY <1>2 DEF FileCloseDir, ServeListing
  <2>2. link /\ "FILE_CLOSEDIR" \in Due /\ \A k : Replied(k)' <=> k = "FILE_CLOSEDIR"
    BY <2>1, Answers
  <2>3. fd \in Fds /\ \E s \in call.args : s.opt = "FILE" /\ s.val = fd
    BY <2>1, AnswersOn, UsesAre
  <2>4. PICK n \in Fds : n = fd
    BY <2>3
  <2>5. \A h \in Handles : IsDir(h) => handle[h].fd \in Fds /\ handle[h].fd # n
    <3>1. Leaving(n)
      BY <2>2, <2>3, <2>4 DEF Leaving
    <3> QED
      BY <2>2, <3>1, HandleIs DEF OwnInv, Fresh, CallInv, IsDir
  <2>6. \A f \in Fds : f # n => listing'[f] = listing[f]
    <3>1. listing' = IF DirOpened THEN [listing EXCEPT ![fd] = Unset] ELSE listing
      BY <1>2 DEF FileCloseDir
    <3>2. listing \in [Fds -> Listing \union {Unset}]
      BY DEF CallInv, ServerInv
    <3> QED
      BY <2>4, <3>1, <3>2
  <2>7. StartsAtFirst' /\ NameIsNext'
    BY <2>2 DEF StartsAtFirst, NameIsNext, Opened
  <2> QED
    BY <2>1, <2>5, <2>6, <2>7, ListInvAnswer
<1> QED
  BY <1>1, <1>2

(* No step loses the place in a directory. *)
LEMMA ListInvNext ==
  ASSUME CallInv, RunsInv, ServesInv, OwnInv, NextDirInv, ListInv, [Next]_vars
  PROVE  ListInv'
<1>1. CASE Mount
  <2>1. \A h \in Handles : ~IsDir(h)'
    BY <1>1, MountBegins DEF IsDir
  <2>2. StartsAtFirst' /\ NameIsNext'
    BY <1>1, MountBegins, NothingListed
  <2> QED
    BY <2>1, <2>2 DEF ListInv
<1>2. CASE Call /\ ~Mount
  BY <1>2, ListInvCall
<1>3. CASE ClientSend \/ ClientRequest
  BY <1>3, ListInvAsks
<1>4. CASE ClientReceive /\ link'
  BY <1>4, ListInvReply
<1>5. CASE ServerSend \/ UNCHANGED vars
  <2>1. UNCHANGED <<call, todo, awaiting, handle, toClient, listing, link>>
    BY <1>5 DEF ServerSend, vars, clientVars, linkVars, serverVars
  <2>2. (StatDue' <=> StatDue) /\ \A h : IsDir(h)' <=> IsDir(h)
    BY <2>1 DEF StatDue, IsDir
  <2>3. (StartsAtFirst' <=> StartsAtFirst) /\ (NameIsNext' <=> NameIsNext)
    BY <2>1 DEF StartsAtFirst, NameIsNext, Opened, Replied
  <2> QED
    BY <2>1, <2>2, <2>3, ListInvSame DEF ListInv
<1>6. CASE ~link' \/ ServerClose \/ Goodbye \/ Drop
  BY <1>6 DEF ServerClose, Goodbye, Drop, ListInv
<1>7. CASE ServerStep /\ ~ServerSend /\ ~ServerClose /\ ~Goodbye /\ link'
  <2>1. ASSUME NEW c, Receiving(c), c \notin Listings \union {"FILE_OPENDIR"}, UNCHANGED listing
        PROVE  ListInv'
    <3>1. \A k : Replied(k)' <=> k = c
      BY <1>7, <2>1, Answers
    <3>2. StartsAtFirst' /\ NameIsNext'
      BY <2>1, <3>1 DEF StartsAtFirst, NameIsNext, Opened, Listings
    <3> QED
      BY <1>7, <2>1, <3>2, ListInvAnswer DEF Listings
  <2>2. CASE Handshake \/ LogText \/ FileTell \/ FileStat
    BY <2>1, <2>2 DEF Handshake, LogText, FileTell, FileStat, Answer, Listings, serverVars
  <2>3. CASE FileRead \/ FileWrite \/ FileSeek \/ FileSync \/ FileClose
    BY <2>1, <2>3 DEF FileRead, FileWrite, FileSeek, FileSync, FileClose, ServeStream, Listings
  <2>4. CASE FileCreate \/ FileDelete \/ FileRename \/ FileCreateDir
    BY <2>1, <2>4 DEF FileCreate, FileDelete, FileRename, FileCreateDir, ServeDisk, Listings, serverVars
  <2>5. CASE FileOpen
    BY <2>1, <2>5 DEF FileOpen, Listings
  <2>6. CASE FileNextDirPath
    BY <1>7, <2>6, ListInvPath
  <2>7. CASE FileNextDirStat
    BY <1>7, <2>7, ListInvStat
  <2>8. CASE FileOpenDir \/ FileCloseDir
    BY <1>7, <2>8, ListInvOpens
  <2> QED
    BY <1>7, <2>2, <2>3, <2>4, <2>5, <2>6, <2>7, <2>8 DEF ServerStep
<1> QED
  BY <1>1, <1>2, <1>3, <1>4, <1>5, <1>6, <1>7 DEF Next, ClientStep

-----------------------------------------------------------------------------
(* The theorems about descriptors and directories.                          *)

(* It holds at the start, when nothing is open. *)
LEMMA FilesInvInit == Init => FilesInv
<1> SUFFICES ASSUME Init PROVE FilesInv
  OBVIOUS
<1>1. CallInv
  BY CallInvInit
<1>2. ~link /\ ~serving /\ call = Idle /\ todo = <<>> /\ awaiting = Unset
      /\ \A f \in Fds : stream[f] = Unset /\ listing[f] = Unset
  BY DEF Init
<1>3. Due = {}
  BY <1>1, <1>2, IdleWaits DEF CallInv
<1>4. RunsInv /\ ServesInv /\ OwnInv /\ ListInv
  BY <1>2, <1>3 DEF RunsInv, ServesInv, OwnInv, ListInv
<1>5. NextDirInv
  BY <1>2 DEF NextDirInv, Idle
<1> QED
  BY <1>1, <1>4, <1>5 DEF FilesInv

(* Every step keeps it. *)
LEMMA FilesInvNext == FourByte = {} /\ FilesInv /\ [Next]_vars => FilesInv'
  BY CallInvNext, RunsInvNext, ServesInvNext, OwnInvNext, NextDirInvNext, ListInvNext DEF FilesInv

(* When no call is in progress nothing is due and nothing has been replied. *)
LEMMA IdleOwns ==
  ASSUME FilesInv
  PROVE  DescriptorAgreement /\ ListingInOrder
<1> SUFFICES ASSUME link, call = Idle PROVE DescriptorAgreement /\ ListingInOrder
  BY DEF DescriptorAgreement, ListingInOrder
<1>1. awaiting = Unset /\ Due = {} /\ Idle.op # "NextDir"
  BY IdleWaits DEF FilesInv, CallInv, Idle
<1>2. \A c \in Commands : ~Replied(c) /\ \A f : ~Opened(c, f)
  BY <1>1, NothingReplied
<1>3. {"FILE_OPEN", "FILE_OPENDIR", "FILE_CLOSE"} \subseteq Commands
  BY DEF Commands
<1>4. \A f : ~Closing(f)
  BY <1>1 DEF Closing, Leaving
<1>5. FdsDiffer /\ Backed /\ Owned
  BY DEF FilesInv, OwnInv
<1>6. DescriptorAgreement
  <2>1. \A f \in Fds : stream[f] # Unset => \E h \in Handles : IsFile(h) /\ handle[h].fd = f
    BY <1>2, <1>3, <1>5 DEF Owned
  <2>2. \A f \in Fds : listing[f] # Unset => \E h \in Handles : IsDir(h) /\ handle[h].fd = f
    BY <1>2, <1>3, <1>4, <1>5 DEF Owned
  <2>3. \A h \in Handles : /\ IsFile(h) => stream[handle[h].fd] # Unset
                           /\ IsDir(h) => listing[handle[h].fd] # Unset
    BY <1>2, <1>3, <1>5 DEF Backed
  <2> QED
    BY <1>5, <2>1, <2>2, <2>3 DEF DescriptorAgreement, FdsDiffer
<1>7. ASSUME NEW h \in Handles, IsDir(h)
      PROVE  LET d == listing[handle[h].fd]
             IN  d # Unset /\ handle[h].seen = SubSeq(d.entries, 1, d.next - 1)
  <2>1. Seen(h) /\ listing[handle[h].fd] # Unset
    BY <1>5, <1>7 DEF FilesInv, ListInv, Backed
  <2>2. ~StatDue
    BY <1>1 DEF StatDue
  <2> QED
    BY <2>1, <2>2 DEF Seen, Given
<1>8. ListingInOrder
  BY <1>7 DEF ListingInOrder
<1> QED
  BY <1>6, <1>8

(* Between calls, every stream and directory the server keeps open belongs to
   exactly one FileInfo of the file module, and every FileInfo has one,
   however the opens, the closes and the calls on other files follow each
   other and whenever the connection is lost. *)
THEOREM DescriptorsAgree == FourByte = {} => (Spec => []DescriptorAgreement)
<1> SUFFICES ASSUME FourByte = {} PROVE Spec => []DescriptorAgreement
  OBVIOUS
<1>1. FilesInv /\ [Next]_vars => FilesInv'
  BY FilesInvNext
<1>2. FilesInv => DescriptorAgreement
  BY IdleOwns
<1> QED
  BY FilesInvInit, <1>1, <1>2, PTL DEF Spec

(* NextDir gives the entries of the directory in order, each of them once,
   although the name and the stat are two commands. *)
THEOREM ListingsInOrder == FourByte = {} => (Spec => []ListingInOrder)
<1> SUFFICES ASSUME FourByte = {} PROVE Spec => []ListingInOrder
  OBVIOUS
<1>1. FilesInv /\ [Next]_vars => FilesInv'
  BY FilesInvNext
<1>2. FilesInv => ListingInOrder
  BY IdleOwns
<1> QED
  BY FilesInvInit, <1>1, <1>2, PTL DEF Spec

-----------------------------------------------------------------------------
(* What is written is kept, as long as nothing is read: only a read fails a  *)
(* stream, and a failed stream acknowledges bytes it does not store.         *)

(* No stream has failed. *)
StreamsSound == link => \A f \in Fds : stream[f] # Unset => stream[f].ok

(* Only a read leaves a stream failed, and no command but FILE_READ is one. *)
LEMMA StreamsSoundNext ==
  ASSUME "Read" \notin Ops, CallInv, RunsInv, ServesInv, StreamsSound, [Next]_vars
  PROVE  StreamsSound'
<1>1. CASE Mount
  BY <1>1, MountBegins DEF ServesInv, StreamsSound
<1>2. CASE UNCHANGED stream /\ (link' => link)
  BY <1>2 DEF StreamsSound
<1>3. CASE Call /\ ~Mount
  BY <1>2, <1>3, CallFrame DEF linkVars, serverVars
<1>4. CASE ClientStep /\ link'
  <2>1. UNCHANGED stream /\ link
    BY <1>4, DueAfterSend, DueAfterRequest, Replies DEF ClientStep, serverVars
  <2> QED
    BY <1>2, <2>1
<1>5. CASE ServerSend \/ UNCHANGED vars
  BY <1>2, <1>5 DEF ServerSend, vars, linkVars, serverVars, clientVars
<1>6. CASE ~link' \/ ServerClose \/ Goodbye \/ Drop
  BY <1>6 DEF ServerClose, Goodbye, Drop, StreamsSound
<1>7. CASE ServerStep /\ ~ServerSend /\ ~ServerClose /\ ~Goodbye /\ link'
  <2>0. link' => link
    BY <1>7, CommandTakesFromQueue
  <2>l. link /\ \A f \in Fds : stream[f] # Unset => stream[f].ok
    BY <1>7, <2>0 DEF StreamsSound
  <2>1. CASE Handshake \/ LogText \/ FileTell \/ FileStat
    BY <1>2, <2>0, <2>1 DEF Handshake, LogText, FileTell, FileStat, Answer, serverVars
  <2>2. CASE FileCreate \/ FileDelete \/ FileRename \/ FileCreateDir
    BY <1>2, <2>0, <2>2 DEF FileCreate, FileDelete, FileRename, FileCreateDir, ServeDisk, serverVars
  <2>3. CASE FileOpenDir \/ FileCloseDir \/ FileNextDirStat \/ FileNextDirPath
    BY <1>2, <2>0, <2>3 DEF FileOpenDir, FileCloseDir, FileNextDirStat, FileNextDirPath, ServeListing, serverVars
  <2>4. CASE FileRead
    <3>1. "FILE_READ" \in Due
      BY <1>7, <2>4, Answers DEF FileRead, ServeStream
    <3>2. "FILE_READ" \in CommandsOf(call.op)
      BY <3>1 DEF RunsInv
    <3>3. call.op = "Read"
      BY <3>2 DEF CommandsOf, Listings
    <3>4. call # Idle
      BY <3>3 DEF Idle
    <3> QED
      BY <3>3, <3>4 DEF RunsInv
  <2>5. CASE FileWrite \/ FileSeek \/ FileSync
    <3>1. CASE ~FileOpened
      BY <1>2, <2>0, <2>5, <3>1 DEF FileWrite, FileSeek, FileSync
    <3>2. CASE FileOpened
      <4>1. stream[fd].ok = TRUE
        BY <2>l, <3>2 DEF FileOpened, CallInv, ServerInv, Stream
      <4>2. UNCHANGED stream \/ \E p \in Nat : Moves(p, TRUE)
        BY <2>5, <3>2, <4>1, SeekMoves, WriteMoves, SyncMoves
      <4>3. ASSUME NEW p \in Nat, Moves(p, TRUE) PROVE StreamsSound'
        BY <2>l, <3>2, <4>3, MovesAre DEF StreamsSound, CallInv
      <4> QED
        BY <1>2, <2>0, <4>2, <4>3
    <3> QED
      BY <3>1, <3>2
  <2>6. CASE FileOpen
    <3>1. CASE UNCHANGED stream
      BY <1>2, <2>0, <3>1
    <3>2. CASE ~UNCHANGED stream
      BY <2>l, <2>6, <3>2, FilePut DEF StreamsSound
    <3> QED
      BY <3>1, <3>2
  <2>7. CASE FileClose
    <3>1. stream' = IF FileOpened THEN Erased ELSE stream
      BY <2>7 DEF FileClose
    <3>2. \A f \in Fds : stream'[f] \in {stream[f], Unset}
      BY <3>1 DEF Erased, CallInv, ServerInv
    <3> QED
      BY <2>l, <3>2 DEF StreamsSound
  <2> QED
    BY <1>7, <2>1, <2>2, <2>3, <2>4, <2>5, <2>6, <2>7 DEF ServerStep
<1> QED
  BY <1>1, <1>3, <1>4, <1>5, <1>6, <1>7 DEF Next, ClientStep

(* Descriptors from nextFd on are not in use, whether the connection is up or not. *)
StreamsBelow == \A f \in Fds : f >= nextFd => stream[f] = Unset

(* The stream of a descriptor that is in use stays what it is when another is opened. *)
LEMMA OpenElsewhere ==
  ASSUME CallInv, StreamsBelow, FileOpen, NEW f \in Fds, stream[f] # Unset
  PROVE  stream'[f] = stream[f]
<1>1. nextFd \in 1..(MaxFd + 1) /\ MaxFd \in Nat /\ f \in Nat
  BY RiiFSAssumption DEF CallInv, ServerInv, Fds
<1>2. nextFd \in Fds => stream[nextFd] = Unset
  BY <1>1 DEF StreamsBelow
<1> QED
  BY <1>2, FilePut

(* A server that keeps its buffers: no step takes bytes from the buffer of a
   stream and leaves them out of its file. *)
LEMMA BuffersKept ==
  ASSUME CallInv, StreamsBelow, [Next]_vars, NEW f \in Fds, stream[f] # Unset, stream[f].tail > 0
  PROVE  BufferKept(f)
<1> SUFFICES ASSUME stream'[f] # stream[f] PROVE size'[stream[f].node] >= Grown(stream[f])
  BY DEF BufferKept
<1>1. /\ size \in [Inodes -> Nat] /\ stream \in [Fds -> Stream \union {Unset}]
      /\ stream[f].node \in Inodes /\ Grown(stream[f]) \in Nat
  BY GrownIs DEF CallInv, ServerInv
<1>2. ~(Mount \/ UNCHANGED stream)
  BY DEF Mount
<1>3. ~(Call /\ ~Mount)
  BY CallFrame DEF serverVars
<1>4. ~ClientStep
  BY DueAfterSend, DueAfterRequest, ReturnedIs DEF ClientStep, ClientSend, ClientRequest, ClientReceive, serverVars
<1>5. ~(ServerSend \/ Drop \/ UNCHANGED vars)
  BY DEF ServerSend, Drop, vars, serverVars
<1>6. ~(Goodbye \/ Handshake \/ LogText \/ FileTell \/ FileStat)
  BY DEF Goodbye, Handshake, LogText, FileTell, FileStat, Answer, serverVars
<1>7. ~(FileCreate \/ FileDelete \/ FileRename \/ FileCreateDir)
  BY DEF FileCreate, FileDelete, FileRename, FileCreateDir, ServeDisk, serverVars
<1>8. ~(FileOpenDir \/ FileCloseDir \/ FileNextDirStat \/ FileNextDirPath)
  BY DEF FileOpenDir, FileCloseDir, FileNextDirStat, FileNextDirPath, ServeListing, serverVars
<1>9. ~FileOpen
  BY OpenElsewhere
<1>10. CASE ServerClose
  <2>1. ~Deleted
    BY DEF Deleted
  <2>2. PICK g \in Fds : /\ stream[g] # Unset /\ stream' = [stream EXCEPT ![g] = Unset]
                          /\ size' = [size EXCEPT ![stream[g].node] = Grown(stream[g])]
    BY <1>10, <2>1 DEF ServerClose, CloseNext
  <2>3. f = g
    BY <1>1, <2>2
  <2> QED
    BY <1>1, <2>2, <2>3
<1>11. CASE FileRead \/ FileWrite \/ FileSeek \/ FileSync \/ FileClose
  <2>1. FileOpened
    BY <1>11 DEF FileRead, FileWrite, FileSeek, FileSync, FileClose
  <2>2. f = fd
    <3>1. FileRead \/ FileWrite \/ FileSeek \/ FileSync => f = fd
      BY StreamsKept
    <3>2. FileClose => f = fd
      BY <1>1, <2>1 DEF FileClose, Erased
    <3> QED
      BY <1>11, <3>1, <3>2
  <2>3. CASE Flush
    BY <1>1, <2>1, <2>2, <2>3 DEF Flush
  <2>4. CASE ~Flush
    <3> DEFINE s == stream[fd]
               end == DataLen[options["DATA"]] + (IF s.app THEN Grown(s) ELSE s.pos)
    <3>1. FileWrite
      BY <1>11, <2>4 DEF FileRead, FileSeek, FileSync, FileClose
    <3>2. size' = [size EXCEPT ![s.node] = IF end > Grown(s) THEN end ELSE Grown(s)]
      BY <2>4, <3>1 DEF FileWrite
    <3>3. end \in Int
      <4>1. DataLen[options["DATA"]] \in Nat
        BY <3>1, CommandOptions, UsesAre, LegalAre, RiiFSAssumption DEF FileWrite, ServeStream
      <4>2. s.pos \in Nat
        BY <1>1, <2>1, <2>2 DEF Stream
      <4> QED
        BY <1>1, <2>2, <4>1, <4>2
    <3> HIDE DEF end
    <3> QED
      BY <1>1, <2>2, <3>2, <3>3
  <2> QED
    BY <2>3, <2>4
<1> QED
  BY <1>2, <1>3, <1>4, <1>5, <1>6, <1>7, <1>8, <1>9, <1>10, <1>11 DEF Next, ServerStep

(* Descriptors are given in order, so that none from nextFd on comes into use. *)
LEMMA StreamsBelowNext ==
  ASSUME CallInv, ServesInv, StreamsBelow, [Next]_vars
  PROVE  StreamsBelow'
<1>1. CASE UNCHANGED <<stream, nextFd>>
  BY <1>1 DEF StreamsBelow
<1>2. nextFd \in 1..(MaxFd + 1) /\ MaxFd \in Nat /\ \A f \in Fds : f \in Nat
      /\ stream \in [Fds -> Stream \union {Unset}]
  BY RiiFSAssumption DEF CallInv, ServerInv, Fds
<1>3. CASE Mount
  <2>1. ~serving /\ UNCHANGED stream
    BY <1>3 DEF Mount
  <2> QED
    BY <2>1 DEF ServesInv, StreamsBelow
<1>4. CASE Call /\ ~Mount
  BY <1>1, <1>4, CallFrame DEF serverVars
<1>5. CASE ClientStep
  BY <1>1, <1>5 DEF ClientStep, ClientSend, ClientRequest, ClientReceive, serverVars
<1>6. CASE ServerSend \/ Drop \/ UNCHANGED vars
  BY <1>1, <1>6 DEF ServerSend, Drop, vars, serverVars
<1>7. CASE Goodbye \/ Handshake \/ LogText \/ FileTell \/ FileStat \/ FileNextDirPath
  BY <1>1, <1>7 DEF Goodbye, Handshake, LogText, FileTell, FileStat, FileNextDirPath, Answer, serverVars
<1>8. CASE FileCreate \/ FileDelete \/ FileRename \/ FileCreateDir
  BY <1>1, <1>8 DEF FileCreate, FileDelete, FileRename, FileCreateDir, ServeDisk, serverVars
<1>9. CASE FileOpenDir \/ FileCloseDir \/ FileNextDirStat
  <2>1. UNCHANGED stream /\ nextFd' \in {nextFd, nextFd + 1}
    BY <1>9 DEF FileOpenDir, FileCloseDir, FileNextDirStat, ServeListing
  <2> QED
    BY <1>2, <2>1 DEF StreamsBelow
<1>10. CASE FileOpen
  <2>1. CASE UNCHANGED <<stream, nextFd>>
    BY <1>1, <2>1
  <2>2. CASE nextFd' = nextFd + 1 /\ \A f \in Fds : f # nextFd => stream'[f] = stream[f]
    <3> SUFFICES ASSUME NEW f \in Fds, f >= nextFd + 1 PROVE stream'[f] = Unset
      BY <2>2 DEF StreamsBelow
    <3>1. f # nextFd /\ f >= nextFd
      BY <1>2
    <3> QED
      BY <2>2, <3>1 DEF StreamsBelow
  <2> QED
    BY <1>10, <2>1, <2>2, FilePut
<1>11. CASE UNCHANGED nextFd /\ \A f \in Fds : stream[f] = Unset => stream'[f] = Unset
  BY <1>11 DEF StreamsBelow
<1>12. CASE FileRead \/ FileWrite \/ FileSeek \/ FileSync
  BY <1>11, <1>12, StreamsKept DEF SameServer
<1>13. CASE FileClose
  <2>1. UNCHANGED nextFd /\ stream' \in {stream, Erased}
    BY <1>13 DEF FileClose, ServeStream
  <2>2. \A f \in Fds : stream[f] = Unset => stream'[f] = Unset
    BY <1>2, <2>1 DEF Erased
  <2> QED
    BY <1>11, <2>1, <2>2
<1>14. CASE ServerClose
  <2>1. UNCHANGED nextFd
    BY <1>14 DEF ServerClose
  <2>2. \A f \in Fds : stream[f] = Unset => stream'[f] = Unset
    BY <1>2, <1>14 DEF ServerClose, CloseNext, Deleted
  <2> QED
    BY <1>11, <2>1, <2>2
<1> QED
  BY <1>3, <1>4, <1>5, <1>6, <1>7, <1>8, <1>9, <1>10, <1>12, <1>13, <1>14 DEF Next, ServerStep

(* An answer is given by the command it is the answer to. *)
LEMMA CommandAnswers ==
  ASSUME CallInv, Next, NEW command, Answering(command)
  PROVE  /\ ServerStep /\ link
         /\ \A c : Receiving(c) => c = command
         /\ \A ret : Return(ret) => toClient'[1].ret = ret
<1>0. toClient = <<>> /\ toClient' # <<>> /\ toClient'[1].command = command
  BY DEF Answering
<1>1. ServerStep /\ ~ServerSend /\ ~ServerClose
  <2>1. Mount => toClient' = <<>>
    BY DEF Mount
  <2>2. Call /\ ~Mount => toClient' = toClient
    BY CallFrame DEF linkVars
  <2>3. ClientStep => toClient' = <<>>
    BY <1>0, DueAfterSend, DueAfterRequest, ReturnedIs DEF ClientStep
  <2>4. ServerSend \/ ServerClose \/ Drop => toClient' \in {toClient, <<>>}
    BY DEF ServerSend, ServerClose, Drop
  <2> QED
    BY <1>0, <2>1, <2>2, <2>3, <2>4 DEF Next
<1>2. ASSUME NEW ret, NEW entry, ReturnEntry(ret, entry)
      PROVE  link /\ Head(toServer).opt = command /\ toClient'[1].ret = ret
  <2> DEFINE r == [command |-> Head(toServer).opt, ret |-> ret, entry |-> entry]
  <2>1. r.command = Head(toServer).opt /\ r.ret = ret
    OBVIOUS
  <2>2. link /\ toClient' = <<>> \o <<r>>
    BY <1>0, <1>2 DEF ReturnEntry, Reply
  <2> HIDE DEF r
  <2>3. toClient'[1] = r
    BY <2>2
  <2> QED
    BY <1>0, <2>1, <2>2, <2>3
<1>3. link /\ Head(toServer).opt = command
  BY <1>1, <1>2, CommandReplies
<1>4. \A c : Receiving(c) => c = command
  BY <1>3 DEF Receiving, Receive
<1>5. \A ret : Return(ret) => toClient'[1].ret = ret
  BY <1>2 DEF Return
<1> QED
  BY <1>1, <1>3, <1>4, <1>5

(* An answer that a write was made, or a sync, is given by that command. *)
LEMMA StreamAnswers ==
  ASSUME CallInv, Next, NEW command \in {"FILE_WRITE", "FILE_SYNC"}, Answering(command)
  PROVE  IF command = "FILE_WRITE" THEN FileWrite ELSE FileSync
<1>1. ServerStep /\ \A c : Receiving(c) => c = command
  BY CommandAnswers
<1>2. ~(ServerSend \/ ServerClose)
  BY DEF ServerSend, ServerClose, CloseNext, Deleted, Answering
<1>3. ~(Handshake \/ LogText \/ FileTell \/ FileStat \/ Goodbye)
  BY <1>1 DEF Handshake, LogText, FileTell, FileStat, Answer, Goodbye
<1>4. /\ ~(FileRead \/ FileSeek \/ FileClose)
      /\ FileWrite => command = "FILE_WRITE"
      /\ FileSync => command = "FILE_SYNC"
  BY <1>1 DEF FileRead, FileSeek, FileClose, FileWrite, FileSync, ServeStream
<1>5. ~(FileCreate \/ FileDelete \/ FileRename \/ FileCreateDir)
  BY <1>1 DEF FileCreate, FileDelete, FileRename, FileCreateDir, ServeDisk
<1>6. ~(FileOpenDir \/ FileCloseDir \/ FileNextDirStat \/ FileNextDirPath \/ FileOpen)
  BY <1>1 DEF FileOpenDir, FileCloseDir, FileNextDirStat, FileNextDirPath, ServeListing, FileOpen
<1> QED
  BY <1>1, <1>2, <1>3, <1>4, <1>5, <1>6 DEF ServerStep

(* A write to a sound stream keeps what it returns in the stream's buffer, or
   has it in the file. *)
LEMMA WriteKeeps ==
  ASSUME CallInv, StreamsSound, Next, Answering("FILE_WRITE")
  PROVE  fd \in Fds /\ WriteTaken(fd)
<1> DEFINE length == DataLen[options["DATA"]]
           s == stream[fd]
           end == length + (IF s.app THEN Grown(s) ELSE s.pos)
           stores == FileOpened /\ s.ok /\ s.out
<1>1. FileWrite
  BY StreamAnswers
<1>2. /\ Return(IF stores \/ (FileOpened /\ ~s.ok) THEN length ELSE 0)
      /\ \/ ~stores
         \/ stream' = [stream EXCEPT ![fd].pos = @ + length, ![fd].tail = length]
         \/ /\ stream' = [stream EXCEPT ![fd].pos = end, ![fd].tail = 0]
            /\ size' = [size EXCEPT ![s.node] = IF end > Grown(s) THEN end ELSE Grown(s)]
  BY <1>1 DEF FileWrite
<1>3. link /\ \A ret : Return(ret) => toClient'[1].ret = ret
  BY CommandAnswers
<1>4. FileOpened => s.ok
  BY <1>3 DEF StreamsSound, FileOpened
<1>5. stores /\ toClient'[1].ret = length
  <2>1. toClient'[1].ret = IF stores \/ (FileOpened /\ ~s.ok) THEN length ELSE 0
    BY <1>2, <1>3
  <2>2. toClient'[1].ret > 0
    BY DEF Answering
  <2> HIDE DEF length
  <2> QED
    BY <1>4, <2>1, <2>2
<1>6. s \in Stream /\ fd \in Fds /\ stream \in [Fds -> Stream \union {Unset}]
      /\ size \in [Inodes -> Nat] /\ Grown(s) \in Nat
  BY <1>5, GrownIs DEF CallInv, ServerInv, FileOpened
<1>7. length \in Nat
  BY <1>1, CommandOptions, UsesAre, LegalAre, RiiFSAssumption DEF FileWrite, ServeStream
<1>8. s.node \in Inodes /\ s.pos \in Nat
  BY <1>6 DEF Stream
<1>9. end \in Nat /\ end = toClient'[1].ret + (IF s.app THEN Grown(s) ELSE s.pos)
  BY <1>5, <1>6, <1>7, <1>8
<1> HIDE DEF length
<1>10. CASE stream' = [stream EXCEPT ![fd].pos = @ + length, ![fd].tail = length]
  <2>1. stream'[fd] = [s EXCEPT !.pos = @ + length, !.tail = length]
    BY <1>6, <1>10 DEF Stream
  <2> QED
    BY <1>5, <1>6, <2>1 DEF WriteTaken
<1>11. CASE /\ stream' = [stream EXCEPT ![fd].pos = end, ![fd].tail = 0]
            /\ size' = [size EXCEPT ![s.node] = IF end > Grown(s) THEN end ELSE Grown(s)]
  <2> HIDE DEF end
  <2>1. stream'[fd] = [s EXCEPT !.pos = end, !.tail = 0]
    BY <1>6, <1>11 DEF Stream
  <2>2. size'[s.node] >= end
    BY <1>6, <1>8, <1>9, <1>11
  <2> QED
    BY <1>6, <1>9, <2>1, <2>2 DEF WriteTaken
<1> QED
  BY <1>2, <1>5, <1>10, <1>11

(* An acknowledged sync leaves nothing in the buffer. *)
LEMMA SyncEmpties ==
  ASSUME CallInv, Next, Answering("FILE_SYNC")
  PROVE  stream'[fd].tail = 0
<1>1. FileSync
  BY StreamAnswers
<1>2. FileOpened
  <2>1. \A ret : Return(ret) => toClient'[1].ret = ret
    BY CommandAnswers
  <2>2. toClient'[1].ret = IF FileOpened THEN 1 ELSE -1
    BY <1>1, <2>1 DEF FileSync
  <2> QED
    BY <2>2 DEF Answering
<1>3. stream' = Flushed
  BY <1>1, <1>2 DEF FileSync
<1>4. stream[fd] \in Stream /\ fd \in Fds /\ stream \in [Fds -> Stream \union {Unset}]
  BY <1>2 DEF CallInv, ServerInv, FileOpened
<1> QED
  BY <1>3, <1>4 DEF Flushed, Stream

(* What the server says it has written is in the stream's buffer or in the file,
   every step keeps what is in a buffer or has it in the file, and a sync leaves
   nothing in the buffer: for every sequence of opens, writes, seeks, syncs, closes
   and losses of the connection, but not with reads, which RiiFS_update shows to
   fail a stream for the write after them. *)
THEOREM WritesAreKept ==
  FourByte = {} /\ "Read" \notin Ops => (Spec => AcknowledgedWritesKept)
<1> SUFFICES ASSUME FourByte = {}, "Read" \notin Ops PROVE Spec => AcknowledgedWritesKept
  OBVIOUS
<1> DEFINE Inv == FilesInv /\ StreamsSound /\ StreamsBelow
           Kept == /\ Answering("FILE_WRITE") => WriteTaken(fd)
                   /\ \A f \in Fds : stream[f] # Unset /\ stream[f].tail > 0 => BufferKept(f)
                   /\ Answering("FILE_SYNC") => stream'[fd].tail = 0
<1>1. Init => Inv
  BY FilesInvInit DEF Init, StreamsSound, StreamsBelow
<1>2. Inv /\ [Next]_vars => Inv'
  BY FilesInvNext, StreamsSoundNext, StreamsBelowNext DEF FilesInv
<1>3. Inv /\ [Next]_vars => [Kept]_vars
  <2>1. SUFFICES ASSUME Inv, Next PROVE Kept
    OBVIOUS
  <2> QED
    BY <2>1, WriteKeeps, SyncEmpties, BuffersKept DEF FilesInv
<1> QED
  BY <1>1, <1>2, <1>3, PTL DEF Spec, AcknowledgedWritesKept

-----------------------------------------------------------------------------
(* Transfers and the seeks before them.                                     *)

(* A read or a write of file h begins. *)
Transfer(h) == (\E length \in Lengths : Read(h, length)) \/ (\E data \in Data : Write(h, data))

(* Only a read and a write begin a transfer, and a seek begins with its command. *)
LEMMA CallOps ==
  ASSUME CallInv, Call, ~Mount
  PROVE  /\ call'.op \in {"Read", "Write"} => \E h \in Handles : Transfer(h)
         /\ call'.op = "Seek" => OnlyRuns(todo', {"FILE_SEEK"})
<1>1. call = Idle
  BY CallFrame
<1>2. \A op, h, steps : Start(op, h, steps) => call'.op = op /\ todo' = steps
  BY DEF Start, Begin
<1>3. \A op, h, steps : Begin(op, h, steps) => call'.op = op /\ todo' = steps
  BY DEF Begin
<1>4. \A op : Local(op) => call'.op = "Idle"
  BY <1>1 DEF Local, Idle
<1>5. ASSUME Unmount \/ CheckPhysical \/ IdleTick
      PROVE  \E op \in {"Unmount", "CheckPhysical", "IdleTick"} : \E h, steps : Start(op, h, steps)
  <2>1. IdleTick => \E h, steps : Start("IdleTick", h, steps)
    BY Zenon DEF IdleTick
  <2>2. Unmount => \E h, steps : Start("Unmount", h, steps)
    BY Zenon DEF Unmount
  <2>3. CheckPhysical => \E h, steps : Start("CheckPhysical", h, steps)
    BY Zenon DEF CheckPhysical
  <2> QED
    BY <1>5, <2>1, <2>2, <2>3
<1>6. ASSUME NEW p, \/ Stat(p) \/ CreateFile(p) \/ Delete(p) \/ CreateDir(p)
                    \/ \E q \in Paths : Rename(p, q)
      PROVE  \E op \in {"Stat", "CreateFile", "Delete", "CreateDir", "Rename"} :
               \E h, steps : Start(op, h, steps)
  <2>1. (Stat(p) => \E h, steps : Start("Stat", h, steps))
        /\ (CreateFile(p) => \E h, steps : Start("CreateFile", h, steps))
    BY Zenon DEF Stat, CreateFile
  <2>2. (Delete(p) => \E h, steps : Start("Delete", h, steps))
        /\ (CreateDir(p) => \E h, steps : Start("CreateDir", h, steps))
    BY Zenon DEF Delete, CreateDir
  <2>3. (\E q \in Paths : Rename(p, q)) => \E h, steps : Start("Rename", h, steps)
    BY Zenon DEF Rename
  <2> QED
    BY <1>6, <2>1, <2>2, <2>3
<1>7. ASSUME NEW h, \/ \E p \in Paths, mode \in Modes : Open(h, p, mode)
                    \/ Sync(h) \/ Close(h) \/ NextDir(h)
                    \/ \E p \in Paths \union {Root} : OpenDir(h, p)
      PROVE  \E op \in {"Open", "Sync", "Close", "NextDir", "OpenDir"} :
               \E g, steps : Start(op, g, steps)
  <2>1. (\E p \in Paths, mode \in Modes : Open(h, p, mode)) => \E g, steps : Start("Open", g, steps)
    BY Zenon DEF Open
  <2>2. (Sync(h) => \E g, steps : Start("Sync", g, steps))
        /\ (Close(h) => \E g, steps : Start("Close", g, steps))
    BY Zenon DEF Sync, Close
  <2>3. (NextDir(h) => \E g, steps : Start("NextDir", g, steps))
    BY Zenon DEF NextDir
  <2>4. (\E p \in Paths \union {Root} : OpenDir(h, p)) => \E g, steps : Start("OpenDir", g, steps)
    BY Zenon DEF OpenDir
  <2> QED
    BY <1>7, <2>1, <2>2, <2>3, <2>4
<1>8. ASSUME NEW h, CloseDir(h) PROVE call'.op = "CloseDir"
  BY <1>3, <1>8 DEF CloseDir
<1>9. ASSUME NEW text, Log(text) PROVE call'.op = "Idle"
  BY <1>4, <1>9 DEF Log
<1>10. ASSUME NEW h \in Handles, NEW where, NEW whence, Seek(h, where, whence)
       PROVE  call'.op = "Idle" \/ (call'.op = "Seek" /\ OnlyRuns(todo', {"FILE_SEEK"}))
  <2>1. CASE \E w : SeekLocally(h, w)
    BY <1>4, <2>1 DEF SeekLocally
  <2>2. CASE Start("Seek", h, RiiSeek(handle[h], where, "END"))
    <3>1. call'.op = "Seek" /\ todo' = RiiSeek(handle[h], where, "END")
      BY <1>2, <2>2
    <3> QED
      BY <3>1, RunsSeek
  <2> QED
    BY <1>10, <2>1, <2>2 DEF Seek
<1>11. \/ \E h \in Handles : Transfer(h)
       \/ call'.op \notin {"Read", "Write", "Seek"}
       \/ call'.op = "Seek" /\ OnlyRuns(todo', {"FILE_SEEK"})
  BY <1>2, <1>5, <1>6, <1>7, <1>8, <1>9, <1>10 DEF Call, Transfer
<1>12. ASSUME NEW h \in Handles, Transfer(h) PROVE call'.op \in {"Read", "Write"}
  BY <1>2, <1>12 DEF Transfer, Read, Write
<1> QED
  BY <1>11, <1>12

(* What is left of a program ends as the program does. *)
LEMMA LastStays ==
  ASSUME Program(todo), todo # <<>>, todo' = Tail(todo),
         \A i \in Requests(todo) : todo[i].opt \in Transfers => i = Len(todo)
  PROVE  \A i \in Requests(todo') : todo'[i].opt \in Transfers => i = Len(todo')
<1>1. Queue(todo)
  BY ProgramQueue
<1>2. /\ Len(todo') = Len(todo) - 1 /\ Len(todo) \in Nat
      /\ \A i \in Requests(todo') : /\ i \in Nat /\ i + 1 \in Requests(todo)
                                    /\ todo'[i] = todo[i + 1]
  BY <1>1, QueueLeft
<1>3. ASSUME NEW i \in Requests(todo'), todo'[i].opt \in Transfers PROVE i = Len(todo')
  <2>1. i + 1 = Len(todo)
    BY <1>2, <1>3
  <2> QED
    BY <1>2, <2>1
<1> QED
  BY <1>3

(* The program of a transfer: with the seek that is pending, or without. *)
LEMMA TransferProgram ==
  ASSUME CallInv, Call, ~Mount, NEW h \in Handles, Transfer(h)
  PROVE  TransferInv'
<1>0. /\ call' # Idle /\ handle' = handle /\ call'.h = h /\ awaiting' = Unset
      /\ call'.op \in {"Read", "Write"}
      /\ call'.args = {s \in ToSet(todo') : s.act = "SEND"}
      /\ \E o \in {"LENGTH", "DATA"}, c \in Transfers : \E v :
           todo' = DirtySeek(handle[h]) \o <<Send("FILE", handle[h].fd), Send(o, v), Receive(c)>>
  <2>1. awaiting' = Unset
    BY CallFrame
  <2>2. ASSUME NEW op \in {"Read", "Write"}, NEW steps, Start(op, h, steps)
        PROVE  /\ call' # Idle /\ handle' = handle /\ call'.h = h /\ call'.op = op /\ todo' = steps
               /\ call'.args = {s \in ToSet(todo') : s.act = "SEND"}
    <3>1. call'.op = op /\ op # "Idle"
      BY <2>2 DEF Start, Begin
    <3> QED
      BY <2>2, <3>1 DEF Start, Begin, Idle
  <2>3. CASE \E length \in Lengths : Read(h, length)
    <3>1. PICK length \in Lengths : Read(h, length)
      BY <2>3
    <3> DEFINE steps == DirtySeek(handle[h]) \o <<Send("FILE", handle[h].fd), Send("LENGTH", length),
                                                  Receive("FILE_READ")>>
    <3>2. Start("Read", h, steps)
      BY <3>1 DEF Read
    <3>3. todo' = steps
      BY <2>2, <3>2
    <3>4. "FILE_READ" \in Transfers
      BY DEF Transfers
    <3>5. \E o \in {"LENGTH", "DATA"}, c \in Transfers : \E v :
           todo' = DirtySeek(handle[h]) \o <<Send("FILE", handle[h].fd), Send(o, v), Receive(c)>>
      BY <3>3, <3>4
    <3> HIDE DEF steps
    <3> QED
      BY <2>1, <2>2, <3>2, <3>5
  <2>4. CASE \E data \in Data : Write(h, data)
    <3>1. PICK data \in Data : Write(h, data)
      BY <2>4
    <3> DEFINE steps == DirtySeek(handle[h]) \o <<Send("FILE", handle[h].fd), Send("DATA", data),
                                                  Receive("FILE_WRITE")>>
    <3>2. Start("Write", h, steps)
      BY <3>1 DEF Write
    <3>3. todo' = steps
      BY <2>2, <3>2
    <3>4. "FILE_WRITE" \in Transfers
      BY DEF Transfers
    <3>5. \E o \in {"LENGTH", "DATA"}, c \in Transfers : \E v :
           todo' = DirtySeek(handle[h]) \o <<Send("FILE", handle[h].fd), Send(o, v), Receive(c)>>
      BY <3>3, <3>4
    <3> HIDE DEF steps
    <3> QED
      BY <2>1, <2>2, <3>2, <3>5
  <2> QED
    BY <2>3, <2>4 DEF Transfer
<1>1. PICK o \in {"LENGTH", "DATA"} : \E c \in Transfers : \E v :
        todo' = DirtySeek(handle[h]) \o <<Send("FILE", handle[h].fd), Send(o, v), Receive(c)>>
  BY <1>0
<1>2. PICK c \in Transfers : \E v :
        todo' = DirtySeek(handle[h]) \o <<Send("FILE", handle[h].fd), Send(o, v), Receive(c)>>
  BY <1>1
<1>3. PICK v :
        todo' = DirtySeek(handle[h]) \o <<Send("FILE", handle[h].fd), Send(o, v), Receive(c)>>
  BY <1>2
<1>4. c # "FILE_SEEK" /\ Transfers \subseteq Commands /\ o \notin {"FILE", "WHENCE", "WHERE"}
  BY DEF Transfers, Commands
<1>5. awaiting' \notin Transfers /\ call'.op # "Seek"
  BY <1>0, <1>4, RiiFSAssumption
<1>6. CASE ~handle[h].dirty
  <2> DEFINE p == <<Send("FILE", handle[h].fd), Send(o, v), Receive(c)>>
  <2>1. todo' = p
    BY <1>3, <1>6 DEF DirtySeek
  <2>2. DOMAIN p = 1..3 /\ Len(p) = 3 /\ p[1].act = "SEND" /\ p[2].act = "SEND" /\ p[3] = Receive(c)
    BY DEF Send
  <2> HIDE DEF p
  <2>3. Requests(p) = {3} /\ p[3].opt = c
    BY <2>2 DEF Requests, Receive
  <2>4. Due' = {c}
    BY <1>0, <2>1, <2>3 DEF Due
  <2> QED
    BY <1>0, <1>4, <1>5, <1>6, <2>1, <2>2, <2>3, <2>4 DEF TransferInv
<1>7. CASE handle[h].dirty
  <2> DEFINE f == handle[h].fd
             pos == handle[h].pos
             seek == <<Send("FILE", f), Send("WHENCE", "SET"), Send("WHERE", pos), Receive("FILE_SEEK")>>
             t == <<Send("FILE", f), Send(o, v), Receive(c)>>
             p == seek \o t
  <2>1. todo' = p
    BY <1>3, <1>7 DEF DirtySeek, RiiSeek
  <2>2. /\ DOMAIN p = 1..7 /\ Len(p) = 7
        /\ p[1] = Send("FILE", f) /\ p[2] = Send("WHENCE", "SET") /\ p[3] = Send("WHERE", pos)
        /\ p[4] = Receive("FILE_SEEK") /\ p[5] = Send("FILE", f) /\ p[6] = Send(o, v)
        /\ p[7] = Receive(c)
    <3> DEFINE S == {Send("FILE", f), Send("WHENCE", "SET"), Send("WHERE", pos),
                     Receive("FILE_SEEK"), Send(o, v), Receive(c)}
    <3>1. seek \in Seq(S) /\ t \in Seq(S) /\ Len(seek) = 4 /\ Len(t) = 3
      OBVIOUS
    <3>2. /\ Len(p) = 7 /\ p \in Seq(S)
          /\ \A i \in 1..7 : p[i] = IF i <= 4 THEN seek[i] ELSE t[i - 4]
      BY <3>1, ConcatProperties
    <3>3. p[5] = t[1] /\ p[6] = t[2] /\ p[7] = t[3]
      BY <3>2
    <3>4. p[1] = seek[1] /\ p[2] = seek[2] /\ p[3] = seek[3] /\ p[4] = seek[4]
      BY <3>2
    <3>5. DOMAIN p = 1..7
      BY <3>2
    <3> QED
      BY <3>2, <3>3, <3>4, <3>5
  <2> HIDE DEF p
  <2>3. \A i \in 1..7 : i \in {1, 2, 3, 4, 5, 6, 7}
    OBVIOUS
  <2>4. Requests(p) = {4, 7} /\ p[7].opt = c /\ p[4].opt = "FILE_SEEK"
    <3>1. \A i \in {1, 2, 3, 5, 6} : p[i].act = "SEND"
      BY <2>2 DEF Send
    <3>2. p[4].act = "RECEIVE" /\ p[7].act = "RECEIVE" /\ p[7].opt = c /\ p[4].opt = "FILE_SEEK"
      BY <2>2 DEF Receive
    <3> QED
      BY <2>2, <2>3, <3>1, <3>2 DEF Requests
  <2>5. Due' = {c, "FILE_SEEK"}
    BY <1>0, <2>1, <2>4 DEF Due
  <2>6. \A s \in call'.args : (s.opt = "WHENCE" => s.val = "SET") /\ (s.opt = "WHERE" => s.val = pos)
    <3>1. ToSet(p) = {p[i] : i \in 1..7}
      BY <2>2 DEF ToSet
    <3>2. \A s \in call'.args : \E i \in 1..7 : s = p[i]
      BY <1>0, <2>1, <3>1
    <3>3. \A i \in {1, 5} : p[i].opt = "FILE"
      BY <2>2 DEF Send
    <3>4. p[2].opt = "WHENCE" /\ p[2].val = "SET" /\ p[3].opt = "WHERE" /\ p[3].val = pos
          /\ p[6].opt = o
      BY <2>2 DEF Send
    <3>5. \A i \in {4, 7} : p[i].act = "RECEIVE"
      BY <2>2 DEF Receive
    <3>6. \A s \in call'.args : s.act = "SEND"
      BY <1>0
    <3> HIDE DEF pos
    <3> QED
      BY <1>4, <2>3, <3>2, <3>3, <3>4, <3>5, <3>6
  <2>7. \A i \in Requests(todo') : todo'[i].opt \in Transfers => i = Len(todo')
    <3>1. "FILE_SEEK" \notin Transfers
      BY DEF Transfers
    <3> QED
      BY <2>1, <2>2, <2>4, <3>1
  <2>8. handle'[call'.h].pos = pos /\ "FILE_SEEK" \in Due'
    BY <1>0, <2>5
  <2> HIDE DEF pos, f
  <2> QED
    BY <1>5, <2>6, <2>7, <2>8 DEF TransferInv
<1> QED
  BY <1>6, <1>7

(* A transfer stays the last command of its call, after the seek. *)
LEMMA TransferInvNext ==
  ASSUME CallInv, RunsInv, TransferInv, [Next]_vars
  PROVE  TransferInv'
<1> SUFFICES ASSUME link' PROVE TransferInv'
  BY DEF TransferInv
<1>0. Transfers = {"FILE_READ", "FILE_WRITE"} /\ Unset \notin Transfers /\ "FILE_SEEK" # Unset
  BY RiiFSAssumption DEF Transfers, Commands
<1>d. \A i \in Requests(todo') : todo'[i].opt \in Due'
  BY DEF Due
<1>1. ASSUME Due' \intersect (Transfers \union {"FILE_SEEK"}) = {}, awaiting' = Unset,
             call'.op = "Seek" => Due' \in {{}, {"FILE_TELL"}}
      PROVE  TransferInv'
  BY <1>0, <1>d, <1>1 DEF TransferInv
<1>2. CASE Mount
  <2>1. Due' = {"HANDSHAKE"} /\ awaiting' = Unset /\ call'.op = "Mount"
    BY <1>2, MountBegins
  <2> QED
    BY <1>0, <1>1, <2>1
<1>3. CASE Call /\ ~Mount
  <2>0. awaiting' = Unset /\ call = Idle /\ Due = {}
    BY <1>3, CallFrame
  <2>1. CASE UNCHANGED <<call, todo>>
    <3>1. Due' = {}
      BY <2>0, <2>1, <1>3, CallFrame DEF Due
    <3> QED
      BY <1>1, <2>0, <3>1
  <2>2. CASE \E h \in Handles : Transfer(h)
    BY <1>3, <2>2, TransferProgram
  <2>3. ASSUME NEW op, Begun(op), ~\E h \in Handles : Transfer(h) PROVE TransferInv'
    <3>1. op \notin {"Read", "Write"} /\ call'.op = op
      BY <1>3, <2>3, CallOps DEF Begun
    <3>2. Due' \subseteq CommandsOf(op)
      BY <1>3, <2>3, DueBegun DEF Begun
    <3>3. CASE op # "Seek"
      <4>1. CommandsOf(op) \intersect (Transfers \union {"FILE_SEEK"}) = {}
        BY <1>0, <3>1, <3>3 DEF CommandsOf, Listings
      <4> QED
        BY <1>1, <2>0, <3>1, <3>2, <3>3, <4>1
    <3>4. CASE op = "Seek"
      <4>1. Due' \subseteq {"FILE_SEEK"}
        BY <1>3, <3>1, <3>4, CallOps, DueBegun
      <4>2. Due' \in {{}, {"FILE_SEEK"}}
        BY <4>1
      <4> QED
        BY <1>0, <1>d, <2>0, <3>1, <3>4, <4>1, <4>2 DEF TransferInv
    <3> QED
      BY <3>3, <3>4
  <2>4. ASSUME NEW h \in Handles, NextDir(h) \/ CloseDir(h) PROVE TransferInv'
    <3>1. /\ call'.op \in {"NextDir", "CloseDir"}
          /\ Due' \subseteq CommandsOf(call'.op)
      BY <1>3, <2>4, DirBegins, DueBegun
    <3>2. Due' \subseteq Listings \union {"FILE_CLOSEDIR"}
      BY <3>1, CommandsAre
    <3> QED
      BY <1>0, <1>1, <2>0, <3>1, <3>2 DEF Listings
  <2> QED
    BY <1>3, <2>1, <2>2, <2>3, <2>4, CallBegins
<1>4. CASE ClientSend
  <2>1. /\ Due' = Due /\ call' \in {call, Idle} /\ (call' = Idle => Due' = {})
        /\ awaiting' = Unset /\ UNCHANGED <<handle, link>>
    BY <1>4, DueAfterSend
  <2>2. CASE call' = Idle
    BY <1>1, <2>1, <2>2
  <2>3. CASE call' = call
    <3>1. todo # <<>> /\ todo' = Tail(todo) /\ Program(todo)
      BY <1>4, DueAfterSend DEF CallInv, ReplyInv
    <3>3. \A i \in Requests(todo') : todo'[i].opt \in Transfers => i = Len(todo')
      BY <2>1, <3>1, LastStays DEF TransferInv
    <3> QED
      BY <1>0, <2>1, <2>3, <3>3 DEF TransferInv
  <2> QED
    BY <2>1, <2>2, <2>3
<1>5. CASE ClientRequest
  <2>1. /\ Due' = Due /\ call' = call /\ todo' = Tail(todo) /\ todo # <<>>
        /\ awaiting' = todo[1].opt /\ 1 \in Requests(todo) /\ UNCHANGED <<handle, link>>
    BY <1>5, DueAfterRequest
  <2>2. Program(todo)
    BY DEF CallInv, ReplyInv
  <2>4. \A i \in Requests(todo') : todo'[i].opt \in Transfers => i = Len(todo')
    BY <2>1, <2>2, LastStays DEF TransferInv
  <2>5. awaiting' \in Transfers => todo' = <<>>
    <3>1. awaiting' \in Transfers => Len(todo) = 1
      BY <2>1 DEF TransferInv
    <3>2. Len(todo) = 1 => Tail(todo) = <<>>
      BY <2>1, <2>2, ProgramQueue, HeadTailProperties, EmptySeq DEF Queue
    <3> QED
      BY <2>1, <3>1, <3>2
  <2> QED
    BY <2>1, <2>4, <2>5 DEF TransferInv
<1>6. CASE ClientReceive
  <2>1. /\ link /\ awaiting \in Commands /\ awaiting \in Due /\ awaiting' = Unset
        /\ Returned(toClient[1].ret, toClient[1].entry)
        /\ Fits(awaiting, call.h, call.args)
    BY <1>6, Replies
  <2>2. /\ \/ Due' \subseteq Due
           \/ awaiting = "FILE_SEEK" /\ call.op = "Seek" /\ Due' = {"FILE_TELL"}
        /\ todo' = todo \/ todo' = <<>> \/ call.op = "Seek"
        /\ call' = (IF todo' = <<>> THEN Idle ELSE call)
        /\ (Due' # {} => call' = call)
    BY <1>6, DueAfterReply
  <2>3. CASE call.op = "Seek"
    <3>1. Due \in {{}, {"FILE_SEEK"}, {"FILE_TELL"}}
      BY <2>1, <2>3 DEF TransferInv
    <3>2. Due' \in {{}, {"FILE_SEEK"}, {"FILE_TELL"}}
      BY <2>2, <3>1
    <3>3. Due' \intersect Transfers = {}
      BY <1>0, <3>2
    <3>4. Due' = {} \/ call'.op = "Seek"
      BY <2>2, <2>3
    <3> QED
      BY <1>0, <1>d, <2>1, <3>2, <3>3, <3>4 DEF TransferInv
  <2>4. CASE call.op \notin {"Seek", "Read", "Write"}
    <3>1. Due \intersect (Transfers \union {"FILE_SEEK"}) = {}
      BY <1>0, <2>4 DEF RunsInv, CommandsOf, Listings
    <3>2. Due' \subseteq Due /\ call'.op # "Seek"
      BY <2>2, <2>4 DEF Idle
    <3> QED
      BY <1>1, <2>1, <3>1, <3>2
  <2>5. CASE call.op \in {"Read", "Write"}
    <3>1. Due \subseteq Transfers \union {"FILE_SEEK"}
      BY <1>0, <2>5, CommandsAre DEF RunsInv
    <3>2. Due' \subseteq Due /\ call'.op # "Seek" /\ (todo' = todo \/ todo' = <<>>)
      BY <2>2, <2>5 DEF Idle
    <3>3. CASE awaiting \in Transfers
      <4>1. todo' = <<>>
        BY <2>1, <3>2, <3>3 DEF TransferInv
      <4>2. Due' = {}
        BY <2>1, <4>1 DEF Due, Requests
      <4> QED
        BY <1>1, <2>1, <3>2, <4>2
    <3>4. CASE awaiting = "FILE_SEEK"
      <4>1. PICK ret, entry : Returned(ret, entry)
        BY <2>1
      <4>2. /\ call.h \in Handles /\ handle[call.h] # Unset
            /\ handle' = [handle EXCEPT ![call.h] = [handle[call.h] EXCEPT !.dirty = FALSE]]
        BY <2>1, <2>5, <3>4, <4>1
           DEF Fits, OnHandle, Returned, OpenReturned, TransferReturned, SeekReturned, TellReturned,
               CloseReturned, SessionReturned, ValueReturned, NextDirReturned, WithInfo
      <4>3. handle[call.h] \in Info /\ handle \in [Handles -> Info \union {Unset}]
        BY <4>2 DEF CallInv, HandleInv
      <4>4. handle'[call.h] = [handle[call.h] EXCEPT !.dirty = FALSE]
        BY <4>2, <4>3
      <4>5. handle'[call.h].dirty = FALSE /\ handle'[call.h].pos = handle[call.h].pos
        BY <4>3, <4>4 DEF Info
      <4>6. CASE Due' = {}
        BY <1>1, <2>1, <3>2, <4>6
      <4>7. CASE Due' # {}
        <5>1. call' = call
          BY <2>2, <4>7
        <5>2. /\ \A i \in Requests(todo') : todo'[i].opt \in Transfers => i = Len(todo')
              /\ "FILE_SEEK" \in Due' =>
                   \A s \in call'.args : /\ s.opt = "WHENCE" => s.val = "SET"
                                         /\ s.opt = "WHERE" => s.val = handle'[call'.h].pos
          <6>1. \A i \in Requests(todo') : todo'[i].opt \in Transfers => i = Len(todo')
            BY <2>1, <3>2 DEF TransferInv, Requests
          <6>2. "FILE_SEEK" \in Due' => "FILE_SEEK" \in Due
            BY <3>2
          <6> QED
            BY <2>1, <2>5, <4>5, <5>1, <6>1, <6>2 DEF TransferInv
        <5> QED
          BY <1>0, <2>1, <3>2, <4>5, <5>1, <5>2 DEF TransferInv
      <4> QED
        BY <4>6, <4>7
    <3> QED
      BY <2>1, <3>1, <3>3, <3>4
  <2> QED
    BY <2>3, <2>4, <2>5
<1>7. CASE ServerStep \/ Drop \/ UNCHANGED vars
  <2>1. UNCHANGED <<call, todo, awaiting, handle>> /\ Due' = Due
    BY <1>7, SameCall
  <2>2. link
    <3>1. UNCHANGED vars => link' = link
      BY DEF vars, linkVars
    <3>2. ServerSend \/ ServerClose \/ Drop => (link' => link)
      BY DEF ServerSend, ServerClose, Drop
    <3> QED
      BY <1>7, <3>1, <3>2, CommandTakesFromQueue
  <2> QED
    BY <2>1, <2>2 DEF TransferInv
<1> QED
  BY <1>2, <1>3, <1>4, <1>5, <1>6, <1>7 DEF Next, ClientStep

-----------------------------------------------------------------------------
(* Positions, one lemma for each kind of step.                              *)

(* Reads are not mixed with what a failed stream takes for granted: a write to
   it is acknowledged, and its position is told as -1. *)
ReadsApart == "Read" \notin Ops \/ Ops \intersect {"Write", "Sync"} = {}

(* No reply about the position is on its way. *)
Quiet(h) == ~Told(h) /\ Moving(h) = 0 /\ ~SoughtBack(h)

(* Where nothing is replied, nothing is about the position. *)
LEMMA QuietIs ==
  ASSUME \A c \in Commands : ~Replied(c)
  PROVE  \A h : Quiet(h) /\ (AtEnd(h) <=> call.op = "Seek" /\ call.h = h /\ Due = {"FILE_TELL"})
<1>1. {"FILE_TELL", "FILE_SEEK"} \subseteq Commands /\ Transfers \subseteq Commands
  BY DEF Commands, Transfers
<1>2. \A h : Moving(h) = 0
  <2>1. ~(awaiting \in Transfers /\ toClient # <<>>)
    BY <1>1 DEF Replied
  <2> QED
    BY <2>1 DEF Moving
<1> QED
  BY <1>1, <1>2 DEF Quiet, Told, SoughtBack, AtEnd

(* The same, after a step. *)
LEMMA QuietNext ==
  ASSUME \A c \in Commands : ~Replied(c)', awaiting' = Unset \/ toClient' = <<>>
  PROVE  \A h : /\ Quiet(h)'
                /\ AtEnd(h)' <=> call'.op = "Seek" /\ call'.h = h /\ Due' = {"FILE_TELL"}
<1>1. {"FILE_TELL", "FILE_SEEK"} \subseteq Commands
  BY DEF Commands
<1>2. \A h : Moving(h)' = 0
  BY RiiFSAssumption DEF Moving, Transfers, Commands
<1> QED
  BY <1>1, <1>2 DEF Quiet, Told, SoughtBack, AtEnd

(* A file that neither side moves, when nothing is replied about it. *)
LEMMA PosStill ==
  ASSUME NEW h, Positioned(h), Quiet(h), Quiet(h)',
         handle'[h] = handle[h], stream'[handle[h].fd] = stream[handle[h].fd],
         AtEnd(h)' <=> AtEnd(h)
  PROVE  Positioned(h)'
<1>1. Moving(h) = 0 /\ Moving(h)' = 0 /\ ~Told(h) /\ ~Told(h)' /\ ~SoughtBack(h)'
  BY DEF Quiet
<1> QED
  BY <1>1 DEF Positioned

(* A file that is where its stream is, after the reply. *)
LEMMA PosSettled ==
  ASSUME NEW h, NEW s, NEW p, s = stream'[handle'[h].fd], p = handle'[h], Quiet(h)', p.pos \in Nat,
         s # Unset => /\ s.ok \/ ("Read" \in Ops /\ ~AtEnd(h)')
                      /\ p.dirty \/ s.app \/ AtEnd(h)' \/ s.pos = p.pos + 0
  PROVE  Positioned(h)'
  BY DEF Positioned, Quiet

(* The files of the module when a call begins: one may have been sought in. *)
LEMMA FilesOfCall ==
  ASSUME CallInv, Call, ~Mount, NEW h \in Handles, IsFile(h)'
  PROVE  /\ IsFile(h)
         /\ \/ handle'[h] = handle[h]
            \/ /\ handle'[h].fd = handle[h].fd /\ handle'[h].pos \in Nat /\ handle'[h].dirty
<1>1. HandleInv /\ handle \in [Handles -> Info \union {Unset}]
  BY DEF CallInv, HandleInv
<1>2. CASE handle'[h] = handle[h]
  BY <1>2 DEF IsFile
<1>3. ASSUME NEW g \in Handles, NEW where \in Nat, IsFile(g),
             handle' = [handle EXCEPT ![g] = Moved(handle[g], where)], h = g
      PROVE  /\ IsFile(h) /\ handle'[h].fd = handle[h].fd
             /\ handle'[h].pos \in Nat /\ handle'[h].dirty
  BY <1>1, <1>3, MovedIs DEF SameObjects, IsFile
<1>4. ASSUME NEW g \in Handles, NEW where \in Nat, IsFile(g),
             handle' = [handle EXCEPT ![g] = Moved(handle[g], where)], h # g
      PROVE  handle'[h] = handle[h]
  BY <1>1, <1>4
<1>5. ASSUME NEW g \in Handles, NextDir(g) \/ CloseDir(g) PROVE handle'[h] = handle[h]
  <2>1. handle' = handle \/ handle' = [handle EXCEPT ![g] = Unset]
    BY <1>5, DirBegins
  <2>2. handle'[h] # Unset
    BY DEF IsFile
  <2> QED
    BY <1>1, <2>1, <2>2
<1>6. ASSUME NEW op, Begun(op) PROVE handle'[h] = handle[h]
  BY <1>6 DEF Begun
<1> QED
  BY <1>2, <1>3, <1>4, <1>5, <1>6, CallBegins

(* A call moves no stream, and a file only where the handler will seek. *)
LEMMA PosInvCall ==
  ASSUME CallInv, PosInv, Call, ~Mount
  PROVE  PosInv'
<1>1. /\ UNCHANGED <<linkVars, serverVars>> /\ call = Idle
      /\ awaiting = Unset /\ awaiting' = Unset /\ Due = {} /\ todo = <<>>
  BY CallFrame
<1>2. \A c \in Commands : ~Replied(c) /\ ~Replied(c)' /\ \A f : ~Opened(c, f)'
  BY <1>1, RiiFSAssumption DEF Replied, Opened
<1>3. \A h : Quiet(h) /\ ~AtEnd(h)
  BY <1>1, <1>2, QuietIs
<1>4. ~(call'.op = "Seek" /\ Due' = {"FILE_TELL"})
  <2>1. call'.op = "Seek" => Due' \subseteq {"FILE_SEEK"}
    BY CallOps, DueBegun
  <2> QED
    BY <2>1
<1>5. \A h : Quiet(h)' /\ ~AtEnd(h)'
  BY <1>1, <1>2, <1>4, QuietNext
<1>6. ASSUME link', NEW h \in Handles, IsFile(h)' PROVE Positioned(h)'
  <2>1. link /\ stream' = stream
    BY <1>1, <1>6 DEF linkVars, serverVars
  <2>2. IsFile(h) /\ Positioned(h)
    BY <1>6, <2>1, FilesOfCall DEF PosInv
  <2>3. CASE handle'[h] = handle[h]
    BY <1>3, <1>5, <2>1, <2>2, <2>3, PosStill
  <2>4. CASE handle'[h].fd = handle[h].fd /\ handle'[h].pos \in Nat /\ handle'[h].dirty
    <3>1. stream'[handle'[h].fd] = stream[handle[h].fd]
      BY <2>1, <2>4
    <3>2. stream[handle[h].fd] # Unset =>
            stream[handle[h].fd].ok \/ ("Read" \in Ops /\ ~AtEnd(h)')
      BY <1>5, <2>2 DEF Positioned
    <3> QED
      BY <1>5, <2>4, <3>1, <3>2, PosSettled
  <2> QED
    BY <1>6, <2>3, <2>4, FilesOfCall
<1>7. OpensAtStart'
  <2>1. "FILE_OPEN" \in Commands
    BY DEF Commands
  <2> QED
    BY <1>2, <2>1 DEF OpensAtStart
<1> QED
  BY <1>6, <1>7 DEF PosInv

(* The handler sends an option, or asks for a command. *)
LEMMA PosInvAsks ==
  ASSUME CallInv, PosInv, ClientSend \/ ClientRequest
  PROVE  PosInv'
<1>1. /\ Due' = Due /\ (Due # {} => call' = call) /\ (call' = call \/ Due' = {})
      /\ UNCHANGED <<handle, link, stream>>
      /\ awaiting = Unset /\ (awaiting' = Unset \/ toClient' = <<>>)
  BY DueAfterSend, DueAfterRequest DEF serverVars
<1>2. \A c \in Commands : ~Replied(c) /\ ~Replied(c)' /\ \A f : ~Opened(c, f)'
  BY <1>1, RiiFSAssumption DEF Replied, Opened
<1>3. \A h : Quiet(h) /\ (AtEnd(h) <=> call.op = "Seek" /\ call.h = h /\ Due = {"FILE_TELL"})
  BY <1>2, QuietIs
<1>4. {"FILE_TELL", "FILE_SEEK", "FILE_OPEN"} \subseteq Commands
  BY DEF Commands
<1>5. \A h : /\ Quiet(h)'
             /\ AtEnd(h)' <=> call'.op = "Seek" /\ call'.h = h /\ Due' = {"FILE_TELL"}
  BY <1>1, <1>2, QuietNext
<1>6. \A h : AtEnd(h)' <=> AtEnd(h)
  <2>2. CASE Due = {}
    BY <1>1, <1>3, <1>5, <2>2
  <2>3. CASE Due # {}
    BY <1>1, <1>3, <1>5, <2>3
  <2> QED
    BY <2>2, <2>3
<1>7. \A h : IsFile(h)' <=> IsFile(h)
  BY <1>1 DEF IsFile
<1>8. ASSUME link', NEW h \in Handles, IsFile(h)' PROVE Positioned(h)'
  <2>1. Positioned(h)
    BY <1>1, <1>7, <1>8 DEF PosInv
  <2> QED
    BY <1>1, <1>3, <1>5, <1>6, <2>1, PosStill
<1>9. OpensAtStart'
  BY <1>2, <1>4 DEF OpensAtStart
<1> QED
  BY <1>8, <1>9 DEF PosInv

(* A step that moves nothing, on either side. *)
LEMMA PosInvStill ==
  ASSUME PosInv, link' => link, UNCHANGED <<call, todo, awaiting, handle, toClient, stream>>
  PROVE  PosInv'
<1>1. Due' = Due
  BY DEF Due
<1>2. \A h : /\ IsFile(h)' <=> IsFile(h)
             /\ AtEnd(h)' <=> AtEnd(h)
             /\ Told(h)' <=> Told(h)
             /\ SoughtBack(h)' <=> SoughtBack(h)
  BY <1>1 DEF IsFile, AtEnd, Told, SoughtBack, Replied
<1>3. \A h : Moving(h)' = Moving(h)
  BY DEF Moving
<1>4. \A h : Positioned(h) => Positioned(h)'
  BY <1>2, <1>3 DEF Positioned
<1>5. OpensAtStart => OpensAtStart'
  BY DEF OpensAtStart, Opened, Replied
<1> QED
  BY <1>2, <1>4, <1>5 DEF PosInv

(* A new connection begins without files. *)
LEMMA PosInvMount ==
  ASSUME CallInv, Mount
  PROVE  PosInv'
<1>1. \A h \in Handles : ~IsFile(h)'
  BY MountBegins DEF IsFile
<1>2. OpensAtStart'
  BY MountBegins DEF OpensAtStart, Opened, Replied
<1> QED
  BY <1>1, <1>2 DEF PosInv

(* What a file's fields are once its position was set, or its seek was made. *)
LEMMA InfoMoved ==
  ASSUME NEW p \in Info, NEW n \in Int, NEW q, q = [p EXCEPT !.pos = n]
  PROVE  q.pos = n /\ q.dirty = p.dirty /\ q.fd = p.fd
<1>1. q.pos = n
  BY DEF Info
<1>2. q.dirty = p.dirty
  BY DEF Info
<1>3. q.fd = p.fd
  BY DEF Info
<1> QED
  BY <1>1, <1>2, <1>3

(* The same for the seek that is over. *)
LEMMA InfoSought ==
  ASSUME NEW p \in Info, NEW q, q = [p EXCEPT !.dirty = FALSE]
  PROVE  q.pos = p.pos /\ q.dirty = FALSE /\ q.fd = p.fd
<1>1. q.pos = p.pos
  BY DEF Info
<1>2. q.dirty = FALSE
  BY DEF Info
<1>3. q.fd = p.fd
  BY DEF Info
<1> QED
  BY <1>1, <1>2, <1>3

(* The commands about a position. *)
Positioning == Transfers \union {"FILE_SEEK", "FILE_TELL"}

(* They are run on a file of the module, and it has its stream. *)
LEMMA FileOfCall ==
  ASSUME CallInv, OwnInv, link, NEW c \in Due, c \in Positioning, awaiting # "FILE_CLOSE"
  PROVE  /\ call.h \in Handles /\ IsFile(call.h) /\ handle[call.h] \in Info /\ handle[call.h].fd \in Fds
         /\ stream[handle[call.h].fd] \in Stream /\ stream[handle[call.h].fd] # Unset
         /\ \A h \in Handles : h # call.h /\ handle[h] # Unset => handle[h].fd # handle[call.h].fd
<1>1. Fits(c, call.h, call.args)
  BY DEF CallInv, HandleInv
<1>2. c \in OnHandle \ Listings
  BY DEF Positioning, Transfers, OnHandle, Listings
<1>3. call.h \in Handles /\ handle[call.h] # Unset /\ IsFile(call.h)
  BY <1>1, <1>2 DEF Fits, IsFile
<1>4. handle[call.h] \in Info /\ handle[call.h].fd \in Fds
  BY <1>3, HandleIs DEF CallInv
<1>5. stream[handle[call.h].fd] # Unset
  BY <1>3 DEF OwnInv, Backed, Replied
<1>6. stream[handle[call.h].fd] \in Stream
  BY <1>4, <1>5 DEF CallInv, ServerInv
<1> QED
  BY <1>3, <1>4, <1>5, <1>6 DEF OwnInv, FdsDiffer

(* A reply that is not about the position of file h. *)
LEMMA PosElsewhere ==
  ASSUME CallInv, RunsInv, PosInv, ClientReceive, link', NEW h \in Handles, IsFile(h),
         handle'[h] = handle[h], h # call.h \/ awaiting \notin Positioning
  PROVE  Positioned(h)'
<1>1. /\ link /\ Replied(awaiting) /\ awaiting \in Due /\ awaiting' = Unset
      /\ stream' = stream /\ \A c \in Commands : ~Replied(c)'
  BY Replies DEF serverVars
<1>2. /\ Quiet(h)'
      /\ AtEnd(h)' <=> call'.op = "Seek" /\ call'.h = h /\ Due' = {"FILE_TELL"}
  BY <1>1, QuietNext
<1>3. call' \in {call, Idle} /\ Idle.op # "Seek"
  BY DueAfterReply DEF Idle
<1>4. CASE h # call.h
  <2>1. Quiet(h) /\ ~AtEnd(h) /\ ~AtEnd(h)'
    BY <1>2, <1>3, <1>4 DEF Quiet, Told, Moving, SoughtBack, AtEnd
  <2> QED
    BY <1>1, <1>2, <2>1, PosStill DEF PosInv
<1>5. CASE awaiting \notin Positioning
  <2>1. call.op # "Seek"
    BY <1>1, <1>5, CommandsAre DEF RunsInv, Positioning
  <2>2. Quiet(h) /\ ~AtEnd(h) /\ ~AtEnd(h)'
    BY <1>2, <1>3, <1>5, <2>1 DEF Quiet, Told, Moving, SoughtBack, AtEnd, Replied, Positioning
  <2> QED
    BY <1>1, <1>2, <2>2, PosStill DEF PosInv
<1> QED
  BY <1>4, <1>5

(* What a reply that is not about a position does to the files. *)
LEMMA ReplyKeepsFiles ==
  ASSUME CallInv, ClientReceive, link', awaiting \notin Positioning, NEW h \in Handles, IsFile(h)'
  PROVE  \/ IsFile(h) /\ handle'[h] = handle[h]
         \/ /\ awaiting = "FILE_OPEN" /\ Opened("FILE_OPEN", handle'[h].fd) /\ handle'[h].fd \in Fds
            /\ handle'[h].pos = 0
<1>1. /\ Returned(toClient[1].ret, toClient[1].entry)
      /\ Fits(awaiting, call.h, call.args) /\ handle \in [Handles -> Info \union {Unset}]
  BY Replies DEF CallInv, HandleInv
<1>2. CASE awaiting \in Opens
  <2>1. CASE handle'[h] = handle[h]
    BY <2>1 DEF IsFile
  <2>2. CASE handle'[h] # handle[h]
    <3>1. /\ h = call.h /\ toClient[1].ret \in Fds /\ Opened(awaiting, toClient[1].ret)
          /\ handle'[h].fd = toClient[1].ret
          /\ handle'[h].kind = (IF awaiting = "FILE_OPEN" THEN "file" ELSE "dir")
          /\ awaiting = "FILE_OPEN" => handle'[h].pos = 0
      BY <1>2, <2>2, OpenedIs
    <3>2. awaiting = "FILE_OPEN"
      BY <3>1 DEF IsFile
    <3> QED
      BY <3>1, <3>2
  <2> QED
    BY <2>1, <2>2
<1>3. CASE awaiting \notin Opens
  <2>1. \/ handle' = handle
        \/ awaiting = "FILE_CLOSE" /\ handle' = [handle EXCEPT ![call.h] = Unset]
        \/ awaiting = "FILE_NEXTDIR_PATH" /\ \E info : handle' = [handle EXCEPT ![call.h] = info]
    BY <1>1, <1>3
       DEF Opens, Positioning, Transfers, Returned, OpenReturned, TransferReturned, SeekReturned,
           TellReturned, CloseReturned, SessionReturned, ValueReturned, NextDirReturned, NoChange,
           WithInfo
  <2>2. CASE awaiting = "FILE_CLOSE" /\ handle' = [handle EXCEPT ![call.h] = Unset]
    <3>1. handle'[h] # Unset
      BY DEF IsFile
    <3>2. handle'[h] = handle[h]
      BY <1>1, <2>2, <3>1
    <3> QED
      BY <3>2 DEF IsFile
  <2>3. CASE awaiting = "FILE_NEXTDIR_PATH" /\ \E info : handle' = [handle EXCEPT ![call.h] = info]
    <3>1. call.h \in Handles /\ handle[call.h] # Unset /\ handle[call.h].kind = "dir"
      BY <1>1, <2>3 DEF Fits, OnHandle, Listings
    <3>2. handle'[call.h].kind = "dir"
      <4>1. SameObjects
        BY <1>3, <2>3, ReplyKeepsObjects
      <4> QED
        BY <3>1, <4>1 DEF SameObjects
    <3>3. h # call.h
      BY <3>2 DEF IsFile
    <3>4. handle'[h] = handle[h]
      BY <1>1, <2>3, <3>3
    <3> QED
      BY <3>4 DEF IsFile
  <2>4. CASE handle' = handle
    BY <2>4 DEF IsFile
  <2> QED
    BY <2>1, <2>2, <2>3, <2>4
<1> QED
  BY <1>2, <1>3

(* What the file of the call is after a reply about its position. *)
LEMMA ReplyMoves ==
  ASSUME CallInv, OwnInv, ClientReceive, link', awaiting \in Positioning, NEW ret, ret = toClient[1].ret
  PROVE  /\ call.h \in Handles /\ IsFile(call.h) /\ ret \in Int
         /\ \A g \in Handles : g # call.h => handle'[g] = handle[g]
         /\ handle'[call.h].fd = handle[call.h].fd
         /\ awaiting \in Transfers =>
              /\ handle'[call.h].pos = handle[call.h].pos + Max0(ret)
              /\ handle'[call.h].dirty = handle[call.h].dirty
         /\ awaiting = "FILE_TELL" =>
              handle'[call.h].pos = ret /\ handle'[call.h].dirty = handle[call.h].dirty
         /\ awaiting = "FILE_SEEK" /\ call.op = "Seek" =>
              handle' = handle /\ (IF ret = 0 THEN Due' = {"FILE_TELL"} /\ call' = call ELSE Due' = {})
         /\ awaiting = "FILE_SEEK" /\ call.op # "Seek" =>
              handle'[call.h].pos = handle[call.h].pos /\ handle'[call.h].dirty = FALSE
<1>1. /\ link /\ awaiting \in Due /\ awaiting \in Commands /\ awaiting' = Unset
      /\ Returned(ret, toClient[1].entry) /\ Returns(awaiting, ret, toClient[1].entry)
  BY Replies
<1>2. awaiting # "FILE_CLOSE"
  BY DEF Positioning, Transfers
<1>3. PICK h \in Handles : h = call.h
  BY <1>1, <1>2, FileOfCall
<1>4. PICK p \in Info : p = handle[h]
  BY <1>1, <1>2, <1>3, FileOfCall
<1>5. handle \in [Handles -> Info \union {Unset}] /\ IsFile(h)
  BY <1>1, <1>2, <1>3, FileOfCall DEF CallInv, HandleInv
<1>6. ret \in Int
  BY <1>1 DEF Returns
<1>7. p.pos \in Int
  BY DEF Info
<1>8. ASSUME NEW q, WithInfo(q)
      PROVE  handle'[h] = q /\ \A g \in Handles : g # h => handle'[g] = handle[g]
  BY <1>3, <1>5, <1>8 DEF WithInfo
<1>9. CASE awaiting \in Transfers
  <2>1. TransferReturned(ret) /\ awaiting \notin {"FILE_SEEK", "FILE_TELL"}
    BY <1>1, <1>9
       DEF Transfers, Returned, OpenReturned, TransferReturned, SeekReturned,
           TellReturned, CloseReturned, SessionReturned, ValueReturned, NextDirReturned
  <2>2. CASE ret > 0
    <3> DEFINE q == [p EXCEPT !.pos = p.pos + ret]
    <3>1. WithInfo(q)
      BY <1>3, <1>4, <2>1, <2>2 DEF TransferReturned, MovesPosition, Info
    <3>2. p.pos + ret \in Int
      BY <1>6, <1>7
    <3>3. q.pos = p.pos + ret /\ q.dirty = p.dirty /\ q.fd = p.fd
      BY <3>2, InfoMoved
    <3> HIDE DEF q
    <3>4. Max0(ret) = ret
      BY <2>2 DEF Max0
    <3> QED
      BY <1>3, <1>4, <1>5, <1>6, <1>8, <2>1, <3>1, <3>3, <3>4
  <2>3. CASE ~(ret > 0)
    <3>1. handle' = handle
      BY <2>1, <2>3 DEF TransferReturned, MovesPosition, NoChange
    <3>2. p.pos + Max0(ret) = p.pos
      BY <1>6, <1>7, <2>3 DEF Max0
    <3> QED
      BY <1>3, <1>4, <1>5, <1>6, <2>1, <3>1, <3>2
  <2> QED
    BY <2>2, <2>3
<1>10. CASE awaiting = "FILE_TELL"
  <2>1. TellReturned(ret) /\ awaiting \notin Transfers /\ awaiting # "FILE_SEEK"
    BY <1>1, <1>10
       DEF Transfers, Returned, OpenReturned, TransferReturned, SeekReturned,
           TellReturned, CloseReturned, SessionReturned, ValueReturned, NextDirReturned
  <2> DEFINE q == [p EXCEPT !.pos = ret]
  <2>2. WithInfo(q)
    BY <1>3, <1>4, <2>1 DEF TellReturned
  <2>3. q.pos = ret /\ q.dirty = p.dirty /\ q.fd = p.fd
    BY <1>6, InfoMoved
  <2> HIDE DEF q
  <2> QED
    BY <1>3, <1>4, <1>5, <1>6, <1>8, <2>1, <2>2, <2>3
<1>11. CASE awaiting = "FILE_SEEK"
  <2>1. SeekReturned(ret) /\ awaiting \notin Transfers /\ awaiting # "FILE_TELL"
    BY <1>1, <1>11
       DEF Transfers, Returned, OpenReturned, TransferReturned, SeekReturned,
           TellReturned, CloseReturned, SessionReturned, ValueReturned, NextDirReturned
  <2>2. CASE call.op = "Seek"
    <3> DEFINE tell == <<Receive("FILE_TELL")>>
    <3>1. handle' = handle /\ Continue(IF ret = 0 THEN tell ELSE <<>>)
      BY <2>1, <2>2 DEF SeekReturned, NoChange
    <3>2. DOMAIN tell = {1} /\ tell[1] = Receive("FILE_TELL") /\ tell # <<>>
      OBVIOUS
    <3>3. Requests(tell) = {1} /\ tell[1].opt = "FILE_TELL" /\ Requests(<<>>) = {}
      BY <3>2 DEF Requests, Receive
    <3> HIDE DEF tell
    <3>4. Due' = {todo'[i].opt : i \in Requests(todo')}
      BY <1>1 DEF Due
    <3>5. IF ret = 0 THEN Due' = {"FILE_TELL"} /\ call' = call ELSE Due' = {}
      BY <3>1, <3>2, <3>3, <3>4 DEF Continue
    <3> QED
      BY <1>3, <1>4, <1>5, <1>6, <2>1, <2>2, <3>1, <3>5
  <2>3. CASE call.op # "Seek"
    <3> DEFINE q == [p EXCEPT !.dirty = FALSE]
    <3>1. WithInfo(q)
      BY <1>3, <1>4, <2>1, <2>3 DEF SeekReturned
    <3>2. q.pos = p.pos /\ q.dirty = FALSE /\ q.fd = p.fd
      BY InfoSought
    <3> HIDE DEF q
    <3> QED
      BY <1>3, <1>4, <1>5, <1>6, <1>8, <2>1, <2>3, <3>1, <3>2
  <2> QED
    BY <2>2, <2>3
<1> QED
  BY <1>9, <1>10, <1>11 DEF Positioning

(* The handler takes a return value: its position follows the server's. *)
LEMMA PosInvReplied ==
  ASSUME CallInv, RunsInv, OwnInv, TransferInv, PosInv, ClientReceive, link',
         awaiting \in Positioning, NEW h, h = call.h
  PROVE  Positioned(h)'
<1>1. /\ link /\ Replied(awaiting) /\ awaiting \in Due /\ awaiting' = Unset
      /\ stream' = stream /\ \A c \in Commands : ~Replied(c)'
  BY Replies DEF serverVars
<1>2. PICK ret \in Int : ret = toClient[1].ret
  BY ReplyMoves
<1>3. awaiting # "FILE_CLOSE"
  BY DEF Positioning, Transfers
<1>4. h \in Handles /\ h = call.h
  BY <1>1, <1>3, FileOfCall
<1>5. PICK s \in Stream : s = stream[handle[h].fd] /\ s # Unset
  BY <1>1, <1>3, <1>4, FileOfCall
<1>6. PICK p \in Info : p = handle[h]
  BY <1>1, <1>3, <1>4, FileOfCall
<1>7. IsFile(h) /\ handle'[h].fd = handle[h].fd
  BY <1>2, <1>4, ReplyMoves
<1>8. Positioned(h)
  BY <1>1, <1>4, <1>7 DEF PosInv
<1>9. /\ p.pos \in Nat
      /\ s.ok \/ ("Read" \in Ops /\ ~AtEnd(h))
      /\ p.dirty \/ s.app \/ AtEnd(h) \/ Told(h) \/ s.pos = p.pos + Moving(h)
      /\ Moving(h) \in Nat
      /\ Told(h) => ret = s.pos
      /\ SoughtBack(h) => s.pos = p.pos
  BY <1>2, <1>5, <1>6, <1>8 DEF Positioned
<1>10. /\ Quiet(h)'
       /\ AtEnd(h)' <=> call'.op = "Seek" /\ call'.h = h /\ Due' = {"FILE_TELL"}
  BY <1>1, QuietNext
<1>11. call' \in {call, Idle} /\ Idle.op # "Seek"
  BY DueAfterReply DEF Idle
<1>12. s.pos \in Nat
  BY DEF Stream
<1> DEFINE q == handle'[h]
<1>13. s = stream'[q.fd]
  BY <1>1, <1>5, <1>7
<1>14. SUFFICES /\ q.pos \in Nat
                /\ s.ok \/ ("Read" \in Ops /\ ~AtEnd(h)')
                /\ q.dirty \/ s.app \/ AtEnd(h)' \/ s.pos = q.pos + 0
  BY <1>10, <1>13, PosSettled
<1>15. CASE awaiting \in Transfers
  <2>1. call.op # "Seek" /\ awaiting # "FILE_TELL"
    BY <1>1, <1>15, CommandsAre DEF RunsInv, Transfers
  <2>2. ~AtEnd(h) /\ ~AtEnd(h)' /\ ~Told(h)
    BY <1>1, <1>10, <1>11, <2>1 DEF AtEnd, Told, Replied
  <2>3. Moving(h) = ret
    BY <1>1, <1>2, <1>4, <1>15 DEF Moving, Replied
  <2>4. ret \in Nat /\ Max0(ret) = ret
    <3>1. ret \in Nat
      BY <1>9, <2>3
    <3> QED
      BY <3>1 DEF Max0
  <2>5. q.pos = p.pos + ret /\ q.dirty = p.dirty
    BY <1>2, <1>4, <1>6, <1>15, <2>4, ReplyMoves
  <2>6. q.pos \in Nat
    BY <1>9, <2>4, <2>5
  <2>7. q.pos + 0 = p.pos + ret
    BY <1>9, <2>4, <2>5
  <2> QED
    BY <1>9, <2>2, <2>3, <2>5, <2>6, <2>7
<1>16. CASE awaiting = "FILE_TELL"
  <2>1. q.pos = ret /\ ret = s.pos
    <3>1. Told(h)
      BY <1>1, <1>4, <1>16 DEF Told
    <3> QED
      BY <1>2, <1>4, <1>9, <1>16, <3>1, ReplyMoves
  <2>2. AtEnd(h)' => AtEnd(h)
    <3>1. ASSUME AtEnd(h)' PROVE AtEnd(h)
      <4>1. call.op = "Seek" /\ call = call'
        BY <1>10, <1>11, <3>1
      <4>2. Due = {"FILE_TELL"}
        BY <1>1, <1>16, <4>1 DEF TransferInv
      <4> QED
        BY <1>4, <4>1, <4>2 DEF AtEnd
    <3> QED
      BY <3>1
  <2>3. s.pos = q.pos + 0
    BY <1>12, <2>1
  <2> QED
    BY <1>9, <1>12, <2>1, <2>2, <2>3
<1>17. CASE awaiting = "FILE_SEEK" /\ call.op = "Seek"
  <2>1. handle' = handle /\ (IF ret = 0 THEN Due' = {"FILE_TELL"} /\ call' = call ELSE Due' = {})
    BY <1>2, <1>17, ReplyMoves
  <2>2. q = p
    BY <1>6, <2>1
  <2>3. CASE ret = 0
    <3>1. AtEnd(h) /\ AtEnd(h)'
      BY <1>1, <1>2, <1>4, <1>10, <1>17, <2>1, <2>3 DEF AtEnd
    <3> QED
      BY <1>9, <2>2, <3>1
  <2>4. CASE ret # 0
    <3>1. "FILE_TELL" \notin Due
      BY <1>1, <1>17 DEF TransferInv
    <3>2. ~AtEnd(h) /\ ~AtEnd(h)' /\ ~Told(h) /\ Moving(h) = 0
      BY <1>2, <1>10, <1>17, <2>1, <2>4, <3>1 DEF AtEnd, Told, Replied, Moving, Transfers
    <3> QED
      BY <1>9, <2>2, <3>2
  <2> QED
    BY <2>3, <2>4
<1>18. CASE awaiting = "FILE_SEEK" /\ call.op # "Seek"
  <2>1. q.pos = p.pos
    BY <1>2, <1>4, <1>6, <1>18, ReplyMoves
  <2>2. SoughtBack(h) /\ ~AtEnd(h)'
    BY <1>1, <1>4, <1>10, <1>11, <1>18 DEF SoughtBack
  <2>3. s.pos = q.pos + 0
    BY <1>9, <1>12, <2>1, <2>2
  <2> QED
    BY <1>9, <2>1, <2>2, <2>3
<1> QED
  BY <1>15, <1>16, <1>17, <1>18 DEF Positioning

(* The handler takes a return value. *)
LEMMA PosInvReply ==
  ASSUME CallInv, RunsInv, OwnInv, TransferInv, PosInv, ClientReceive, link'
  PROVE  PosInv'
<1>1. /\ link /\ Replied(awaiting) /\ awaiting \in Due /\ awaiting' = Unset
      /\ stream' = stream /\ \A c \in Commands : ~Replied(c)' /\ \A f : ~Opened(c, f)'
  BY Replies DEF serverVars
<1>2. OpensAtStart'
  <2>1. "FILE_OPEN" \in Commands
    BY DEF Commands
  <2> QED
    BY <1>1, <2>1 DEF OpensAtStart
<1>3. ASSUME NEW h \in Handles, IsFile(h)' PROVE Positioned(h)'
  <2>1. CASE awaiting \in Positioning
    <3>1. CASE h = call.h
      BY <2>1, <3>1, PosInvReplied
    <3>2. CASE h # call.h
      <4>1. handle'[h] = handle[h]
        BY <2>1, <3>2, ReplyMoves
      <4>2. IsFile(h)
        BY <1>3, <4>1 DEF IsFile
      <4> QED
        BY <3>2, <4>1, <4>2, PosElsewhere
    <3> QED
      BY <3>1, <3>2
  <2>2. CASE awaiting \notin Positioning
    <3>1. CASE IsFile(h) /\ handle'[h] = handle[h]
      BY <2>2, <3>1, PosElsewhere
    <3>2. CASE /\ awaiting = "FILE_OPEN" /\ Opened("FILE_OPEN", handle'[h].fd)
               /\ handle'[h].fd \in Fds /\ handle'[h].pos = 0
      <4>1. PICK s : s = stream'[handle'[h].fd]
        OBVIOUS
      <4>2. s.pos = 0 /\ s.ok
        BY <1>1, <3>2, <4>1 DEF PosInv, OpensAtStart
      <4>3. Quiet(h)'
        BY <1>1, QuietNext
      <4>4. handle'[h].pos \in Nat /\ s.pos = handle'[h].pos + 0
        BY <3>2, <4>2
      <4> QED
        BY <4>1, <4>2, <4>3, <4>4, PosSettled
    <3> QED
      BY <1>3, <2>2, <3>1, <3>2, ReplyKeepsFiles
  <2> QED
    BY <2>1, <2>2
<1> QED
  BY <1>2, <1>3 DEF PosInv

(* The stream is closed, or stays where it is unless it was opened to append. *)
StaysPut(f) ==
  stream'[f] # Unset =>
    /\ stream[f] # Unset
    /\ stream'[f].ok = stream[f].ok /\ stream'[f].app = stream[f].app
    /\ stream[f].app \/ stream'[f].pos = stream[f].pos

(* The server answers, and leaves the stream of file h where it is or closes it. *)
LEMMA PosLeft ==
  ASSUME CallInv, OwnInv, PosInv, ServerStep, ~ServerSend, ~ServerClose, link',
         NEW c, Receiving(c), NEW h \in Handles, IsFile(h),
         h # call.h \/ c \notin Positioning,
         StaysPut(handle[h].fd)
  PROVE  Positioned(h)'
<1>1. /\ link /\ awaiting = c /\ toClient = <<>> /\ c # Unset
      /\ UNCHANGED <<call, todo, awaiting, handle>> /\ Due' = Due
      /\ \A k : ~Replied(k) /\ (Replied(k)' <=> k = c)
  BY Answers
<1>2. Quiet(h) /\ (AtEnd(h) <=> call.op = "Seek" /\ call.h = h /\ Due = {"FILE_TELL"})
  BY <1>1, QuietIs
<1>3. Quiet(h)' /\ (AtEnd(h)' <=> call.op = "Seek" /\ call.h = h /\ Due = {"FILE_TELL"})
  BY <1>1 DEF Quiet, Told, Moving, SoughtBack, AtEnd, Positioning
<1>4. Positioned(h)
  BY <1>1 DEF PosInv
<1>5. CASE stream'[handle[h].fd] # Unset
  <2> DEFINE s == stream[handle[h].fd]
             t == stream'[handle[h].fd]
             p == handle[h].pos
  <2>1. /\ p \in Nat /\ handle'[h] = handle[h] /\ s # Unset
        /\ t.ok = s.ok /\ t.app = s.app /\ (s.app \/ t.pos = s.pos)
    BY <1>1, <1>4, <1>5 DEF Positioned, StaysPut
  <2>2. /\ s.ok \/ ("Read" \in Ops /\ ~AtEnd(h))
        /\ handle[h].dirty \/ s.app \/ AtEnd(h) \/ s.pos = p + 0
    BY <1>2, <1>4, <2>1 DEF Positioned, Quiet
  <2>3. AtEnd(h)' <=> AtEnd(h)
    BY <1>2, <1>3
  <2>4. /\ t.ok \/ ("Read" \in Ops /\ ~AtEnd(h)')
        /\ handle'[h].dirty \/ t.app \/ AtEnd(h)' \/ t.pos = p + Moving(h)'
    BY <1>3, <2>1, <2>2, <2>3 DEF Quiet
  <2>5. Moving(h)' \in Nat /\ ~Told(h)' /\ ~SoughtBack(h)'
    BY <1>3 DEF Quiet
  <2> QED
    BY <2>1, <2>4, <2>5 DEF Positioned
<1>6. CASE stream'[handle[h].fd] = Unset
  <2>1. handle'[h].pos \in Nat /\ stream'[handle'[h].fd] = Unset
    BY <1>1, <1>4, <1>6 DEF Positioned
  <2> QED
    BY <2>1 DEF Positioned
<1> QED
  BY <1>5, <1>6

(* The server answers a command that is not about a position. *)
LEMMA PosInvServed ==
  ASSUME CallInv, OwnInv, PosInv, ServerStep, ~ServerSend, ~ServerClose, link',
         NEW c, Receiving(c), c \notin Positioning,
         \A h \in Handles : IsFile(h) => StaysPut(handle[h].fd),
         c = "FILE_OPEN" => OpensAtStart'
  PROVE  PosInv'
<1>1. handle' = handle /\ \A k : Replied(k)' <=> k = c
  BY Answers
<1>2. \A h : IsFile(h)' <=> IsFile(h)
  BY <1>1 DEF IsFile
<1>3. ASSUME NEW h \in Handles, IsFile(h)' PROVE Positioned(h)'
  BY <1>2, <1>3, PosLeft
<1>4. OpensAtStart'
  BY <1>1 DEF OpensAtStart, Opened
<1> QED
  BY <1>3, <1>4 DEF PosInv

(* A file is opened: the new stream is none of those there are. *)
LEMMA PosInvOpen ==
  ASSUME CallInv, OwnInv, PosInv, FileOpen, ServerStep, ~ServerSend, ~ServerClose, link'
  PROVE  PosInv'
<1>1. Receiving("FILE_OPEN") /\ "FILE_OPEN" \notin Positioning
  BY FilePut DEF Positioning, Transfers
<1>2. /\ link /\ \A k : Replied(k)' <=> k = "FILE_OPEN"
      /\ \A ret : Return(ret) => toClient'[1].ret = ret
  BY <1>1, Answers
<1>3. \A h \in Handles : IsFile(h) => handle[h].fd \in Fds /\ handle[h].fd < nextFd
  BY <1>2, HandleIs DEF CallInv, OwnInv, FdsDiffer, IsFile
<1>4. nextFd \in Int /\ \A f \in Fds : f \in Nat \ {0}
  BY RiiFSAssumption DEF CallInv, ServerInv, Fds
<1>5. CASE Return(-1) /\ UNCHANGED <<stream, nextFd>>
  <2>1. \A f \in Fds : ~Opened("FILE_OPEN", f)'
    <3>1. toClient'[1].ret = -1 /\ -1 \notin Fds
      BY <1>2, <1>5 DEF Fds
    <3> QED
      BY <3>1 DEF Opened
  <2>2. OpensAtStart'
    BY <2>1 DEF OpensAtStart
  <2> QED
    BY <1>1, <1>5, <2>2, PosInvServed DEF StaysPut
<1>6. CASE /\ nextFd \in Fds /\ Return(nextFd)
           /\ stream'[nextFd].pos = 0 /\ stream'[nextFd].ok
           /\ \A f \in Fds : f # nextFd => stream'[f] = stream[f]
  <2>1. \A h \in Handles : IsFile(h) => stream'[handle[h].fd] = stream[handle[h].fd]
    <3>1. SUFFICES ASSUME NEW h \in Handles, IsFile(h)
                   PROVE  stream'[handle[h].fd] = stream[handle[h].fd]
      OBVIOUS
    <3>2. PICK f \in Fds : f = handle[h].fd
      BY <1>3, <3>1
    <3>3. f < nextFd
      BY <1>3, <3>1, <3>2
    <3>4. f # nextFd
      BY <1>4, <3>3
    <3> QED
      BY <1>6, <3>2, <3>4
  <2>2. PICK n : n = nextFd
    OBVIOUS
  <2>3. stream'[n].pos = 0 /\ stream'[n].ok /\ toClient'[1].ret = n
    BY <1>2, <1>6, <2>2
  <2>4. OpensAtStart'
    BY <2>3 DEF OpensAtStart, Opened
  <2> QED
    BY <1>1, <2>1, <2>4, PosInvServed DEF StaysPut
<1> QED
  BY <1>5, <1>6, FilePut

(* A file is closed: its stream is gone, the others are as they were. *)
LEMMA PosInvClose ==
  ASSUME CallInv, OwnInv, PosInv, FileClose, ServerStep, ~ServerSend, ~ServerClose, link'
  PROVE  PosInv'
<1>1. Receiving("FILE_CLOSE") /\ "FILE_CLOSE" \notin Positioning
  BY DEF FileClose, ServeStream, Positioning, Transfers
<1>2. stream \in [Fds -> Stream \union {Unset}]
  BY DEF CallInv, ServerInv
<1>3. \A f \in Fds : stream'[f] \in {stream[f], Unset}
  BY <1>2 DEF FileClose, Erased
<1>4. \A h \in Handles : IsFile(h) => handle[h].fd \in Fds
  BY HandleIs DEF CallInv, IsFile
<1> QED
  BY <1>1, <1>3, <1>4, PosInvServed DEF StaysPut

(* What a command about a position finds. *)
LEMMA PosFound ==
  ASSUME CallInv, RunsInv, OwnInv, TransferInv, PosInv, ServerStep, ~ServerSend, ~ServerClose,
         link', NEW c \in Positioning, Receiving(c)
  PROVE  /\ call.h \in Handles /\ IsFile(call.h) /\ handle[call.h].fd = fd
         /\ handle[call.h].pos \in Nat /\ fd \in Fds
         /\ FileOpened /\ stream[fd] \in Stream
         /\ c \in Due /\ Due \subseteq CommandsOf(call.op) /\ call.op \in Ops
         /\ stream[fd].ok \/ ("Read" \in Ops /\ ~(call.op = "Seek" /\ Due = {"FILE_TELL"}))
         /\ \/ handle[call.h].dirty \/ stream[fd].app \/ (call.op = "Seek" /\ Due = {"FILE_TELL"})
            \/ stream[fd].pos = handle[call.h].pos
         /\ c \in Transfers => ~handle[call.h].dirty
         /\ \A h \in Handles : h # call.h /\ IsFile(h) => handle[h].fd \in Fds \ {fd}
<1>1. /\ link /\ awaiting = c /\ toClient = <<>> /\ c \in Due /\ \A k : ~Replied(k)
  BY Answers
<1>2. "FILE" \in Uses(c) /\ c \in OnHandle
  BY UsesAre DEF Positioning, Transfers, OnHandle, Listings
<1>3. handle[call.h].fd = fd /\ fd \in Fds
  BY <1>2, AnswersOn
<1>4. c # "FILE_CLOSE"
  BY DEF Positioning, Transfers
<1>5. /\ call.h \in Handles /\ IsFile(call.h) /\ stream[fd] \in Stream /\ stream[fd] # Unset
      /\ \A h \in Handles : h # call.h /\ handle[h] # Unset => handle[h].fd # fd
  BY <1>1, <1>3, <1>4, FileOfCall
<1>6. Positioned(call.h)
  BY <1>1, <1>5 DEF PosInv
<1>7. Quiet(call.h) /\ (AtEnd(call.h) <=> call.op = "Seek" /\ Due = {"FILE_TELL"})
  BY <1>1, QuietIs
<1>8. /\ handle[call.h].pos \in Nat
      /\ stream[fd].ok \/ ("Read" \in Ops /\ ~AtEnd(call.h))
      /\ handle[call.h].dirty \/ stream[fd].app \/ AtEnd(call.h) \/ stream[fd].pos = handle[call.h].pos + 0
  BY <1>3, <1>5, <1>6, <1>7 DEF Positioned, Quiet
<1>9. c \in Transfers => ~handle[call.h].dirty
  <2>1. SUFFICES ASSUME c \in Transfers, handle[call.h].dirty PROVE FALSE
    OBVIOUS
  <2>2. todo = <<>>
    BY <1>1, <2>1 DEF TransferInv
  <2>3. "FILE_SEEK" \notin Due
    BY <1>1, <2>1, <2>2 DEF Due, Requests, Transfers
  <2> QED
    BY <1>1, <2>1, <2>3 DEF TransferInv
<1>10. call.op \in Ops
  BY <1>1, IdleWaits DEF RunsInv, CallInv
<1>11. \A h \in Handles : h # call.h /\ IsFile(h) => handle[h].fd \in Fds \ {fd}
  BY <1>5, HandleIs DEF CallInv, IsFile
<1>12. stream[fd].pos = handle[call.h].pos + 0 => stream[fd].pos = handle[call.h].pos
  BY <1>8
<1> QED
  BY <1>1, <1>3, <1>5, <1>7, <1>8, <1>9, <1>10, <1>11, <1>12 DEF RunsInv, FileOpened

(* The command is answered, and the file of the call moved as its reply says. *)
LEMMA PosInvMoved ==
  ASSUME CallInv, RunsInv, OwnInv, TransferInv, PosInv, ServerStep, ~ServerSend, ~ServerClose,
         link', NEW c \in Positioning, Receiving(c),
         \A f \in Fds : f # fd => stream'[f] = stream[f],
         NEW ret \in Int, Return(ret), NEW t, t = stream'[fd],
         NEW p \in Nat, p = handle[call.h].pos,
         NEW free \in BOOLEAN, free <=> handle[call.h].dirty \/ t.app,
         t.ok \/ ("Read" \in Ops /\ c \in Transfers),
         c \in Transfers => ret \in Nat /\ (free \/ t.pos = p + ret),
         c = "FILE_TELL" => ret = t.pos,
         c = "FILE_SEEK" /\ call.op # "Seek" => t.pos = p,
         c = "FILE_SEEK" /\ call.op = "Seek" => ret = 0 \/ free \/ t.pos = p
  PROVE  PosInv'
<1>1. /\ awaiting = c /\ c # Unset
      /\ UNCHANGED <<call, todo, awaiting, handle>> /\ Due' = Due
      /\ \A k : Replied(k)' <=> k = c
      /\ toClient'[1].ret = ret
  BY Answers
<1>2. toClient' # <<>>
  BY <1>1 DEF Replied
<1>3. /\ call.h \in Handles /\ handle[call.h].fd = fd /\ c \in Due /\ Due \subseteq CommandsOf(call.op)
      /\ \A h \in Handles : h # call.h /\ IsFile(h) => handle[h].fd \in Fds \ {fd}
  BY PosFound
<1>4. PICK h \in Handles : h = call.h
  BY <1>3
<1>5. handle'[h].pos = p /\ stream'[handle'[h].fd] = t /\ (free <=> handle'[h].dirty \/ t.app)
  BY <1>1, <1>3, <1>4
<1>6. c \in Transfers => call.op # "Seek"
  BY <1>3, CommandsAre DEF Transfers
<1>7. Moving(h)' = IF c \in Transfers THEN ret ELSE 0
  BY <1>1, <1>2, <1>4 DEF Moving
<1>8. /\ Told(h)' <=> c = "FILE_TELL"
      /\ SoughtBack(h)' <=> c = "FILE_SEEK" /\ call.op # "Seek"
      /\ c \in Transfers => ~AtEnd(h)'
      /\ c = "FILE_SEEK" /\ call.op = "Seek" /\ ret = 0 => AtEnd(h)'
  BY <1>1, <1>4, <1>6 DEF Told, SoughtBack, AtEnd
<1>9. c \notin Transfers \/ (c # "FILE_TELL" /\ c # "FILE_SEEK")
  BY DEF Transfers
<1>10. t.ok \/ ("Read" \in Ops /\ ~AtEnd(h)')
  BY <1>8
<1>11. handle'[h].dirty \/ t.app \/ AtEnd(h)' \/ Told(h)' \/ t.pos = p + Moving(h)'
  <2>1. CASE c \in Transfers
    BY <1>5, <1>7, <2>1
  <2>2. CASE c = "FILE_TELL"
    BY <1>8, <2>2
  <2>3. CASE c = "FILE_SEEK"
    <3>1. Moving(h)' = 0 /\ p + Moving(h)' = p
      BY <1>7, <1>9, <2>3
    <3> QED
      BY <1>5, <1>8, <2>3, <3>1
  <2> QED
    BY <2>1, <2>2, <2>3 DEF Positioning
<1>12. Moving(h)' \in Nat
  BY <1>7
<1>13. Positioned(h)'
  <2>1. Told(h)' => toClient'[1].ret = t.pos
    BY <1>1, <1>8
  <2>2. SoughtBack(h)' => t.pos = p
    BY <1>8
  <2> QED
    BY <1>5, <1>10, <1>11, <1>12, <2>1, <2>2 DEF Positioned
<1>14. ASSUME NEW g \in Handles, IsFile(g)' PROVE Positioned(g)'
  <2>1. IsFile(g)
    BY <1>1, <1>14 DEF IsFile
  <2>2. CASE g # h
    <3>1. StaysPut(handle[g].fd)
      BY <1>3, <1>4, <2>1, <2>2 DEF StaysPut
    <3> QED
      BY <1>4, <2>1, <2>2, <3>1, PosLeft
  <2> QED
    BY <1>13, <2>2
<1>15. OpensAtStart'
  <2>1. c # "FILE_OPEN"
    BY DEF Positioning, Transfers
  <2> QED
    BY <1>1, <2>1 DEF OpensAtStart, Opened
<1> QED
  BY <1>14, <1>15 DEF PosInv

(* A stream that is appended to, or a file whose seek is pending. *)
LEMMA FreeIs ==
  ASSUME NEW t
  PROVE  \E free \in BOOLEAN : free <=> handle[call.h].dirty \/ t.app
<1>1. CASE handle[call.h].dirty \/ t.app
  BY <1>1
<1>2. CASE ~(handle[call.h].dirty \/ t.app)
  BY <1>2
<1> QED
  BY <1>1, <1>2

(* The server reads: the handler goes as far once it knows. *)
LEMMA PosInvRead ==
  ASSUME CallInv, RunsInv, OwnInv, TransferInv, PosInv, FileRead, ServerStep, ~ServerSend,
         ~ServerClose, link'
  PROVE  PosInv'
<1> DEFINE c == "FILE_READ"
<1>1. Receiving(c) /\ c \in Positioning /\ c \in Transfers /\ c # "FILE_TELL" /\ c # "FILE_SEEK"
  BY DEF FileRead, ServeStream, Positioning, Transfers
<1>2. PICK p \in Nat : p = handle[call.h].pos
  BY <1>1, PosFound
<1>3. /\ FileOpened /\ c \in CommandsOf(call.op) /\ call.op \in Ops /\ ~handle[call.h].dirty
      /\ handle[call.h].dirty \/ stream[fd].app \/ (call.op = "Seek" /\ Due = {"FILE_TELL"})
         \/ stream[fd].pos = p
  BY <1>1, <1>2, PosFound
<1>4. call.op = "Read"
  BY <1>3 DEF CommandsOf, Listings
<1>5. PICK got \in Nat : \E ok \in BOOLEAN : Moves(stream[fd].pos + got, ok) /\ Return(got)
                                            /\ stream[fd].pos + got \in Nat
  BY <1>3, ReadMoves
<1>6. PICK ok \in BOOLEAN : Moves(stream[fd].pos + got, ok) /\ Return(got)
                            /\ stream[fd].pos + got \in Nat
  BY <1>5
<1>7. PICK q \in Nat : q = stream[fd].pos + got
  BY <1>6
<1>8. Moves(q, ok)
  BY <1>6, <1>7
<1>9. PICK t : t = stream'[fd]
  OBVIOUS
<1>10. /\ \A f \in Fds : f # fd => stream'[f] = stream[f]
       /\ t.pos = q /\ t.app = stream[fd].app
  BY <1>3, <1>8, <1>9, MovesAre DEF CallInv
<1>11. PICK free \in BOOLEAN : free <=> handle[call.h].dirty \/ t.app
  BY FreeIs
<1>12. free \/ t.pos = p + got
  <2>1. stream[fd].app \/ stream[fd].pos = p
    BY <1>3, <1>4
  <2> QED
    BY <1>7, <1>10, <1>11, <2>1
<1>13. "Read" \in Ops /\ got \in Int
  BY <1>3, <1>4
<1> HIDE DEF c
<1> QED
  BY <1>1, <1>2, <1>6, <1>9, <1>10, <1>11, <1>12, <1>13, PosInvMoved

(* The server writes: the stream is sound, and the length is that of the data. *)
LEMMA PosInvWrite ==
  ASSUME ReadsApart, CallInv, RunsInv, OwnInv, TransferInv, PosInv, FileWrite, ServerStep,
         ~ServerSend, ~ServerClose, link'
  PROVE  PosInv'
<1> DEFINE c == "FILE_WRITE"
<1>1. Receiving(c) /\ c \in Positioning /\ c \in Transfers /\ c # "FILE_TELL" /\ c # "FILE_SEEK"
  BY DEF FileWrite, ServeStream, Positioning, Transfers
<1>2. PICK p \in Nat : p = handle[call.h].pos
  BY <1>1, PosFound
<1>3. /\ FileOpened /\ c \in CommandsOf(call.op) /\ call.op \in Ops /\ ~handle[call.h].dirty
      /\ handle[call.h].dirty \/ stream[fd].app \/ (call.op = "Seek" /\ Due = {"FILE_TELL"})
         \/ stream[fd].pos = p
      /\ stream[fd].ok \/ "Read" \in Ops
  BY <1>1, <1>2, PosFound
<1>4. call.op = "Write"
  BY <1>3 DEF CommandsOf, Listings
<1>5. "Read" \notin Ops /\ stream[fd].ok
  BY <1>3, <1>4 DEF ReadsApart
<1>6. stream[fd].app \/ stream[fd].pos = p
  BY <1>3, <1>4
<1>7. PICK t : t = stream'[fd]
  OBVIOUS
<1>8. PICK free \in BOOLEAN : free <=> handle[call.h].dirty \/ t.app
  BY FreeIs
<1>9. CASE UNCHANGED stream /\ Return(0)
  <2>1. t.ok /\ (free \/ t.pos = p + 0) /\ \A f \in Fds : f # fd => stream'[f] = stream[f]
    BY <1>2, <1>5, <1>6, <1>7, <1>8, <1>9
  <2> HIDE DEF c
  <2> QED
    BY <1>1, <1>2, <1>7, <1>8, <1>9, <2>1, PosInvMoved
<1>10. ASSUME NEW q \in Nat, NEW length \in Nat, Moves(q, stream[fd].ok), Return(length),
              ~stream[fd].app => q = stream[fd].pos + length
       PROVE  PosInv'
  <2>1. PICK ok \in BOOLEAN : ok = stream[fd].ok
    <3>1. stream[fd] \in Stream
      BY <1>1, PosFound
    <3> QED
      BY <3>1 DEF Stream
  <2>2. Moves(q, ok)
    BY <1>10, <2>1
  <2>3. /\ \A f \in Fds : f # fd => stream'[f] = stream[f]
        /\ t.pos = q /\ t.app = stream[fd].app /\ t.ok = ok
    BY <1>3, <1>7, <2>2, MovesAre DEF CallInv
  <2>4. free \/ t.pos = p + length
    BY <1>6, <1>8, <1>10, <2>3
  <2>5. t.ok
    BY <1>5, <2>1, <2>3
  <2>6. length \in Int /\ length \in Nat
    OBVIOUS
  <2> HIDE DEF c
  <2> QED
    BY <1>1, <1>2, <1>7, <1>8, <1>10, <2>3, <2>4, <2>5, <2>6, PosInvMoved
<1> QED
  BY <1>3, <1>5, <1>9, <1>10, WriteMoves

(* The arguments of the seek that comes before a transfer. *)
LEMMA SeeksBack ==
  ASSUME CallInv, TransferInv, link, Receiving("FILE_SEEK"), "FILE_SEEK" \in Due, call.op # "Seek"
  PROVE  options["WHENCE"] = "SET" /\ options["WHERE"] = handle[call.h].pos
<1>1. awaiting = "FILE_SEEK" /\ awaiting # Unset
  BY CommandOptions, RiiFSAssumption DEF Commands
<1>2. {"WHENCE", "WHERE"} \subseteq Uses("FILE_SEEK")
  BY UsesAre
<1>3. \A s \in call.args : s.opt \in Uses("FILE_SEEK") => options[s.opt] = s.val
  BY CommandOptions
<1>4. \A o \in {"WHENCE", "WHERE"} : \E s \in call.args : s.opt = o
  BY <1>1, <1>2 DEF CallInv, ArgsInv, Supplied
<1>5. \A s \in call.args : /\ s.opt = "WHENCE" => s.val = "SET"
                           /\ s.opt = "WHERE" => s.val = handle[call.h].pos
  BY DEF TransferInv
<1>6. PICK s \in call.args : s.opt = "WHENCE"
  BY <1>4
<1>7. PICK t \in call.args : t.opt = "WHERE"
  BY <1>4
<1> QED
  BY <1>2, <1>3, <1>5, <1>6, <1>7

(* The server seeks: back to where the handler is, or to the end. *)
LEMMA PosInvSeek ==
  ASSUME CallInv, RunsInv, OwnInv, TransferInv, PosInv, FileSeek, ServerStep, ~ServerSend,
         ~ServerClose, link'
  PROVE  PosInv'
<1> DEFINE c == "FILE_SEEK"
<1>1. Receiving(c) /\ c \in Positioning /\ c \notin Transfers /\ c # "FILE_TELL" /\ c = "FILE_SEEK"
  BY DEF FileSeek, ServeStream, Positioning, Transfers
<1>2. PICK p \in Nat : p = handle[call.h].pos
  BY <1>1, PosFound
<1>3. /\ FileOpened /\ c \in Due
      /\ handle[call.h].dirty \/ stream[fd].app \/ (call.op = "Seek" /\ Due = {"FILE_TELL"})
         \/ stream[fd].pos = p
  BY <1>1, <1>2, PosFound
<1>4. link
  BY <1>1, Answers
<1>5. PICK q \in Nat :
           /\ Moves(q, TRUE)
           /\ \/ Return(-1) /\ q = stream[fd].pos /\ ~(options["WHENCE"] = "SET" /\ options["WHERE"] \in Nat)
              \/ Return(0) /\ (options["WHENCE"] = "SET" => q = options["WHERE"])
  BY <1>3, SeekMoves
<1>6. PICK t : t = stream'[fd]
  OBVIOUS
<1>7. /\ \A f \in Fds : f # fd => stream'[f] = stream[f]
      /\ t.pos = q /\ t.app = stream[fd].app /\ t.ok
  BY <1>3, <1>5, <1>6, MovesAre DEF CallInv
<1>8. PICK free \in BOOLEAN : free <=> handle[call.h].dirty \/ t.app
  BY FreeIs
<1>9. CASE call.op # "Seek"
  <2>1. options["WHENCE"] = "SET" /\ options["WHERE"] = p
    BY <1>1, <1>2, <1>3, <1>4, <1>9, SeeksBack
  <2>2. Return(0) /\ t.pos = p /\ 0 \in Int
    BY <1>5, <1>7, <2>1
  <2> HIDE DEF c
  <2> QED
    BY <1>1, <1>2, <1>6, <1>7, <1>8, <1>9, <2>2, PosInvMoved
<1>10. CASE call.op = "Seek"
  <2>1. Due # {"FILE_TELL"}
    BY <1>3
  <2>2. CASE Return(0)
    <3>1. 0 \in Int
      OBVIOUS
    <3> HIDE DEF c
    <3> QED
      BY <1>1, <1>2, <1>6, <1>7, <1>8, <1>10, <2>2, <3>1, PosInvMoved
  <2>3. CASE Return(-1) /\ q = stream[fd].pos
    <3>1. free \/ t.pos = p
      BY <1>3, <1>7, <1>8, <2>1, <2>3
    <3>2. -1 \in Int
      OBVIOUS
    <3> HIDE DEF c
    <3> QED
      BY <1>1, <1>2, <1>6, <1>7, <1>8, <1>10, <2>3, <3>1, <3>2, PosInvMoved
  <2> QED
    BY <1>5, <2>2, <2>3
<1> QED
  BY <1>9, <1>10

(* The server tells its position: the stream that is asked has not failed. *)
LEMMA PosInvTell ==
  ASSUME ReadsApart, CallInv, RunsInv, OwnInv, TransferInv, PosInv, FileTell, ServerStep,
         ~ServerSend, ~ServerClose, link'
  PROVE  PosInv'
<1> DEFINE c == "FILE_TELL"
<1>1. Receiving(c) /\ c \in Positioning /\ c \notin Transfers /\ c = "FILE_TELL" /\ c # "FILE_SEEK"
  BY DEF FileTell, Answer, Positioning, Transfers
<1>2. PICK p \in Nat : p = handle[call.h].pos
  BY <1>1, PosFound
<1>3. /\ FileOpened /\ c \in CommandsOf(call.op) /\ call.op \in Ops /\ c \in Due
      /\ stream[fd] \in Stream
      /\ stream[fd].ok \/ ("Read" \in Ops /\ ~(call.op = "Seek" /\ Due = {"FILE_TELL"}))
  BY <1>1, PosFound
<1>4. link /\ stream' = stream
  BY <1>1, Answers DEF FileTell, Answer, serverVars
<1>5. call.op \in {"Seek", "Sync"}
  BY <1>3 DEF CommandsOf, Listings
<1>6. stream[fd].ok
  <2>1. CASE call.op = "Seek"
    <3>1. Due = {"FILE_TELL"}
      BY <1>3, <1>4, <2>1 DEF TransferInv
    <3> QED
      BY <1>3, <2>1, <3>1
  <2>2. CASE call.op = "Sync"
    BY <1>3, <2>2 DEF ReadsApart
  <2> QED
    BY <1>5, <2>1, <2>2
<1>7. PICK t \in Stream : t = stream[fd]
  BY <1>3
<1>8. PICK ret \in Int : ret = t.pos
  BY DEF Stream
<1>9. Return(ret)
  BY <1>3, <1>6, <1>7, <1>8 DEF FileTell, Answer
<1>10. PICK free \in BOOLEAN : free <=> handle[call.h].dirty \/ t.app
  BY FreeIs
<1>11. t = stream'[fd] /\ t.ok /\ \A f \in Fds : f # fd => stream'[f] = stream[f]
  BY <1>4, <1>6, <1>7
<1> HIDE DEF c
<1> QED
  BY <1>1, <1>2, <1>8, <1>9, <1>10, <1>11, PosInvMoved

(* The server serves a command. *)
LEMMA PosInvCommand ==
  ASSUME ReadsApart, CallInv, RunsInv, OwnInv, TransferInv, PosInv, ServerStep, ~ServerSend,
         ~ServerClose, ~Goodbye, link'
  PROVE  PosInv'
<1>1. ASSUME NEW c, Receiving(c), c \notin Positioning \union {"FILE_OPEN"}, stream' = stream
      PROVE  PosInv'
  BY <1>1, PosInvServed DEF StaysPut
<1>2. CASE Handshake \/ LogText \/ FileStat
  BY <1>1, <1>2 DEF Handshake, LogText, FileStat, Answer, Positioning, Transfers, serverVars
<1>9. CASE FileSync
  <2>1. Receiving("FILE_SYNC") /\ "FILE_SYNC" \notin Positioning
    BY <1>9 DEF FileSync, ServeStream, Positioning, Transfers
  <2>2. /\ stream \in [Fds -> Stream \union {Unset}]
        /\ \A h \in Handles : IsFile(h) => handle[h].fd \in Fds
    BY DEF CallInv, ServerInv, HandleInv, IsFile, Info
  <2>3. \A f \in Fds : StaysPut(f)
    <3>1. CASE ~FileOpened
      BY <1>9, <3>1 DEF FileSync, StaysPut
    <3>2. CASE FileOpened
      <4>1. stream[fd].ok \in BOOLEAN /\ stream[fd] # Unset
        BY <2>2, <3>2 DEF FileOpened, Stream
      <4>2. PICK p \in Nat : Moves(p, stream[fd].ok) /\ (~stream[fd].app => p = stream[fd].pos)
        BY <1>9, <3>2, SyncMoves
      <4>3. /\ \A f \in Fds : f # fd => stream'[f] = stream[f]
            /\ stream'[fd].pos = p /\ stream'[fd].ok = stream[fd].ok
            /\ stream'[fd].app = stream[fd].app
        BY <3>2, <4>1, <4>2, MovesAre DEF CallInv
      <4> QED
        BY <4>1, <4>2, <4>3 DEF StaysPut
    <3> QED
      BY <3>1, <3>2
  <2> QED
    BY <2>1, <2>2, <2>3, PosInvServed
<1>3. CASE FileCreate \/ FileDelete \/ FileRename \/ FileCreateDir
  BY <1>1, <1>3
     DEF FileCreate, FileDelete, FileRename, FileCreateDir, ServeDisk, Positioning, Transfers, serverVars
<1>4. CASE FileOpenDir \/ FileCloseDir \/ FileNextDirStat
  BY <1>1, <1>4 DEF FileOpenDir, FileCloseDir, FileNextDirStat, ServeListing, Positioning, Transfers
<1>5. CASE FileNextDirPath
  BY <1>1, <1>5 DEF FileNextDirPath, Positioning, Transfers, serverVars
<1>6. CASE FileOpen \/ FileClose
  BY <1>6, PosInvOpen, PosInvClose
<1>7. CASE FileRead \/ FileWrite
  BY <1>7, PosInvRead, PosInvWrite
<1>8. CASE FileSeek \/ FileTell
  BY <1>8, PosInvSeek, PosInvTell
<1> QED
  BY <1>2, <1>3, <1>4, <1>5, <1>6, <1>7, <1>8, <1>9 DEF ServerStep

(* Every step keeps it. *)
LEMMA PosInvNext ==
  ASSUME ReadsApart, CallInv, RunsInv, OwnInv, TransferInv, PosInv, [Next]_vars
  PROVE  PosInv'
<1>1. CASE Mount
  BY <1>1, PosInvMount
<1>2. CASE Call /\ ~Mount
  BY <1>2, PosInvCall
<1>3. CASE ClientSend \/ ClientRequest
  BY <1>3, PosInvAsks
<1>4. CASE ClientReceive /\ link'
  BY <1>4, PosInvReply
<1>5. CASE ServerSend \/ UNCHANGED vars
  <2>1. UNCHANGED <<call, todo, awaiting, handle, toClient, stream, link>>
    BY <1>5 DEF ServerSend, vars, clientVars, linkVars, serverVars
  <2> QED
    BY <2>1, PosInvStill
<1>6. CASE ~link' \/ ServerClose \/ Goodbye \/ Drop
  BY <1>6 DEF ServerClose, Goodbye, Drop, PosInv
<1>7. CASE ServerStep /\ ~ServerSend /\ ~ServerClose /\ ~Goodbye /\ link'
  BY <1>7, PosInvCommand
<1> QED
  BY <1>1, <1>2, <1>3, <1>4, <1>5, <1>6, <1>7 DEF Next, ClientStep

(* Between calls no command is due, so no seek to the end is half done. *)
LEMMA IdlePositions ==
  ASSUME FilesInv, PosInv
  PROVE  PositionAgreement
<1>1. SUFFICES ASSUME link, call = Idle, NEW h \in Handles, IsFile(h), ~handle[h].dirty
               PROVE  LET s == stream[handle[h].fd]
                      IN  s # Unset /\ (~s.app => s.pos = handle[h].pos)
  BY DEF PositionAgreement
<1>2. awaiting = Unset /\ Idle.op # "Seek"
  BY <1>1, IdleWaits DEF FilesInv, CallInv, Idle
<1>3. \A c \in Commands : ~Replied(c)
  BY <1>2, NothingReplied
<1>4. "FILE_CLOSE" \in Commands
  BY DEF Commands
<1>5. stream[handle[h].fd] # Unset
  BY <1>1, <1>3, <1>4 DEF FilesInv, OwnInv, Backed
<1>6. Quiet(h) /\ ~AtEnd(h)
  BY <1>1, <1>2, <1>3, QuietIs
<1>7. Positioned(h)
  BY <1>1 DEF PosInv
<1>8. /\ handle[h].pos \in Nat
      /\ stream[handle[h].fd].app \/ stream[handle[h].fd].pos = handle[h].pos + 0
  BY <1>1, <1>5, <1>6, <1>7 DEF Positioned, Quiet
<1> QED
  BY <1>5, <1>8

(* RIIFS_LOCAL_SEEKING: between calls, the position the handler keeps for a
   file is the position of the server's stream, unless a seek is pending or the
   file was opened to append.  Without the hypothesis it is not: once a read
   has stopped short, the server acknowledges writes it does not make and tells
   the position -1, and the handler believes both. *)
THEOREM PositionsAgree == FourByte = {} /\ ReadsApart => (Spec => []PositionAgreement)
<1> SUFFICES ASSUME FourByte = {}, ReadsApart PROVE Spec => []PositionAgreement
  OBVIOUS
<1> DEFINE Inv == FilesInv /\ TransferInv /\ PosInv
<1>1. Init => Inv
  BY FilesInvInit DEF Init, TransferInv, PosInv
<1>2. Inv /\ [Next]_vars => Inv'
  BY FilesInvNext, TransferInvNext, PosInvNext DEF FilesInv
<1>3. Inv => PositionAgreement
  BY IdlePositions
<1> HIDE DEF Inv
<1> QED
  BY <1>1, <1>2, <1>3, PTL DEF Spec
=============================================================================
