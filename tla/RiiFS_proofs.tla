---------------------------- MODULE RiiFS_proofs ----------------------------
(***************************************************************************)
(* Proofs about RiiFS, for every number of names, files and pending        *)
(* commands, and whatever is lost with the connection.                     *)
(*                                                                         *)
(* First, the options the handler remembers agree with those of the        *)
(* server.  The argument is about four variables only, link, cache,        *)
(* toServer and options, and about one option at a time: an option agrees  *)
(* when the last SEND of it on the way carries the remembered value or,    *)
(* with none on the way, when the server holds that value.  A queue        *)
(* changes in two ways, at its end by the handler and at its head by the   *)
(* server, so there is one lemma for a message of that option and one for  *)
(* any other message, at either end.                                       *)
(*                                                                         *)
(* Second, the handler and the server stay in step.  Nothing in the        *)
(* protocol says which request a reply answers, so it has to be the only   *)
(* one on its way, and the one the handler waits for.  The argument        *)
(* follows the one request there can be.  While the handler waits and the  *)
(* connection is up, either the request is the last message of the stream  *)
(* to the server, or its reply is the only one in the stream back; while   *)
(* it does not wait, there is neither.  Once the connection is lost,       *)
(* requests that are left over are served and get no reply.                *)
(***************************************************************************)
EXTENDS RiiFS, SequenceTheorems, TLAPS

Sends(queue, o) == {i \in DOMAIN queue : queue[i].act = "SEND" /\ queue[i].opt = o}

(* The last SEND of o in the queue, or else the server's own copy, is kept. *)
Agrees(queue, kept, held, o) ==
  \/ Sends(queue, o) = {} /\ held = kept
  \/ \E i \in Sends(queue, o) : /\ queue[i].val = kept
                               /\ \A j \in Sends(queue, o) : j <= i

Queue(q) == q \in Seq(ToSet(q))

(* The inductive invariant: OptionAgreement, and that the queue is a
   sequence and the remembered options a function on Options. *)
OptionInv ==
  /\ Queue(toServer)
  /\ DOMAIN cache = Options
  /\ DOMAIN options = Options
  /\ OptionAgreement

-----------------------------------------------------------------------------
(* Lemmas about queues.                                                     *)

(* What is known of a queue: its domain, and that of its elements. *)
LEMMA QueueShape ==
  ASSUME NEW q, Queue(q)
  PROVE  Len(q) \in Nat /\ DOMAIN q = 1..Len(q) /\ \A i \in 1..Len(q) : q[i] \in ToSet(q)
  BY DEF Queue, ToSet

(* Append makes a queue of a queue, with the new message last. *)
LEMMA QueueAppend ==
  ASSUME NEW q, Queue(q), NEW m
  PROVE  /\ Queue(Append(q, m))
         /\ DOMAIN Append(q, m) = 1..(Len(q) + 1)
         /\ \A i \in 1..Len(q) : Append(q, m)[i] = q[i]
         /\ Append(q, m)[Len(q) + 1] = m
<1> DEFINE S == ToSet(q) \union {m}
<1>1. q \in Seq(S)
  BY SeqMonotonic DEF Queue
<1>2. Append(q, m) \in Seq(S) /\ Len(Append(q, m)) = Len(q) + 1
  BY <1>1
<1>3. /\ DOMAIN Append(q, m) = 1..(Len(q) + 1)
      /\ \A i \in 1..Len(q) : Append(q, m)[i] = q[i]
      /\ Append(q, m)[Len(q) + 1] = m
  BY <1>1, <1>2
<1>4. ToSet(Append(q, m)) = S
  BY <1>3, QueueShape DEF ToSet
<1> QED
  BY <1>2, <1>3, <1>4 DEF Queue

(* Tail makes a queue of a queue that is not empty. *)
LEMMA QueueTail ==
  ASSUME NEW q, Queue(q), q # <<>>
  PROVE  /\ Queue(Tail(q))
         /\ Head(q) = q[1]
         /\ Len(q) \in Nat \ {0}
         /\ DOMAIN Tail(q) = 1..(Len(q) - 1)
         /\ \A i \in 1..(Len(q) - 1) : Tail(q)[i] = q[i + 1]
<1>1. Len(q) \in Nat \ {0} /\ Tail(q) \in Seq(ToSet(q)) /\ Len(Tail(q)) = Len(q) - 1
  BY EmptySeq, HeadTailProperties DEF Queue
<1>2. Head(q) = q[1]
  BY <1>1 DEF Queue
<1>3. /\ DOMAIN Tail(q) = 1..(Len(q) - 1)
      /\ \A i \in 1..(Len(q) - 1) : Tail(q)[i] = q[i + 1]
  BY <1>1, HeadTailProperties DEF Queue
<1>4. Tail(q) \in Seq(ToSet(Tail(q)))
  <2>1. \A i \in 1..Len(Tail(q)) : Tail(q)[i] \in ToSet(Tail(q))
    BY <1>1, <1>3 DEF ToSet
  <2>2. Tail(q) = SubSeq(Tail(q), 1, Len(Tail(q)))
    BY <1>1, SubSeqFull
  <2>3. SubSeq(Tail(q), 1, Len(Tail(q))) \in Seq(ToSet(Tail(q)))
    BY <1>1, <2>1, SubSeqProperties
  <2> QED
    BY <2>2, <2>3
<1> QED
  BY <1>1, <1>2, <1>3, <1>4 DEF Queue

(* A message that is no SEND of o, put at the end, changes nothing for o. *)
LEMMA AppendOther ==
  ASSUME NEW q, Queue(q), NEW m, NEW o, NEW kept, NEW held,
         ~(m.act = "SEND" /\ m.opt = o), Agrees(q, kept, held, o)
  PROVE  Agrees(Append(q, m), kept, held, o)
<1>1. Sends(Append(q, m), o) = Sends(q, o)
  BY QueueShape, QueueAppend DEF Sends
<1>2. \A i \in Sends(q, o) : Append(q, m)[i] = q[i]
  BY QueueShape, QueueAppend DEF Sends
<1> QED
  BY <1>1, <1>2 DEF Agrees

(* After a SEND of o at the end, its value is what is agreed on. *)
LEMMA AppendSame ==
  ASSUME NEW q, Queue(q), NEW m, NEW o, NEW held, m.act = "SEND", m.opt = o
  PROVE  Agrees(Append(q, m), m.val, held, o)
<1> DEFINE n == Len(q) + 1
<1>1. n \in Sends(Append(q, m), o) /\ Append(q, m)[n] = m
  BY QueueShape, QueueAppend DEF Sends
<1>2. \A j \in Sends(Append(q, m), o) : j <= n
  BY QueueShape, QueueAppend DEF Sends
<1> QED
  BY <1>1, <1>2 DEF Agrees

(* A message that is no SEND of o, taken from the head, changes nothing for o. *)
LEMMA TailOther ==
  ASSUME NEW q, Queue(q), q # <<>>, NEW o, NEW kept, NEW held,
         ~(Head(q).act = "SEND" /\ Head(q).opt = o), Agrees(q, kept, held, o)
  PROVE  Agrees(Tail(q), kept, held, o)
<1>1. 1 \notin Sends(q, o)
  BY QueueTail DEF Sends
<1>2. \A i \in Sends(q, o) : i - 1 \in Sends(Tail(q), o) /\ Tail(q)[i - 1] = q[i] /\ i \in Nat
  BY <1>1, QueueShape, QueueTail DEF Sends
<1>3. \A i \in Sends(Tail(q), o) : i + 1 \in Sends(q, o) /\ i \in Nat
  BY QueueShape, QueueTail DEF Sends
<1>4. CASE Sends(q, o) = {}
  BY <1>3, <1>4 DEF Agrees
<1>5. CASE Sends(q, o) # {}
  <2>1. PICK i \in Sends(q, o) : q[i].val = kept /\ \A j \in Sends(q, o) : j <= i
    BY <1>5 DEF Agrees
  <2>2. i - 1 \in Sends(Tail(q), o) /\ Tail(q)[i - 1].val = kept
    BY <1>2, <2>1
  <2>3. \A j \in Sends(Tail(q), o) : j <= i - 1
    BY <1>2, <1>3, <2>1
  <2> QED
    BY <2>2, <2>3 DEF Agrees
<1> QED
  BY <1>4, <1>5

(* When the server takes a SEND of o from the head, it holds its value. *)
LEMMA TailSame ==
  ASSUME NEW q, Queue(q), q # <<>>, NEW o, NEW kept, NEW held,
         Head(q).act = "SEND", Head(q).opt = o, Agrees(q, kept, held, o)
  PROVE  Agrees(Tail(q), kept, Head(q).val, o)
<1>1. 1 \in Sends(q, o) /\ Head(q) = q[1]
  BY QueueShape, QueueTail DEF Sends
<1>2. PICK i \in Sends(q, o) : q[i].val = kept /\ \A j \in Sends(q, o) : j <= i
  BY <1>1 DEF Agrees
<1>3. \A j \in Sends(Tail(q), o) : j + 1 \in Sends(q, o) /\ j \in Nat \ {0}
  BY QueueShape, QueueTail DEF Sends
<1>4. i \in 1..Len(q) /\ Len(q) \in Nat
  BY <1>2, QueueShape DEF Sends
<1>5. CASE i = 1
  <2>1. ASSUME NEW j \in Sends(Tail(q), o) PROVE FALSE
    <3>1. j + 1 \in Sends(q, o) /\ j \in Nat \ {0}
      BY <1>3, <2>1
    <3>2. j + 1 <= 1
      BY <1>2, <1>5, <3>1
    <3> QED
      BY <3>1, <3>2
  <2> QED
    BY <1>1, <1>2, <1>5, <2>1 DEF Agrees
<1>6. CASE i # 1
  <2>1. i - 1 \in Sends(Tail(q), o) /\ Tail(q)[i - 1].val = kept
    BY <1>2, <1>4, <1>6, QueueTail DEF Sends
  <2>2. \A j \in Sends(Tail(q), o) : j <= i - 1
    BY <1>2, <1>3, <1>4
  <2> QED
    BY <2>1, <2>2 DEF Agrees
<1> QED
  BY <1>5, <1>6

-----------------------------------------------------------------------------
(* The invariant.                                                           *)

(* OptionAgreement says of every fixed option what Agrees says of one. *)
LEMMA AgreementByOption ==
  OptionAgreement <=>
    (link => \A o \in FixedOptions : cache[o] # Unset =>
               Agrees(toServer, cache[o], options[o], o))
  BY DEF OptionAgreement, Agrees, Pending, Sends

(* A step that leaves the three alone, or that follows the loss of the
   connection, keeps the invariant. *)
LEMMA OptionInvUnchanged ==
  ASSUME OptionInv, link' => link, UNCHANGED <<cache, toServer, options>>
  PROVE  OptionInv'
  BY DEF OptionInv, OptionAgreement, Pending, Queue

(* The server takes a command from its queue. *)
LEMMA OptionInvReceiving ==
  ASSUME OptionInv, NEW command, Receiving(command), link' => link,
         UNCHANGED <<cache, options>>
  PROVE  OptionInv'
<1>1. Queue(toServer) /\ toServer # <<>> /\ toServer' = Tail(toServer)
  BY DEF OptionInv, Receiving
<1>2. Head(toServer).act = "RECEIVE"
  BY DEF Receiving, Receive
<1>3. Queue(toServer)'
  BY <1>1, QueueTail
<1>4. OptionAgreement'
  <2>1. SUFFICES ASSUME link', NEW o \in FixedOptions, cache'[o] # Unset
                 PROVE  Agrees(toServer', cache'[o], options'[o], o)
    BY DEF OptionAgreement, Agrees, Pending, Sends
  <2>2. Agrees(toServer, cache[o], options[o], o)
    BY <2>1, AgreementByOption DEF OptionInv
  <2> QED
    BY <1>1, <1>2, <2>2, TailOther
<1> QED
  BY <1>3, <1>4 DEF OptionInv

(* The handler's SendCommand: a value that is remembered is already agreed
   on, and one that is sent becomes the last. *)
LEMMA OptionInvClientSend ==
  ASSUME OptionInv, ClientSend
  PROVE  OptionInv'
<1> DEFINE s == Head(todo)
<1>1. s.act = "SEND" /\ link' = link /\ options' = options
  BY DEF ClientSend, serverVars
<1>2. Queue(toServer) /\ DOMAIN cache = Options /\ DOMAIN options = Options
  BY DEF OptionInv
<1>3. CASE UNCHANGED <<cache, toServer>>
  BY <1>1, <1>3, OptionInvUnchanged
<1>4. CASE ~link /\ UNCHANGED toServer /\ DOMAIN cache' = Options
  <2>1. OptionAgreement'
    BY <1>1, <1>4 DEF OptionAgreement
  <2> QED
    BY <1>1, <1>2, <1>4, <2>1 DEF OptionInv, Queue
<1>5. CASE /\ link /\ toServer' = Append(toServer, s)
           /\ cache' = IF Cacheable(s) THEN [cache EXCEPT ![s.opt] = s.val] ELSE cache
  <2>1. Queue(toServer)'
    BY <1>2, <1>5, QueueAppend
  <2>2. OptionAgreement'
    <3>1. SUFFICES ASSUME NEW o \in FixedOptions, cache'[o] # Unset
                   PROVE  Agrees(toServer', cache'[o], options'[o], o)
      BY DEF OptionAgreement, Agrees, Pending, Sends
    <3>2. CASE s.opt = o
      <4>1. cache'[o] = s.val
        BY <1>2, <1>5, <3>2 DEF Cacheable, FixedOptions, Options
      <4> QED
        BY <1>1, <1>2, <1>5, <3>2, <4>1, AppendSame
    <3>3. CASE s.opt # o
      <4>1. cache'[o] = cache[o]
        BY <1>2, <1>5, <3>3 DEF FixedOptions, Options
      <4>2. Agrees(toServer, cache[o], options[o], o)
        BY <1>5, <3>1, <4>1, AgreementByOption DEF OptionInv
      <4> QED
        BY <1>1, <1>2, <1>5, <3>3, <4>1, <4>2, AppendOther
    <3> QED
      BY <3>2, <3>3
  <2> QED
    BY <1>1, <1>2, <1>5, <2>1, <2>2 DEF OptionInv
<1> QED
  BY <1>2, <1>3, <1>4, <1>5 DEF ClientSend

(* The handler asks for a command to be run. *)
LEMMA OptionInvClientRequest ==
  ASSUME OptionInv, ClientRequest
  PROVE  OptionInv'
<1> DEFINE s == Head(todo)
<1>1. s.act = "RECEIVE" /\ UNCHANGED <<link, cache, options>>
  BY DEF ClientRequest, serverVars
<1>2. CASE toServer' = toServer
  BY <1>1, <1>2, OptionInvUnchanged
<1>3. CASE toServer' = Append(toServer, s)
  <2>1. Queue(toServer)'
    BY <1>3, QueueAppend DEF OptionInv
  <2>2. OptionAgreement'
    <3>1. SUFFICES ASSUME link', NEW o \in FixedOptions, cache'[o] # Unset
                   PROVE  Agrees(toServer', cache'[o], options'[o], o)
      BY DEF OptionAgreement, Agrees, Pending, Sends
    <3>2. Agrees(toServer, cache[o], options[o], o)
      BY <1>1, <3>1, AgreementByOption DEF OptionInv
    <3> QED
      BY <1>1, <1>3, <3>2, AppendOther DEF OptionInv
  <2> QED
    BY <1>1, <2>1, <2>2 DEF OptionInv
<1> QED
  BY <1>2, <1>3 DEF ClientRequest

(* The server stores an option. *)
LEMMA OptionInvServerSend ==
  ASSUME OptionInv, ServerSend
  PROVE  OptionInv'
<1> DEFINE s == Head(toServer)
<1>1. /\ Queue(toServer) /\ toServer # <<>> /\ toServer' = Tail(toServer)
      /\ s.act = "SEND" /\ UNCHANGED <<link, cache>>
      /\ options' = [options EXCEPT ![s.opt] = s.val]
      /\ DOMAIN cache = Options /\ DOMAIN options = Options
  BY DEF OptionInv, ServerSend, Stored, clientVars
<1>2. Queue(toServer)' /\ DOMAIN options' = Options
  BY <1>1, QueueTail
<1>3. OptionAgreement'
  <2>1. SUFFICES ASSUME link', NEW o \in FixedOptions, cache'[o] # Unset
                 PROVE  Agrees(toServer', cache'[o], options'[o], o)
    BY DEF OptionAgreement, Agrees, Pending, Sends
  <2>2. Agrees(toServer, cache[o], options[o], o)
    BY <1>1, <2>1, AgreementByOption DEF OptionInv
  <2>3. CASE s.opt = o
    BY <1>1, <2>2, <2>3, TailSame DEF FixedOptions, Options
  <2>4. CASE s.opt # o
    BY <1>1, <2>2, <2>4, TailOther DEF FixedOptions, Options
  <2> QED
    BY <2>3, <2>4
<1> QED
  BY <1>1, <1>2, <1>3 DEF OptionInv

(* A new connection: nothing is remembered and nothing is on its way. *)
LEMMA OptionInvMount ==
  ASSUME Mount
  PROVE  OptionInv'
<1>1. toServer' = <<>> /\ cache' = [o \in Options |-> Unset]
      /\ options' = [o \in Options |-> Unset]
  BY DEF Mount, NewCache
<1>2. Queue(toServer)'
  BY <1>1 DEF Queue
<1>3. OptionAgreement'
  BY <1>1 DEF OptionAgreement, FixedOptions, Options
<1> QED
  BY <1>1, <1>2, <1>3 DEF OptionInv

(* A call that begins, but for Mount, sends nothing yet. *)
LEMMA CallSendsNothing ==
  ASSUME Call, ~Mount
  PROVE  UNCHANGED <<link, cache, toServer, options>>
<1> USE DEF Start, Begin, Local, linkVars, serverVars
<1>1. CASE Unmount \/ CheckPhysical \/ IdleTick
  BY <1>1 DEF Unmount, CheckPhysical, IdleTick
<1>2. CASE \E p \in Paths : \/ Stat(p) \/ CreateFile(p) \/ Delete(p) \/ CreateDir(p)
                            \/ \E q \in Paths : Rename(p, q)
  BY <1>2 DEF Stat, CreateFile, Delete, CreateDir, Rename
<1>3. CASE \E text \in Data : Log(text)
  BY <1>3 DEF Log
<1>4. CASE \E h \in Handles :
             \/ \E p \in Paths, mode \in Modes : Open(h, p, mode)
             \/ \E length \in Lengths : Read(h, length)
             \/ \E data \in Data : Write(h, data)
             \/ Sync(h) \/ Close(h)
             \/ \E p \in Paths \union {Root} : OpenDir(h, p)
             \/ NextDir(h) \/ CloseDir(h)
  BY <1>4 DEF Open, Read, Write, Sync, Close, OpenDir, NextDir, CloseDir
<1>5. CASE \E h \in Handles, where \in Offsets, whence \in Whences : Seek(h, where, whence)
  BY <1>5 DEF Seek, SeekLocally
<1> QED
  BY <1>1, <1>2, <1>3, <1>4, <1>5 DEF Call

(* The value a command returned never opens the connection. *)
LEMMA ReceiveSendsNothing ==
  ASSUME ClientReceive
  PROVE  UNCHANGED <<cache, toServer, options>> /\ (link' => link)
<1>1. UNCHANGED <<cache, toServer, options>>
  BY DEF ClientReceive, serverVars
<1>2. ASSUME NEW ret, NEW entry, Returned(ret, entry)
      PROVE  link' => link
  <2>1. CASE OpenReturned(ret)
    BY <2>1 DEF OpenReturned, WithInfo, NoChange
  <2>2. CASE TransferReturned(ret)
    BY <2>2 DEF TransferReturned, WithInfo, NoChange
  <2>3. CASE SeekReturned(ret) \/ TellReturned(ret) \/ CloseReturned
    BY <2>3 DEF SeekReturned, TellReturned, CloseReturned, WithInfo, NoChange
  <2>4. CASE NextDirReturned(ret, entry) \/ ValueReturned
    BY <2>4 DEF NextDirReturned, ValueReturned, WithInfo, NoChange
  <2>5. CASE SessionReturned(ret)
    BY <2>5 DEF SessionReturned
  <2> QED
    BY <1>2, <2>1, <2>2, <2>3, <2>4, <2>5 DEF Returned
<1> QED
  BY <1>1, <1>2 DEF ClientReceive

(* Each command of the server but the storing of an option leaves the options alone. *)
LEMMA CommandTakesFromQueue ==
  ASSUME ServerStep, ~ServerSend, ~ServerClose
  PROVE  /\ \E command : Receiving(command)
         /\ UNCHANGED <<cache, options>> /\ (link' => link)
<1> USE DEF clientVars, serverVars
<1>1. CASE Handshake \/ LogText \/ FileTell \/ FileStat
  BY <1>1 DEF Handshake, LogText, FileTell, FileStat, Answer
<1>2. CASE Goodbye
  BY <1>2 DEF Goodbye
<1>3. CASE FileOpen
  BY <1>3 DEF FileOpen
<1>4. CASE FileRead
  BY <1>4 DEF FileRead, ServeStream
<1>5. CASE FileWrite
  BY <1>5 DEF FileWrite, ServeStream
<1>6. CASE FileSeek \/ FileSync
  BY <1>6 DEF FileSeek, FileSync, ServeStream
<1>7. CASE FileClose
  BY <1>7 DEF FileClose, ServeStream
<1>8. CASE FileCreate \/ FileDelete \/ FileRename \/ FileCreateDir
  BY <1>8 DEF FileCreate, FileDelete, FileRename, FileCreateDir, ServeDisk
<1>9. CASE FileOpenDir \/ FileCloseDir \/ FileNextDirStat
  BY <1>9 DEF FileOpenDir, FileCloseDir, FileNextDirStat, ServeListing
<1>10. CASE FileNextDirPath
  BY <1>10 DEF FileNextDirPath
<1> QED
  BY <1>1, <1>2, <1>3, <1>4, <1>5, <1>6, <1>7, <1>8, <1>9, <1>10 DEF ServerStep

(* The server finds the connection dead. *)
LEMMA OptionInvServerClose ==
  ASSUME OptionInv, ServerClose
  PROVE  OptionInv'
<1>1. /\ link' = link /\ ~link /\ toServer' = <<>> /\ UNCHANGED <<cache, options>>
  BY DEF ServerClose, clientVars
<1>2. Queue(toServer)'
  BY <1>1 DEF Queue
<1>3. OptionAgreement'
  BY <1>1 DEF OptionAgreement
<1> QED
  BY <1>1, <1>2, <1>3 DEF OptionInv

(* Nothing is remembered of a connection that is not there. *)
LEMMA OptionInvInit == Init => OptionInv
<1> SUFFICES ASSUME Init PROVE OptionInv
  OBVIOUS
<1>1. toServer = <<>> /\ ~link
  BY DEF Init
<1>2. DOMAIN cache = Options /\ DOMAIN options = Options
  BY DEF Init
<1> QED
  BY <1>1, <1>2 DEF OptionInv, OptionAgreement, Queue

(* Every step keeps it. *)
LEMMA OptionInvNext == OptionInv /\ [Next]_vars => OptionInv'
<1> SUFFICES ASSUME OptionInv, [Next]_vars PROVE OptionInv'
  OBVIOUS
<1>1. CASE Mount
  BY <1>1, OptionInvMount
<1>2. CASE Call /\ ~Mount
  BY <1>2, CallSendsNothing, OptionInvUnchanged
<1>3. CASE ClientStep
  BY <1>3, OptionInvClientSend, OptionInvClientRequest, ReceiveSendsNothing, OptionInvUnchanged
     DEF ClientStep
<1>4. CASE ServerSend
  BY <1>4, OptionInvServerSend
<1>5. CASE ServerClose
  BY <1>5, OptionInvServerClose
<1>6. CASE ServerStep /\ ~ServerSend /\ ~ServerClose
  BY <1>6, CommandTakesFromQueue, OptionInvReceiving
<1>7. CASE Drop
  BY <1>7, OptionInvUnchanged DEF Drop, clientVars, serverVars
<1>8. CASE UNCHANGED vars
  BY <1>8, OptionInvUnchanged DEF vars, clientVars, linkVars, serverVars
<1> QED
  BY <1>1, <1>2, <1>3, <1>4, <1>5, <1>6, <1>7, <1>8 DEF Next

(* RIIFS_LOCAL_OPTIONS is sound for the options that are always of 4 bytes:
   one the handler will not send again is one the server holds, or will hold
   once it has read what is on its way. *)
THEOREM OptionsAgree == Spec => []OptionAgreement
<1>1. OptionInv => OptionAgreement
  BY DEF OptionInv
<1> QED
  BY OptionInvInit, OptionInvNext, <1>1, PTL DEF Spec

-----------------------------------------------------------------------------
(* The two ends stay in step.                                               *)

Requests(queue) == {i \in DOMAIN queue : queue[i].act = "RECEIVE"}

(* The request for c is the last message of the queue, and the only request. *)
RequestLast(queue, c) ==
  queue # <<>> /\ Requests(queue) = {Len(queue)} /\ queue[Len(queue)].opt = c

NothingAwaited ==
  awaiting = Unset /\ toClient = <<>> /\ (link => Requests(toServer) = {})
RequestOnItsWay ==
  awaiting # Unset /\ toClient = <<>> /\ (link => RequestLast(toServer, awaiting))
ReplyOnItsWay ==
  /\ awaiting # Unset /\ (link => Requests(toServer) = {})
  /\ \E r : toClient = <<r>> /\ r.command = awaiting

(* What is left of an operation: steps each of which sends, or runs a command. *)
Program(steps) ==
  \E S : steps \in Seq(S) /\ \A m \in S : m.act = "RECEIVE" => m.opt \in Commands

InStep == NothingAwaited \/ RequestOnItsWay \/ ReplyOnItsWay

(* The inductive invariant. *)
ReplyInv ==
  /\ Queue(toServer)
  /\ Program(todo)
  /\ call = Idle => todo = <<>> /\ awaiting = Unset
  /\ InStep

-----------------------------------------------------------------------------
(* Lemmas about queues and programs.                                        *)

(* Only a request put at the end becomes the last one. *)
LEMMA RequestsAppend ==
  ASSUME NEW q, Queue(q), NEW m
  PROVE  /\ m.act # "RECEIVE" => Requests(Append(q, m)) = Requests(q)
         /\ m.act = "RECEIVE" /\ Requests(q) = {} => RequestLast(Append(q, m), m.opt)
<1>1. Len(q) \in Nat /\ DOMAIN q = 1..Len(q)
  BY QueueShape
<1>2. Append(q, m) # <<>> /\ Len(Append(q, m)) = Len(q) + 1
  BY <1>1, QueueAppend, AppendProperties DEF Queue
<1> QED
  BY <1>1, <1>2, QueueAppend DEF Requests, RequestLast

(* What the server takes is the request if there is no other, or leaves it last. *)
LEMMA RequestsTail ==
  ASSUME NEW q, Queue(q), q # <<>>
  PROVE  /\ Requests(q) = {} => Requests(Tail(q)) = {}
         /\ Head(q).act # "RECEIVE" =>
              \A c : RequestLast(q, c) => RequestLast(Tail(q), c)
         /\ Head(q).act = "RECEIVE" =>
              /\ Requests(q) # {}
              /\ \A c : RequestLast(q, c) => Head(q).opt = c /\ Requests(Tail(q)) = {}
<1>1. Len(q) \in Nat \ {0} /\ DOMAIN q = 1..Len(q) /\ Head(q) = q[1]
  BY QueueShape, QueueTail
<1>2. DOMAIN Tail(q) = 1..(Len(q) - 1) /\ \A i \in 1..(Len(q) - 1) : Tail(q)[i] = q[i + 1]
  BY QueueTail
<1>3. Len(Tail(q)) = Len(q) - 1
  BY HeadTailProperties DEF Queue
<1>4. Len(q) > 1 => Tail(q) # <<>>
  <2>1. Tail(q) \in Seq(ToSet(q))
    BY HeadTailProperties DEF Queue
  <2>2. Tail(q) = <<>> => Len(Tail(q)) = 0
    BY <2>1, EmptySeq
  <2> QED
    BY <1>1, <1>3, <2>2
<1>5. \A i \in Requests(Tail(q)) : i + 1 \in Requests(q) /\ i \in Nat \ {0}
  BY <1>1, <1>2 DEF Requests
<1>6. 1 \in Requests(q) <=> Head(q).act = "RECEIVE"
  BY <1>1 DEF Requests
<1>7. ASSUME Head(q).act # "RECEIVE", NEW c, RequestLast(q, c)
      PROVE  RequestLast(Tail(q), c)
  <2>1. Requests(q) = {Len(q)} /\ Len(q) > 1
    BY <1>1, <1>6, <1>7 DEF RequestLast
  <2>2. Len(q) - 1 \in Requests(Tail(q))
    BY <1>1, <1>2, <2>1 DEF Requests
  <2>3. Requests(Tail(q)) = {Len(q) - 1}
    BY <1>1, <1>5, <2>1, <2>2
  <2> QED
    BY <1>1, <1>2, <1>3, <1>4, <1>7, <2>1, <2>3 DEF RequestLast
<1>8. ASSUME Head(q).act = "RECEIVE", NEW c, RequestLast(q, c)
      PROVE  Head(q).opt = c /\ Requests(Tail(q)) = {}
  <2>1. Requests(q) = {1} /\ Len(q) = 1
    BY <1>1, <1>6, <1>8 DEF RequestLast
  <2> QED
    BY <1>1, <1>5, <1>8, <2>1 DEF RequestLast
<1>9. Requests(q) = {} => Requests(Tail(q)) = {}
  BY <1>5
<1> QED
  BY <1>6, <1>7, <1>8, <1>9

(* One program after another is a program. *)
LEMMA ProgramConcat ==
  ASSUME NEW p, NEW q, Program(p), Program(q)
  PROVE  Program(p \o q)
<1>1. PICK S : p \in Seq(S) /\ \A m \in S : m.act = "RECEIVE" => m.opt \in Commands
  BY DEF Program
<1>2. PICK T : q \in Seq(T) /\ \A m \in T : m.act = "RECEIVE" => m.opt \in Commands
  BY DEF Program
<1>3. p \in Seq(S \union T) /\ q \in Seq(S \union T)
  BY <1>1, <1>2, SeqMonotonic
<1>4. p \o q \in Seq(S \union T)
  BY <1>3, ConcatProperties
<1> QED
  BY <1>1, <1>2, <1>4 DEF Program

(* A single step is a program. *)
LEMMA ProgramOne ==
  ASSUME NEW m, m.act = "RECEIVE" => m.opt \in Commands
  PROVE  Program(<<m>>)
<1> DEFINE p == <<m>>
           S == {m}
<1>1. p \in Seq(S) /\ \A s \in S : s.act = "RECEIVE" => s.opt \in Commands
  OBVIOUS
<1> HIDE DEF p, S
<1>2. Program(p)
  BY <1>1 DEF Program
<1> QED
  BY <1>2 DEF p

(* Nothing is left. *)
LEMMA ProgramNone == Program(<<>>)
<1> DEFINE p == <<>>
           S == {}
<1>1. p \in Seq(S) /\ \A s \in S : s.act = "RECEIVE" => s.opt \in Commands
  OBVIOUS
<1> HIDE DEF p, S
<1>2. Program(p)
  BY <1>1 DEF Program
<1> QED
  BY <1>2 DEF p

(* The forms that the programs of the handler have, but for the seek before a
   transfer. *)
LEMMA ProgramForms ==
  ASSUME NEW c \in Commands
  PROVE  /\ Program(<<Receive(c)>>)
         /\ \A o, v : Program(<<Send(o, v)>>)
         /\ \A o, v : Program(<<Send(o, v), Receive(c)>>)
         /\ \A o, v, d : d \in Commands => Program(<<Send(o, v), Receive(d), Receive(c)>>)
         /\ \A o, v, p, w : Program(<<Send(o, v), Send(p, w), Receive(c)>>)
         /\ \A o, v, p, w, q, x : Program(<<Send(o, v), Send(p, w), Send(q, x), Receive(c)>>)
<1>1. Program(<<Receive(c)>>)
  BY ProgramOne DEF Receive
<1>2. ASSUME NEW o, NEW v PROVE Program(<<Send(o, v)>>)
  BY ProgramOne DEF Send
<1>3. ASSUME NEW o, NEW v, NEW steps, Program(steps)
      PROVE  Program(<<Send(o, v)>> \o steps)
  BY <1>2, <1>3, ProgramConcat
<1>4. ASSUME NEW o, NEW v PROVE Program(<<Send(o, v), Receive(c)>>)
  <2>1. <<Send(o, v), Receive(c)>> = <<Send(o, v)>> \o <<Receive(c)>>
    OBVIOUS
  <2> QED
    BY <1>1, <1>3, <2>1
<1>5. ASSUME NEW o, NEW v, NEW d \in Commands
      PROVE  Program(<<Send(o, v), Receive(d), Receive(c)>>)
  <2>1. <<Send(o, v), Receive(d), Receive(c)>>
          = <<Send(o, v)>> \o (<<Receive(d)>> \o <<Receive(c)>>)
    OBVIOUS
  <2>2. Program(<<Receive(d)>>)
    BY ProgramOne DEF Receive
  <2>3. Program(<<Receive(d)>> \o <<Receive(c)>>)
    BY <1>1, <2>2, ProgramConcat
  <2> QED
    BY <1>3, <2>1, <2>3
<1>6. ASSUME NEW o, NEW v, NEW p, NEW w PROVE Program(<<Send(o, v), Send(p, w), Receive(c)>>)
  <2>1. <<Send(o, v), Send(p, w), Receive(c)>> = <<Send(o, v)>> \o <<Send(p, w), Receive(c)>>
    OBVIOUS
  <2> QED
    BY <1>3, <1>4, <2>1
<1>7. ASSUME NEW o, NEW v, NEW p, NEW w, NEW q, NEW x
      PROVE  Program(<<Send(o, v), Send(p, w), Send(q, x), Receive(c)>>)
  <2>1. <<Send(o, v), Send(p, w), Send(q, x), Receive(c)>>
          = <<Send(o, v)>> \o <<Send(p, w), Send(q, x), Receive(c)>>
    OBVIOUS
  <2> QED
    BY <1>3, <1>6, <2>1
<1> QED
  BY <1>1, <1>2, <1>4, <1>5, <1>6, <1>7

(* What is done first, and what is left of the program then. *)
LEMMA ProgramStep ==
  ASSUME NEW p, Program(p), p # <<>>
  PROVE  Program(Tail(p)) /\ (Head(p).act = "RECEIVE" => Head(p).opt \in Commands)
<1>1. PICK S : p \in Seq(S) /\ \A m \in S : m.act = "RECEIVE" => m.opt \in Commands
  BY DEF Program
<1>2. Head(p) \in S /\ Tail(p) \in Seq(S)
  BY <1>1, HeadTailProperties
<1> QED
  BY <1>1, <1>2 DEF Program

-----------------------------------------------------------------------------
(* The handler's calls.                                                     *)

(* A call begins when nothing is awaited, with a program to run. *)
Starts ==
  /\ call = Idle /\ UNCHANGED <<awaiting, linkVars>>
  /\ UNCHANGED <<call, todo>> \/ (call' # Idle /\ Program(todo'))

(* Begin starts a call. *)
LEMMA BeginStarts ==
  ASSUME NEW op, op # "Idle", NEW h, NEW steps, Program(steps), Begin(op, h, steps)
  PROVE  Starts
<1>1. call'.op # Idle.op
  BY DEF Begin, Idle
<1> QED
  BY <1>1 DEF Begin, Starts

(* The seek that DIRTY_SEEK puts before a transfer. *)
LEMMA ProgramSeek ==
  ASSUME NEW info, NEW where, NEW whence
  PROVE  Program(RiiSeek(info, where, whence)) /\ Program(DirtySeek(info))
<1>1. ASSUME NEW w, NEW v PROVE Program(RiiSeek(info, w, v))
  BY ProgramForms DEF RiiSeek, Commands
<1> QED
  BY <1>1, ProgramNone DEF DirtySeek

(* Every call but Mount, which is a connection of its own, starts so. *)
LEMMA CallStarts ==
  ASSUME Call, ~Mount
  PROVE  Starts
<1>1. CASE Unmount \/ CheckPhysical
  BY <1>1, ProgramForms, BeginStarts
     DEF Unmount, CheckPhysical, Start, Commands
<1>2. CASE IdleTick
  <2>1. PICK ping \in {<<>>, <<Send("PING", Unset)>>} :
          LET flush == IF logBuffer = Unset THEN <<>>
                       ELSE <<Send("DATA", logBuffer), Receive("LOG")>>
          IN  Start("IdleTick", Unset, flush \o ping)
    BY <1>2 DEF IdleTick
  <2>2. Program(ping)
    BY ProgramNone, ProgramForms DEF Commands
  <2>3. Program(<<Send("DATA", logBuffer), Receive("LOG")>>)
    BY ProgramForms DEF Commands
  <2> QED
    BY <2>1, <2>2, <2>3, ProgramNone, ProgramConcat, BeginStarts DEF Start
<1>3. CASE \E p \in Paths : \/ Stat(p) \/ CreateFile(p) \/ Delete(p) \/ CreateDir(p)
                            \/ \E q \in Paths : Rename(p, q)
  BY <1>3, ProgramForms, BeginStarts
     DEF Stat, CreateFile, Delete, CreateDir, Rename, Start, Commands
<1>4. CASE \E text \in Data : Log(text)
  BY <1>4 DEF Log, Local, Starts
<1>5. CASE \E h \in Handles : \/ \E p \in Paths, mode \in Modes : Open(h, p, mode)
                              \/ Sync(h) \/ Close(h)
  BY <1>5, ProgramForms, BeginStarts DEF Open, Sync, Close, Start, Commands
<1>6. CASE \E h \in Handles : \/ \E p \in Paths \union {Root} : OpenDir(h, p)
                              \/ NextDir(h) \/ CloseDir(h)
  BY <1>6, ProgramForms, BeginStarts DEF OpenDir, NextDir, CloseDir, Start, Commands
<1>7. CASE \E h \in Handles : \/ \E length \in Lengths : Read(h, length)
                              \/ \E data \in Data : Write(h, data)
  <2>1. ASSUME NEW f, NEW length
        PROVE  Program(<<Send("FILE", f), Send("LENGTH", length), Receive("FILE_READ")>>)
    BY ProgramForms DEF Commands
  <2>2. ASSUME NEW f, NEW data
        PROVE  Program(<<Send("FILE", f), Send("DATA", data), Receive("FILE_WRITE")>>)
    BY ProgramForms DEF Commands
  <2> QED
    BY <1>7, <2>1, <2>2, ProgramSeek, ProgramConcat, BeginStarts DEF Read, Write, Start
<1>8. CASE \E h \in Handles, where \in Offsets, whence \in Whences : Seek(h, where, whence)
  BY <1>8, ProgramSeek, BeginStarts DEF Seek, SeekLocally, Local, Start, Starts
<1> QED
  BY <1>1, <1>2, <1>3, <1>4, <1>5, <1>6, <1>7, <1>8 DEF Call

(* What is done with a value goes on with a program, and ends the call with it. *)
LEMMA ReturnedContinues ==
  ASSUME Program(todo), NEW ret, NEW entry, Returned(ret, entry)
  PROVE  \E rest : Continue(rest) /\ Program(rest)
<1>1. CASE OpenReturned(ret) \/ TransferReturned(ret) \/ TellReturned(ret)
  <2>1. Continue(todo)
    BY <1>1 DEF OpenReturned, TransferReturned, TellReturned
  <2> QED
    BY <2>1
<1>2. CASE CloseReturned \/ SessionReturned(ret) \/ ValueReturned
  BY <1>2 DEF CloseReturned, SessionReturned, ValueReturned
<1>3. CASE SeekReturned(ret)
  <2>1. Program(<<Receive("FILE_TELL")>>)
    BY ProgramOne DEF Receive, Commands
  <2> QED
    BY <1>3, <2>1, ProgramNone DEF SeekReturned
<1>4. CASE NextDirReturned(ret, entry)
  BY <1>4, ProgramNone DEF NextDirReturned
<1> QED
  BY <1>1, <1>2, <1>3, <1>4 DEF Returned

-----------------------------------------------------------------------------
(* The invariant, one lemma for each kind of step.                          *)

(* A new connection has nothing on its way. *)
LEMMA ReplyInvMount ==
  ASSUME ReplyInv, Mount
  PROVE  ReplyInv'
<1>1. /\ call = Idle /\ toServer' = <<>> /\ toClient' = <<>> /\ awaiting' = awaiting
      /\ todo' = <<Send("HANDSHAKE", "1.03"), Receive("HANDSHAKE")>> /\ call'.op = "Mount"
  BY DEF Mount
<1>2. Queue(toServer)' /\ Requests(toServer)' = {}
  BY <1>1 DEF Queue, Requests
<1>3. Program(todo)'
  BY <1>1, ProgramForms DEF Commands
<1>4. call' # Idle
  BY <1>1 DEF Idle
<1> QED
  BY <1>1, <1>2, <1>3, <1>4 DEF ReplyInv, InStep, NothingAwaited

(* A call that begins sends nothing yet. *)
LEMMA ReplyInvCall ==
  ASSUME ReplyInv, Call, ~Mount
  PROVE  ReplyInv'
<1>1. Starts
  BY CallStarts
<1>2. InStep'
  BY <1>1 DEF Starts, linkVars, ReplyInv, InStep, NothingAwaited, RequestOnItsWay, ReplyOnItsWay
<1> QED
  BY <1>1, <1>2 DEF Starts, linkVars, ReplyInv, Queue

(* SendCommand is made when nothing is awaited, and gets no answer. *)
LEMMA ReplyInvClientSend ==
  ASSUME ReplyInv, ClientSend
  PROVE  ReplyInv'
<1>1. /\ todo # <<>> /\ awaiting = Unset /\ awaiting' = Unset /\ Head(todo).act = "SEND"
      /\ link' = link /\ toClient' = toClient /\ Continue(Tail(todo))
      /\ toServer' \in {toServer, Append(toServer, Head(todo))}
  BY DEF ClientSend
<1>2. Program(todo)' /\ call # Idle
  BY <1>1, ProgramStep DEF ReplyInv, Continue
<1>3. NothingAwaited /\ Queue(toServer)
  BY <1>1 DEF ReplyInv, InStep, NothingAwaited, RequestOnItsWay, ReplyOnItsWay
<1>4. Queue(toServer')
  <2>1. Queue(Append(toServer, Head(todo)))
    BY <1>3, QueueAppend
  <2> QED
    BY <1>1, <1>3, <2>1
<1>5. Requests(toServer') = Requests(toServer)
  BY <1>1, <1>3, RequestsAppend
<1>6. NothingAwaited'
  BY <1>1, <1>3, <1>5 DEF NothingAwaited
<1>7. Queue(toServer)'
  BY <1>4 DEF Queue
<1> QED
  BY <1>1, <1>2, <1>6, <1>7 DEF ReplyInv, InStep, Continue

(* The request is the only one, and the last message of the stream. *)
LEMMA ReplyInvClientRequest ==
  ASSUME ReplyInv, ClientRequest
  PROVE  ReplyInv'
<1>1. /\ todo # <<>> /\ awaiting = Unset /\ Head(todo).act = "RECEIVE"
      /\ awaiting' = Head(todo).opt /\ todo' = Tail(todo) /\ UNCHANGED <<call, link, toClient>>
      /\ toServer' = IF link THEN Append(toServer, Head(todo)) ELSE toServer
  BY DEF ClientRequest
<1>2. Program(todo)' /\ call # Idle /\ awaiting' \in Commands
  BY <1>1, ProgramStep DEF ReplyInv
<1>3. NothingAwaited /\ Queue(toServer)
  BY <1>1 DEF ReplyInv, InStep, NothingAwaited, RequestOnItsWay, ReplyOnItsWay
<1>4. Queue(toServer)' /\ (link => RequestLast(toServer', awaiting'))
  BY <1>1, <1>3, RequestsAppend, QueueAppend DEF NothingAwaited
<1>5. RequestOnItsWay'
  BY <1>1, <1>2, <1>3, <1>4, RiiFSAssumption DEF NothingAwaited, RequestOnItsWay
<1> QED
  BY <1>1, <1>2, <1>4, <1>5 DEF ReplyInv, InStep

(* With the value, or the failure of the connection, the wait is over. *)
LEMMA ReplyInvClientReceive ==
  ASSUME ReplyInv, ClientReceive
  PROVE  ReplyInv'
<1>1. /\ awaiting # Unset /\ awaiting' = Unset /\ toServer' = toServer
      /\ \E ret, entry : Returned(ret, entry)
  BY DEF ClientReceive
<1>2. PICK rest : Continue(rest) /\ Program(rest) /\ (link' => link)
  BY <1>1, ReturnedContinues, ReceiveSendsNothing DEF ReplyInv
<1>3. Program(todo)' /\ (call' = Idle => todo' = <<>>)
  BY <1>1, <1>2 DEF ReplyInv, Continue
<1>4. NothingAwaited'
  <2>1. CASE toClient # <<>> /\ toClient' = Tail(toClient)
    <3>1. ReplyOnItsWay
      BY <2>1 DEF ReplyInv, InStep, NothingAwaited, RequestOnItsWay
    <3>2. toClient' = <<>>
      BY <2>1, <3>1 DEF ReplyOnItsWay
    <3> QED
      BY <1>1, <1>2, <3>1, <3>2 DEF ReplyOnItsWay, NothingAwaited
  <2>2. CASE ReceiveFails /\ toClient' = toClient
    BY <1>1, <1>2, <2>2 DEF ReceiveFails, NothingAwaited
  <2> QED
    BY <2>1, <2>2 DEF ClientReceive
<1> QED
  BY <1>1, <1>3, <1>4 DEF ReplyInv, InStep, Queue

(* A command of the server is answered once, on a connection that is up. *)
LEMMA CommandReplies ==
  ASSUME ServerStep, ~ServerSend, ~ServerClose
  PROVE  /\ \E ret, entry : ReturnEntry(ret, entry)
         /\ UNCHANGED <<call, todo, awaiting>>
<1> USE DEF clientVars
<1>1. CASE Handshake \/ LogText \/ FileTell \/ FileStat
  BY <1>1 DEF Handshake, LogText, FileTell, FileStat, Answer, Return
<1>2. CASE Goodbye
  BY <1>2 DEF Goodbye, Return
<1>3. CASE FileOpen
  BY <1>3 DEF FileOpen, Return
<1>4. CASE FileRead
  BY <1>4 DEF FileRead, ServeStream, Return
<1>5. CASE FileWrite
  BY <1>5 DEF FileWrite, ServeStream, Return
<1>6. CASE FileSeek \/ FileSync
  BY <1>6 DEF FileSeek, FileSync, ServeStream, Return
<1>7. CASE FileClose
  BY <1>7 DEF FileClose, ServeStream, Return
<1>8. CASE FileCreate \/ FileDelete \/ FileRename \/ FileCreateDir
  BY <1>8 DEF FileCreate, FileDelete, FileRename, FileCreateDir, ServeDisk, Return
<1>9. CASE FileOpenDir \/ FileCloseDir \/ FileNextDirStat
  BY <1>9 DEF FileOpenDir, FileCloseDir, FileNextDirStat, ServeListing, Return
<1>10. CASE FileNextDirPath
  BY <1>10 DEF FileNextDirPath, Return
<1> QED
  BY <1>1, <1>2, <1>3, <1>4, <1>5, <1>6, <1>7, <1>8, <1>9, <1>10 DEF ServerStep

(* The command the server takes is the one awaited, and its reply the only one. *)
LEMMA ReplyInvCommand ==
  ASSUME ReplyInv, ServerStep, ~ServerSend, ~ServerClose
  PROVE  ReplyInv'
<1>1. PICK command : Receiving(command)
  BY CommandTakesFromQueue
<1>2. PICK ret, entry : ReturnEntry(ret, entry)
  BY CommandReplies
<1>3. UNCHANGED <<call, todo, awaiting>> /\ (link' => link)
  BY CommandReplies, CommandTakesFromQueue
<1>4. /\ Queue(toServer) /\ toServer # <<>> /\ toServer' = Tail(toServer)
      /\ Head(toServer).act = "RECEIVE"
  BY <1>1 DEF ReplyInv, Receiving, Receive
<1>5. Queue(toServer')
  BY <1>4, QueueTail
<1>6. InStep'
  <2>1. CASE ~link
    BY <1>2, <1>3, <2>1
       DEF ReplyInv, InStep, NothingAwaited, RequestOnItsWay, ReplyOnItsWay, ReturnEntry
  <2>2. CASE link
    <3>1. Requests(toServer) # {}
      BY <1>4, RequestsTail
    <3>2. RequestOnItsWay
      BY <2>2, <3>1 DEF ReplyInv, InStep, NothingAwaited, ReplyOnItsWay
    <3>3. Head(toServer).opt = awaiting /\ Requests(toServer') = {}
      BY <1>4, <2>2, <3>2, RequestsTail DEF RequestOnItsWay
    <3>4. toClient' = <<[command |-> awaiting, ret |-> ret, entry |-> entry]>>
      BY <1>2, <2>2, <3>2, <3>3 DEF RequestOnItsWay, ReturnEntry, Reply
    <3> QED
      BY <1>3, <3>2, <3>3, <3>4 DEF RequestOnItsWay, InStep, ReplyOnItsWay
  <2> QED
    BY <2>1, <2>2
<1> QED
  BY <1>3, <1>5, <1>6 DEF ReplyInv, Queue

(* Options before the request are stored first. *)
LEMMA ReplyInvServerSend ==
  ASSUME ReplyInv, ServerSend
  PROVE  ReplyInv'
<1>1. /\ Queue(toServer) /\ toServer # <<>> /\ toServer' = Tail(toServer)
      /\ Head(toServer).act # "RECEIVE" /\ UNCHANGED <<call, todo, awaiting, link, toClient>>
  BY DEF ReplyInv, ServerSend, clientVars
<1>2. Queue(toServer')
  BY <1>1, QueueTail
<1>3. /\ Requests(toServer) = {} => Requests(toServer') = {}
      /\ RequestLast(toServer, awaiting) => RequestLast(toServer', awaiting)
  BY <1>1, RequestsTail
<1>4. InStep'
  BY <1>1, <1>3 DEF ReplyInv, InStep, NothingAwaited, RequestOnItsWay, ReplyOnItsWay
<1> QED
  BY <1>1, <1>2, <1>4 DEF ReplyInv, Queue

(* What is lost with the connection, or left of it unread. *)
LEMMA ReplyInvLost ==
  ASSUME ReplyInv, ~link', Queue(toServer)', toClient' \in {toClient, <<>>},
         UNCHANGED <<call, todo, awaiting>>
  PROVE  ReplyInv'
  BY DEF ReplyInv, InStep, NothingAwaited, RequestOnItsWay, ReplyOnItsWay

(* Nothing is on its way at the start. *)
LEMMA ReplyInvInit == Init => ReplyInv
<1> SUFFICES ASSUME Init PROVE ReplyInv
  OBVIOUS
<1>1. /\ toServer = <<>> /\ toClient = <<>> /\ todo = <<>>
      /\ ~link /\ awaiting = Unset /\ call = Idle
  BY DEF Init
<1>2. Queue(toServer) /\ Program(todo)
  BY <1>1, ProgramNone DEF Queue
<1> QED
  BY <1>1, <1>2 DEF ReplyInv, InStep, NothingAwaited

(* Each step keeps the invariant. *)
LEMMA ReplyInvNext == ReplyInv /\ [Next]_vars => ReplyInv'
<1> SUFFICES ASSUME ReplyInv, [Next]_vars PROVE ReplyInv'
  OBVIOUS
<1>1. CASE Mount
  BY <1>1, ReplyInvMount
<1>2. CASE Call /\ ~Mount
  BY <1>2, ReplyInvCall
<1>3. CASE ClientStep
  BY <1>3, ReplyInvClientSend, ReplyInvClientRequest, ReplyInvClientReceive DEF ClientStep
<1>4. CASE ServerSend
  BY <1>4, ReplyInvServerSend
<1>5. CASE ServerClose
  <2>1. /\ ~link' /\ toServer' = <<>> /\ toClient' = toClient
        /\ UNCHANGED <<call, todo, awaiting>>
    BY <1>5 DEF ServerClose, clientVars
  <2>2. Queue(toServer)'
    BY <2>1 DEF Queue
  <2> QED
    BY <2>1, <2>2, ReplyInvLost
<1>6. CASE ServerStep /\ ~ServerSend /\ ~ServerClose
  BY <1>6, ReplyInvCommand
<1>7. CASE Drop
  <2>1. /\ ~link' /\ toServer' = toServer /\ toClient' \in {toClient, <<>>}
        /\ UNCHANGED <<call, todo, awaiting>>
    BY <1>7 DEF Drop, clientVars
  <2>2. Queue(toServer)'
    BY <2>1 DEF ReplyInv, Queue
  <2> QED
    BY <2>1, <2>2, ReplyInvLost
<1>8. CASE UNCHANGED vars
  BY <1>8 DEF vars, clientVars, linkVars, ReplyInv, Queue, InStep, NothingAwaited,
              RequestOnItsWay, ReplyOnItsWay
<1> QED
  BY <1>1, <1>2, <1>3, <1>4, <1>5, <1>6, <1>7, <1>8 DEF Next

(* The two ends never get out of step: a value that reaches the handler is the
   only one on its way, and the value of the command the handler waits for,
   whatever calls are made, skipped sends there are and connections are lost. *)
THEOREM RepliesInStep == Spec => []RepliesMatch
<1>1. ReplyInv => RepliesMatch
  <2> SUFFICES ASSUME ReplyInv, toClient # <<>>
               PROVE  Len(toClient) = 1 /\ Head(toClient).command = awaiting
    BY DEF RepliesMatch
  <2>1. PICK r : toClient = <<r>> /\ r.command = awaiting
    BY DEF ReplyInv, InStep, NothingAwaited, RequestOnItsWay, ReplyOnItsWay
  <2> QED
    BY <2>1
<1> QED
  BY ReplyInvInit, ReplyInvNext, <1>1, PTL DEF Spec
=============================================================================
