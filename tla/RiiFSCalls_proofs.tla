-------------------------- MODULE RiiFSCalls_proofs --------------------------
(***************************************************************************)
(* Proofs about RiiFS, for every number of files, names, buffers, callers  *)
(* and pending commands, and with the connection lost at any moment: every *)
(* command of the server runs on the arguments of the call it belongs to,  *)
(* and both ends stay well formed.                                         *)
(*                                                                         *)
(* The two go together.  The server looks up the options of a command      *)
(* without checking them, and the handler does with the value it gets back *)
(* what suits the call, so the shape of either side depends on the options *)
(* being those of the call and on the call being about a file that is      *)
(* there.  CallInv follows a call from its program, through the queue, to  *)
(* the reply: each option a command uses is sent before it in the program, *)
(* or on its way before it, or held by the server; the request on its way  *)
(* is the only one; there is a descriptor for what is opened; and a        *)
(* command that is due suits the objects of the file module.  It rests on  *)
(* the invariants of RiiFS_proofs, about options and about replies.        *)
(*                                                                         *)
(* One lemma for each form of program says that it is Proper; one for each *)
(* call, for each step of the handler and for each command of the server   *)
(* says that it keeps the invariant.                                       *)
(***************************************************************************)
EXTENDS RiiFS_proofs, FiniteSetTheorems, FunctionTheorems

Opens == {"FILE_OPEN", "FILE_OPENDIR"}
Listings == {"FILE_NEXTDIR_PATH", "FILE_NEXTDIR_STAT"}
Sessions == {"HANDSHAKE", "GOODBYE"}
(* The commands that are run on the file or directory of the call. *)
OnHandle == Listings \union {"FILE_READ", "FILE_WRITE", "FILE_SEEK", "FILE_TELL",
                             "FILE_SYNC", "FILE_CLOSE"}
(* The commands that are the only one of their call. *)
Single == Opens \union Sessions \union {"FILE_CLOSE"}

(* The values of an option that a command can be run on. *)
Legal(c, o) ==
  CASE o = "FILE" -> Fds
    [] o = "PATH" -> IF c = "FILE_OPENDIR" THEN Paths \union {Root} ELSE Paths
    [] o \in {"RENAME_SOURCE", "RENAME_DESTINATION"} -> Paths
    [] o = "MODE" -> Modes
    [] o = "LENGTH" -> Lengths
    [] o = "DATA" -> Data
    [] o = "WHERE" -> Int
    [] OTHER -> Whences

(* Each option that c uses is an argument that the server holds, or will once
   it has read the queue, or that is still to be sent. *)
Supplied(c, args, queue, held, unsent) ==
  \A o \in Uses(c) : \E s \in args :
    /\ s.opt = o /\ s.val \in Legal(c, o)
    /\ Agrees(queue, s.val, held[o], o) \/ s \in unsent

Before(steps, i) == {steps[j] : j \in 1..(i - 1)}
SendsOf(steps) == {s \in ToSet(steps) : s.act = "SEND"}

(* The arguments of a call: messages, one for each option. *)
Arguments(args) ==
  /\ \A s \in args : /\ s.act = "SEND" /\ s.opt \in Options
                     /\ s.opt \in FixedOptions => s.val # Unset
  /\ \A s, t \in args : s.opt = t.opt => s = t

ArgsInv ==
  /\ Arguments(call.args)
  /\ \A i \in DOMAIN todo : todo[i].act = "SEND" => todo[i] \in call.args
  /\ link => \A i \in Requests(todo) :
               Supplied(todo[i].opt, call.args, toServer, options, Before(todo, i))
  /\ link /\ awaiting # Unset => Supplied(awaiting, call.args, toServer, options, {})

(* The one request of the queue, which may be left over, and its options. *)
QueueInv ==
  \A i \in Requests(toServer) :
    /\ i = Len(toServer)
    /\ \A o \in Uses(toServer[i].opt) : \E v \in Legal(toServer[i].opt, o) :
         Agrees(toServer, v, options[o], o)

(* The commands whose return values the call has not seen yet. *)
Due == {todo[i].opt : i \in Requests(todo)} \union ({awaiting} \ {Unset})

SingleInv ==
  /\ \A i \in Requests(todo) : todo[i].opt \in Single => awaiting = Unset /\ Requests(todo) = {i}
  /\ awaiting \in Single => Requests(todo) = {}

(* There is a descriptor left for what is opened. *)
RoomInv ==
  /\ \A i \in Requests(toServer) : toServer[i].opt \in Opens => nextFd <= MaxFd
  /\ link => \A i \in Requests(todo) : todo[i].opt \in Opens => nextFd <= MaxFd

(* A command suits the files the module has: what is opened gets an object
   that is free, what is used is there, and its descriptor is the argument. *)
Fits(c, h, args) ==
  /\ c \in Opens => h \in Handles /\ handle[h] = Unset /\ mounted
  /\ c \in OnHandle =>
       /\ h \in Handles /\ handle[h] # Unset
       /\ handle[h].kind = IF c \in Listings THEN "dir" ELSE "file"
       /\ \A s \in args : s.opt = "FILE" => s.val = handle[h].fd
  /\ c \in Sessions => \A g \in Handles : handle[g] = Unset

HandleInv ==
  /\ handle \in [Handles -> Info \union {Unset}]
  /\ logBuffer \in Data \union {Unset}
  /\ mounted \in BOOLEAN
  /\ ~mounted => \A h \in Handles : handle[h] = Unset
  /\ \A c \in Due : Fits(c, call.h, call.args)

ServerInv ==
  /\ link \in BOOLEAN /\ silent \in BOOLEAN /\ serving \in BOOLEAN
  /\ stream \in [Fds -> Stream \union {Unset}]
  /\ listing \in [Fds -> Listing \union {Unset}]
  /\ nextFd \in 1..(MaxFd + 1)
  /\ name \in [Paths -> Inodes \union {Dir, Unset}]
  /\ size \in [Inodes -> Nat]

(* What a command can return. *)
Returns(c, ret, entry) ==
  /\ ret \in Int
  /\ c \in Opens => ret \in Fds \union {-1}
  /\ c = "FILE_NEXTDIR_PATH" /\ ret >= 0 => entry \in Paths
ReturnsInv == \A i \in DOMAIN toClient :
                 Returns(toClient[i].command, toClient[i].ret, toClient[i].entry)

CallInv ==
  /\ OptionInv /\ ReplyInv
  /\ ArgsInv /\ QueueInv /\ SingleInv /\ RoomInv
  /\ HandleInv /\ ServerInv /\ ReturnsInv

-----------------------------------------------------------------------------
(* The options of each command.                                             *)

(* Command by command. *)
LEMMA UsesAre ==
  /\ Uses("FILE_OPEN") = {"PATH", "MODE"}
  /\ Uses("FILE_READ") = {"FILE", "LENGTH"}
  /\ Uses("FILE_WRITE") = {"FILE", "DATA"}
  /\ Uses("FILE_SEEK") = {"FILE", "WHERE", "WHENCE"}
  /\ Uses("FILE_RENAME") = {"RENAME_SOURCE", "RENAME_DESTINATION"}
  /\ Uses("LOG") = {"DATA"}
  /\ \A c \in {"FILE_STAT", "FILE_CREATE", "FILE_DELETE", "FILE_CREATEDIR", "FILE_OPENDIR"} :
       Uses(c) = {"PATH"}
  /\ \A c \in {"FILE_TELL", "FILE_SYNC", "FILE_CLOSE", "FILE_CLOSEDIR"} \union Listings :
       Uses(c) = {"FILE"}
  /\ \A c \in Sessions : Uses(c) = {}
  BY DEF Uses, Listings, Sessions

(* Option by option: only the path depends on the command. *)
LEMMA LegalAre ==
  ASSUME NEW c
  PROVE  /\ Legal(c, "FILE") = Fds
         /\ Legal(c, "PATH") = IF c = "FILE_OPENDIR" THEN Paths \union {Root} ELSE Paths
         /\ Legal(c, "RENAME_SOURCE") = Paths
         /\ Legal(c, "RENAME_DESTINATION") = Paths
         /\ Legal(c, "MODE") = Modes
         /\ Legal(c, "LENGTH") = Lengths
         /\ Legal(c, "DATA") = Data
         /\ Legal(c, "WHERE") = Int
         /\ Legal(c, "WHENCE") = Whences
<1>1. Legal(c, "FILE") = Fds
  BY DEF Legal
<1>2. Legal(c, "PATH") = IF c = "FILE_OPENDIR" THEN Paths \union {Root} ELSE Paths
  BY DEF Legal
<1>3. Legal(c, "RENAME_SOURCE") = Paths /\ Legal(c, "RENAME_DESTINATION") = Paths
  BY DEF Legal
<1>4. Legal(c, "MODE") = Modes /\ Legal(c, "LENGTH") = Lengths
  BY DEF Legal
<1>5. Legal(c, "DATA") = Data /\ Legal(c, "WHERE") = Int /\ Legal(c, "WHENCE") = Whences
  BY DEF Legal
<1> QED
  BY <1>1, <1>2, <1>3, <1>4, <1>5

-----------------------------------------------------------------------------
(* The programs of the calls.                                               *)

(* A program that can be begun with h. *)
Proper(h, steps) ==
  /\ Arguments(SendsOf(steps))
  /\ \A i \in Requests(steps) :
       /\ steps[i].opt \in Commands
       /\ \A o \in Uses(steps[i].opt) : \E j \in 1..(i - 1) :
            /\ steps[j].act = "SEND" /\ steps[j].opt = o
            /\ steps[j].val \in Legal(steps[i].opt, o)
       /\ steps[i].opt \in Single => Requests(steps) = {i}
       /\ steps[i].opt \in Opens => nextFd <= MaxFd
       /\ Fits(steps[i].opt, h, SendsOf(steps))

(* An argument with a value that is there. *)
Arg(o, v) == o \in Options /\ (o \in FixedOptions => v # Unset)
(* A command whose options are all in O, and that is run with h. *)
Suits(c, O, h) ==
  /\ c \in Commands /\ Uses(c) \subseteq O
  /\ c \in Opens => nextFd <= MaxFd /\ h \in Handles /\ handle[h] = Unset /\ mounted
  /\ c \in OnHandle =>
       /\ h \in Handles /\ handle[h] # Unset
       /\ handle[h].kind = IF c \in Listings THEN "dir" ELSE "file"
  /\ c \in Sessions => \A g \in Handles : handle[g] = Unset

(* One option and no command: a ping. *)
LEMMA ProperSend ==
  ASSUME NEW h, NEW o, NEW v, Arg(o, v)
  PROVE  Proper(h, <<Send(o, v)>>)
  BY DEF Proper, Arguments, SendsOf, ToSet, Requests, Send, Arg

(* One option and its command. *)
LEMMA ProperSR ==
  ASSUME NEW h, NEW o, NEW v, NEW c, Arg(o, v), Suits(c, {o}, h),
         v \in Legal(c, o), o = "FILE" /\ c \in OnHandle => v = handle[h].fd
  PROVE  Proper(h, <<Send(o, v), Receive(c)>>)
<1> DEFINE s == <<Send(o, v), Receive(c)>>
<1>1. DOMAIN s = 1..2 /\ s[1] = Send(o, v) /\ s[2] = Receive(c)
  OBVIOUS
<1> HIDE DEF s
<1>2. Requests(s) = {2} /\ SendsOf(s) = {Send(o, v)} /\ s[2].opt = c
  BY <1>1 DEF Requests, SendsOf, ToSet, Send, Receive
<1>3. Arguments(SendsOf(s))
  BY <1>2 DEF Arguments, Send, Arg
<1>4. Fits(c, h, SendsOf(s))
  BY <1>2 DEF Fits, Suits, Send
<1>5. \A p \in Uses(c) : \E j \in 1..(2 - 1) :
         s[j].act = "SEND" /\ s[j].opt = p /\ s[j].val \in Legal(c, p)
  BY <1>1 DEF Suits, Send
<1>6. Proper(h, s)
  BY <1>2, <1>3, <1>4, <1>5 DEF Proper, Suits
<1> QED
  BY <1>6 DEF s

(* A command without options. *)
LEMMA ProperR ==
  ASSUME NEW h, NEW c, Suits(c, {}, h), c \notin OnHandle
  PROVE  Proper(h, <<Receive(c)>>)
<1> DEFINE s == <<Receive(c)>>
<1>1. DOMAIN s = 1..1 /\ s[1] = Receive(c)
  OBVIOUS
<1> HIDE DEF s
<1>2. Requests(s) = {1} /\ SendsOf(s) = {} /\ s[1].opt = c
  BY <1>1 DEF Requests, SendsOf, ToSet, Send, Receive
<1>3. Arguments(SendsOf(s)) /\ Fits(c, h, SendsOf(s))
  BY <1>2 DEF Arguments, Fits, Suits
<1>4. Proper(h, s)
  BY <1>2, <1>3 DEF Proper, Suits
<1> QED
  BY <1>4 DEF s

(* One option that two commands use. *)
LEMMA ProperSRR ==
  ASSUME NEW h, NEW o, NEW v, NEW c, NEW d, Arg(o, v), Suits(c, {o}, h), Suits(d, {o}, h),
         v \in Legal(c, o), v \in Legal(d, o), c \notin Single, d \notin Single,
         o = "FILE" => v = handle[h].fd
  PROVE  Proper(h, <<Send(o, v), Receive(c), Receive(d)>>)
<1> DEFINE s == <<Send(o, v), Receive(c), Receive(d)>>
<1>1. DOMAIN s = 1..3 /\ s[1] = Send(o, v) /\ s[2] = Receive(c) /\ s[3] = Receive(d)
  OBVIOUS
<1> HIDE DEF s
<1>2. Requests(s) = {2, 3} /\ SendsOf(s) = {Send(o, v)} /\ s[2].opt = c /\ s[3].opt = d
  BY <1>1 DEF Requests, SendsOf, ToSet, Send, Receive
<1>3. Arguments(SendsOf(s))
  BY <1>2 DEF Arguments, Send, Arg
<1>4. Fits(c, h, SendsOf(s)) /\ Fits(d, h, SendsOf(s))
  BY <1>2 DEF Fits, Suits, Send
<1>5. \A i \in Requests(s) : \A p \in Uses(s[i].opt) : \E j \in 1..(i - 1) :
         s[j].act = "SEND" /\ s[j].opt = p /\ s[j].val \in Legal(s[i].opt, p)
  <2>1. 1 \in 1..(2 - 1) /\ 1 \in 1..(3 - 1) /\ s[1].act = "SEND" /\ s[1].opt = o /\ s[1].val = v
    BY <1>1 DEF Send
  <2> QED
    BY <1>2, <2>1 DEF Suits
<1>6. Proper(h, s)
  BY <1>2, <1>3, <1>4, <1>5 DEF Proper, Suits, Single
<1> QED
  BY <1>6 DEF s

(* Two options and their command. *)
LEMMA ProperSSR ==
  ASSUME NEW h, NEW o, NEW v, NEW p, NEW w, NEW c, Arg(o, v), Arg(p, w), o # p,
         Suits(c, {o, p}, h), v \in Legal(c, o), w \in Legal(c, p),
         p # "FILE", o = "FILE" => v = handle[h].fd
  PROVE  Proper(h, <<Send(o, v), Send(p, w), Receive(c)>>)
<1> DEFINE s == <<Send(o, v), Send(p, w), Receive(c)>>
<1>1. DOMAIN s = 1..3 /\ s[1] = Send(o, v) /\ s[2] = Send(p, w) /\ s[3] = Receive(c)
  OBVIOUS
<1> HIDE DEF s
<1>2. Requests(s) = {3} /\ SendsOf(s) = {Send(o, v), Send(p, w)} /\ s[3].opt = c
  BY <1>1 DEF Requests, SendsOf, ToSet, Send, Receive
<1>3. Arguments(SendsOf(s))
  BY <1>2 DEF Arguments, Send, Arg
<1>4. Fits(c, h, SendsOf(s))
  BY <1>2 DEF Fits, Suits, Send
<1>5. \A q \in Uses(c) : \E j \in 1..(3 - 1) :
         s[j].act = "SEND" /\ s[j].opt = q /\ s[j].val \in Legal(c, q)
  <2>1. 1 \in 1..(3 - 1) /\ s[1].act = "SEND" /\ s[1].opt = o /\ s[1].val = v
    BY <1>1 DEF Send
  <2>2. 2 \in 1..(3 - 1) /\ s[2].act = "SEND" /\ s[2].opt = p /\ s[2].val = w
    BY <1>1 DEF Send
  <2> QED
    BY <2>1, <2>2 DEF Suits
<1>6. Proper(h, s)
  BY <1>2, <1>3, <1>4, <1>5 DEF Proper, Suits
<1> QED
  BY <1>6 DEF s

(* Seek of a file. *)
LEMMA ProperSeek ==
  ASSUME NEW h \in Handles, handle[h] \in Info, handle[h].kind = "file", handle[h] # Unset,
         NEW where \in Int, NEW whence \in Whences
  PROVE  Proper(h, RiiSeek(handle[h], where, whence))
<1> DEFINE info == handle[h]
           s == <<Send("FILE", info.fd), Send("WHENCE", whence), Send("WHERE", where),
                  Receive("FILE_SEEK")>>
           c == "FILE_SEEK"
<1>0. info.fd \in Fds /\ info.fd # Unset /\ where # Unset /\ whence # Unset
  BY UnsetAssumption DEF Info, Fds
<1>1. /\ DOMAIN s = 1..4 /\ s[1] = Send("FILE", info.fd) /\ s[2] = Send("WHENCE", whence)
      /\ s[3] = Send("WHERE", where) /\ s[4] = Receive("FILE_SEEK")
  OBVIOUS
<1> HIDE DEF s
<1>2. /\ Requests(s) = {4} /\ s[4].opt = c
      /\ SendsOf(s) = {Send("FILE", info.fd), Send("WHENCE", whence), Send("WHERE", where)}
  BY <1>1 DEF Requests, SendsOf, ToSet, Send, Receive
<1>3. Arguments(SendsOf(s))
  BY <1>0, <1>2 DEF Arguments, Send, Options
<1>4. Fits(c, h, SendsOf(s))
  BY <1>2 DEF Fits, Send, Opens, OnHandle, Listings, Sessions
<1>5. \A q \in Uses(c) : \E j \in 1..(4 - 1) :
         s[j].act = "SEND" /\ s[j].opt = q /\ s[j].val \in Legal(c, q)
  <2>1. 1 \in 1..(4 - 1) /\ s[1].act = "SEND" /\ s[1].opt = "FILE" /\ s[1].val = info.fd
    BY <1>1 DEF Send
  <2>2. 2 \in 1..(4 - 1) /\ s[2].act = "SEND" /\ s[2].opt = "WHENCE" /\ s[2].val = whence
    BY <1>1 DEF Send
  <2>3. 3 \in 1..(4 - 1) /\ s[3].act = "SEND" /\ s[3].opt = "WHERE" /\ s[3].val = where
    BY <1>1 DEF Send
  <2> QED
    BY <1>0, <2>1, <2>2, <2>3, UsesAre, LegalAre
<1>6. Proper(h, s)
  BY <1>2, <1>3, <1>4, <1>5 DEF Proper, Commands, Single, Opens, Sessions
<1> QED
  BY <1>6 DEF s, RiiSeek

(* A read or write, after the seek that may be pending. *)
LEMMA ProperTransfer ==
  ASSUME NEW h \in Handles, handle[h] \in Info, handle[h].kind = "file", handle[h] # Unset,
         NEW o, NEW v, NEW c \in {"FILE_READ", "FILE_WRITE"},
         o # "FILE", o \in Uses(c), Arg(o, v), v \in Legal(c, o)
  PROVE  Proper(h, DirtySeek(handle[h]) \o <<Send("FILE", handle[h].fd), Send(o, v), Receive(c)>>)
<1> DEFINE info == handle[h]
           t == <<Send("FILE", info.fd), Send(o, v), Receive(c)>>
           seek == <<Send("FILE", info.fd), Send("WHENCE", "SET"), Send("WHERE", info.pos),
                     Receive("FILE_SEEK")>>
           s == seek \o t
<1>0. /\ info.fd \in Fds /\ info.fd # Unset /\ info.pos \in Int /\ info.pos # Unset /\ "SET" # Unset
      /\ info.dirty \in BOOLEAN
  BY UnsetAssumption DEF Info, Fds, Whences
<1>c. /\ Uses(c) = {"FILE", o} /\ o \notin {"WHENCE", "WHERE"} /\ o \in Options
      /\ c \notin Single /\ c \in OnHandle \ Listings
      /\ "FILE_SEEK" \notin Single /\ "FILE_SEEK" \in OnHandle \ Listings
  BY UsesAre DEF Arg, Single, OnHandle, Listings, Opens, Sessions
<1>t. Proper(h, t)
  <2>1. Arg("FILE", info.fd)
    BY <1>0 DEF Arg, Options
  <2>2. Suits(c, {"FILE", o}, h)
    BY <1>c DEF Suits, Commands, Single
  <2>3. info.fd \in Legal(c, "FILE")
    BY <1>0, LegalAre
  <2> QED
    BY <2>1, <2>2, <2>3, ProperSSR
<1>1. /\ DOMAIN s = 1..7 /\ s[1] = Send("FILE", info.fd) /\ s[2] = Send("WHENCE", "SET")
      /\ s[3] = Send("WHERE", info.pos) /\ s[4] = Receive("FILE_SEEK")
      /\ s[5] = Send("FILE", info.fd) /\ s[6] = Send(o, v) /\ s[7] = Receive(c)
  <2> DEFINE S == {Send("FILE", info.fd), Send("WHENCE", "SET"), Send("WHERE", info.pos),
                   Receive("FILE_SEEK"), Send(o, v), Receive(c)}
  <2>1. seek \in Seq(S) /\ t \in Seq(S) /\ Len(seek) = 4 /\ Len(t) = 3
    OBVIOUS
  <2>2. /\ Len(s) = 7 /\ s \in Seq(S)
        /\ \A i \in 1..7 : s[i] = IF i <= 4 THEN seek[i] ELSE t[i - 4]
    BY <2>1, ConcatProperties
  <2>3. s[5] = t[1] /\ s[6] = t[2] /\ s[7] = t[3]
    BY <2>2
  <2>4. s[1] = seek[1] /\ s[2] = seek[2] /\ s[3] = seek[3] /\ s[4] = seek[4]
    BY <2>2
  <2>5. DOMAIN s = 1..7
    BY <2>2
  <2> QED
    BY <2>3, <2>4, <2>5
<1>d. DirtySeek(info) \o t = IF info.dirty THEN s ELSE t
  <2>1. <<>> \o t = t
    <3>1. t \in Seq({Send("FILE", info.fd), Send(o, v), Receive(c)})
      OBVIOUS
    <3> QED
      BY <3>1, ConcatEmptySeq
  <2> QED
    BY <2>1 DEF DirtySeek, RiiSeek
<1> HIDE DEF s
<1>2. /\ Requests(s) = {4, 7} /\ s[4].opt = "FILE_SEEK" /\ s[7].opt = c
      /\ SendsOf(s) = {Send("FILE", info.fd), Send("WHENCE", "SET"), Send("WHERE", info.pos),
                       Send(o, v)}
  <2>1. Requests(s) = {4, 7} /\ s[4].opt = "FILE_SEEK" /\ s[7].opt = c
    BY <1>1 DEF Requests, Send, Receive
  <2>2. ToSet(s) = {s[1], s[2], s[3], s[4], s[5], s[6], s[7]}
    BY <1>1 DEF ToSet
  <2> QED
    BY <1>1, <2>1, <2>2 DEF SendsOf, Send, Receive
<1>3. Arguments(SendsOf(s))
  BY <1>0, <1>2, <1>c DEF Arguments, Send, Options, Arg
<1>4. Fits(c, h, SendsOf(s)) /\ Fits("FILE_SEEK", h, SendsOf(s))
  BY <1>2, <1>c DEF Fits, Send, Single
<1>5. \A i \in Requests(s) : \A q \in Uses(s[i].opt) : \E j \in 1..(i - 1) :
         s[j].act = "SEND" /\ s[j].opt = q /\ s[j].val \in Legal(s[i].opt, q)
  <2>1. s[1].act = "SEND" /\ s[1].opt = "FILE" /\ s[1].val = info.fd
    BY <1>1 DEF Send
  <2>2. s[2].act = "SEND" /\ s[2].opt = "WHENCE" /\ s[2].val = "SET"
    BY <1>1 DEF Send
  <2>3. s[3].act = "SEND" /\ s[3].opt = "WHERE" /\ s[3].val = info.pos
    BY <1>1 DEF Send
  <2>6. s[6].act = "SEND" /\ s[6].opt = o /\ s[6].val = v
    BY <1>1 DEF Send
  <2>7. "SET" \in Whences /\ 1 \in 1..(4 - 1) /\ 2 \in 1..(4 - 1) /\ 3 \in 1..(4 - 1)
        /\ 1 \in 1..(7 - 1) /\ 6 \in 1..(7 - 1)
    BY DEF Whences
  <2>8. \A q \in Uses("FILE_SEEK") : \E j \in 1..(4 - 1) :
         s[j].act = "SEND" /\ s[j].opt = q /\ s[j].val \in Legal("FILE_SEEK", q)
    BY <1>0, <2>1, <2>2, <2>3, <2>7, UsesAre, LegalAre
  <2>9. \A q \in Uses(c) : \E j \in 1..(7 - 1) :
         s[j].act = "SEND" /\ s[j].opt = q /\ s[j].val \in Legal(c, q)
    BY <1>0, <1>c, <2>1, <2>6, <2>7, LegalAre
  <2> QED
    BY <1>2, <2>8, <2>9
<1>6. Proper(h, s)
  BY <1>2, <1>3, <1>4, <1>5, <1>c DEF Proper, Commands, Single
<1> QED
  BY <1>6, <1>t, <1>d, <1>0

(* The log at a tick, before the ping that may follow it. *)
LEMMA ProperLog ==
  ASSUME NEW h, NEW text \in Data
  PROVE  /\ Proper(h, <<Send("DATA", text), Receive("LOG")>>)
         /\ Proper(h, <<Send("DATA", text), Receive("LOG")>> \o <<Send("PING", Unset)>>)
<1>c. /\ Uses("LOG") = {"DATA"} /\ "LOG" \notin OnHandle \union Single /\ "LOG" \in Commands
      /\ Arg("DATA", text) /\ Arg("PING", Unset) /\ text \in Legal("LOG", "DATA")
  BY UsesAre, LegalAre DEF Arg, Options, FixedOptions, Single, OnHandle, Listings, Opens, Sessions, Commands
<1>1. Proper(h, <<Send("DATA", text), Receive("LOG")>>)
  BY <1>c, ProperSR DEF Suits, Single
<1> DEFINE p == <<Send("DATA", text), Receive("LOG")>>
           q == <<Send("PING", Unset)>>
           s == p \o q
<1>2. DOMAIN s = 1..3 /\ s[1] = Send("DATA", text) /\ s[2] = Receive("LOG")
      /\ s[3] = Send("PING", Unset)
  <2> DEFINE S == {Send("DATA", text), Receive("LOG"), Send("PING", Unset)}
  <2>1. p \in Seq(S) /\ q \in Seq(S) /\ Len(p) = 2 /\ Len(q) = 1
    OBVIOUS
  <2>2. /\ Len(s) = 3 /\ s \in Seq(S)
        /\ \A i \in 1..3 : s[i] = IF i <= 2 THEN p[i] ELSE q[i - 2]
    BY <2>1, ConcatProperties
  <2>3. s[1] = p[1] /\ s[2] = p[2] /\ s[3] = q[1] /\ DOMAIN s = 1..3
    BY <2>2
  <2> QED
    BY <2>3
<1> HIDE DEF s
<1>3. Requests(s) = {2} /\ SendsOf(s) = {Send("DATA", text), Send("PING", Unset)}
      /\ s[2].opt = "LOG"
  BY <1>2 DEF Requests, SendsOf, ToSet, Send, Receive
<1>4. Arguments(SendsOf(s)) /\ Fits("LOG", h, SendsOf(s))
  BY <1>3, <1>c DEF Arguments, Send, Arg, Fits, Single
<1>5. 1 \in 1..(2 - 1) /\ s[1].act = "SEND" /\ s[1].opt = "DATA" /\ s[1].val = text
  BY <1>2 DEF Send
<1>6. Proper(h, s)
  BY <1>3, <1>4, <1>5, <1>c DEF Proper, Single
<1> QED
  BY <1>1, <1>6 DEF s

-----------------------------------------------------------------------------
(* The handler's calls keep the invariant.                                  *)

(* What is left of a program is a sequence. *)
LEMMA ProgramQueue ==
  ASSUME NEW p, Program(p)
  PROVE  Queue(p)
<1>1. PICK S : p \in Seq(S)
  BY DEF Program
<1>2. \A i \in 1..Len(p) : p[i] \in ToSet(p)
  BY <1>1, LenProperties DEF ToSet
<1>3. p = SubSeq(p, 1, Len(p)) /\ Len(p) \in Nat
  BY <1>1, SubSeqFull
<1>4. SubSeq(p, 1, Len(p)) \in Seq(ToSet(p))
  BY <1>1, <1>2, <1>3, SubSeqProperties
<1> QED
  BY <1>3, <1>4 DEF Queue

(* An idle handler waits for nothing. *)
LEMMA IdleWaits ==
  ASSUME ReplyInv, call = Idle
  PROVE  awaiting = Unset /\ todo = <<>> /\ Due = {} /\ Requests(todo) = {}
<1>1. awaiting = Unset /\ todo = <<>>
  BY DEF ReplyInv
<1> QED
  BY <1>1 DEF Due, Requests

(* What the beginning of a proper program leaves. *)
LEMMA BeginKeeps ==
  ASSUME CallInv, ReplyInv', NEW op, NEW h, NEW steps, Proper(h, steps), Begin(op, h, steps)
  PROVE  /\ ArgsInv' /\ QueueInv' /\ SingleInv' /\ RoomInv' /\ ServerInv' /\ ReturnsInv'
         /\ \A c \in Due' : Fits(c, h, call'.args)
         /\ \A c \in Due' : \E i \in Requests(steps) : c = steps[i].opt
         /\ call'.h = h
<1>1. /\ call = Idle /\ call'.h = h /\ call'.args = SendsOf(steps) /\ todo' = steps
      /\ UNCHANGED <<mounted, awaiting, cache, logBuffer, linkVars, serverVars, diskVars>>
  BY DEF Begin, SendsOf
<1>2. awaiting = Unset /\ awaiting' = Unset
  BY <1>1, IdleWaits DEF CallInv
<1>3. Queue(steps)
  BY <1>1, ProgramQueue DEF ReplyInv
<1>4. Len(steps) \in Nat /\ DOMAIN steps = 1..Len(steps)
  BY <1>3, QueueShape
<1>5. ArgsInv'
  <2>1. Arguments(call'.args)
    BY <1>1 DEF Proper
  <2>2. \A i \in DOMAIN todo' : todo'[i].act = "SEND" => todo'[i] \in call'.args
    BY <1>1 DEF SendsOf, ToSet
  <2>3. ASSUME NEW i \in Requests(steps)
        PROVE  Supplied(steps[i].opt, call'.args, toServer', options', Before(steps, i))
    <3>1. SUFFICES ASSUME NEW o \in Uses(steps[i].opt)
                   PROVE  \E s \in call'.args : /\ s.opt = o /\ s.val \in Legal(steps[i].opt, o)
                                                /\ s \in Before(steps, i)
      BY DEF Supplied
    <3>2. PICK j \in 1..(i - 1) : /\ steps[j].act = "SEND" /\ steps[j].opt = o
                                  /\ steps[j].val \in Legal(steps[i].opt, o)
      BY <2>3 DEF Proper
    <3>3. j \in DOMAIN steps
      BY <1>4, <2>3, <3>2 DEF Requests
    <3> QED
      BY <1>1, <3>2, <3>3 DEF SendsOf, ToSet, Before
  <2> QED
    BY <1>1, <1>2, <2>1, <2>2, <2>3 DEF ArgsInv
<1>6. QueueInv' /\ RoomInv' /\ SingleInv'
  <2>1. QueueInv'
    BY <1>1 DEF CallInv, QueueInv, linkVars, serverVars
  <2>2. RoomInv'
    BY <1>1 DEF CallInv, RoomInv, Proper, linkVars, serverVars
  <2>3. SingleInv'
    BY <1>1, <1>2, RiiFSAssumption DEF SingleInv, Proper, Single, Opens, Sessions, Commands
  <2> QED
    BY <2>1, <2>2, <2>3
<1>7. ServerInv' /\ ReturnsInv'
  BY <1>1 DEF CallInv, ServerInv, ReturnsInv, linkVars, serverVars, diskVars
<1>8. Due' = {steps[i].opt : i \in Requests(steps)}
  BY <1>1, <1>2 DEF Due
<1> QED
  BY <1>1, <1>5, <1>6, <1>7, <1>8 DEF Proper

(* The same for the calls that do not touch the objects. *)
LEMMA StartKeeps ==
  ASSUME CallInv, OptionInv', ReplyInv', NEW op, NEW h, NEW steps, Proper(h, steps),
         Start(op, h, steps)
  PROVE  CallInv'
<1>1. Begin(op, h, steps) /\ UNCHANGED <<handle, mounted, logBuffer>>
  BY DEF Start, Begin
<1>2. \A c \in Due' : Fits(c, call'.h, call'.args)
  BY <1>1, BeginKeeps
<1>3. \A c \in Due' : Fits(c, call.h, call.args)'
  BY <1>1, <1>2 DEF Fits
<1>4. HandleInv'
  BY <1>1, <1>3 DEF CallInv, HandleInv
<1> QED
  BY <1>1, <1>4, BeginKeeps DEF CallInv

(* The forms of the handler's state that the calls need. *)
LEMMA HandleIs ==
  ASSUME HandleInv, NEW h \in Handles, handle[h] # Unset
  PROVE  /\ handle[h] \in Info /\ mounted
         /\ handle[h].fd \in Fds /\ handle[h].fd # Unset
         /\ handle[h].pos \in Int
         /\ handle[h].kind \in {"file", "dir"}
<1>1. handle[h] \in Info
  BY DEF HandleInv
<1>2. handle[h].fd \in Int
  BY <1>1 DEF Info, Fds
<1> QED
  BY <1>1, <1>2, UnsetAssumption DEF HandleInv, Info

(* The handler says goodbye once no object is left. *)
LEMMA UnmountKeeps ==
  ASSUME CallInv, OptionInv', ReplyInv', Unmount
  PROVE  CallInv'
<1>1. Suits("GOODBYE", {}, Unset) /\ "GOODBYE" \notin OnHandle
  BY UsesAre DEF Unmount, Suits, Commands, Sessions, Opens, OnHandle, Listings
<1>2. Proper(Unset, <<Receive("GOODBYE")>>)
  BY <1>1, ProperR
<1> QED
  BY <1>2, StartKeeps DEF Unmount

(* A ping is no command. *)
LEMMA PingKeeps ==
  ASSUME CallInv, OptionInv', ReplyInv', CheckPhysical \/ IdleTick
  PROVE  CallInv'
<1>1. Proper(Unset, <<Send("PING", Unset)>>)
  BY ProperSend DEF Arg, Options, FixedOptions
<1>2. CASE CheckPhysical
  BY <1>1, <1>2, StartKeeps DEF CheckPhysical
<1>3. CASE IdleTick
  <2> DEFINE ping == <<Send("PING", Unset)>>
             text == <<Send("DATA", logBuffer), Receive("LOG")>>
             flush == IF logBuffer = Unset THEN <<>> ELSE text
  <2>1. ping \in Seq({Send("PING", Unset)}) /\ text \in Seq({Send("DATA", logBuffer), Receive("LOG")})
    OBVIOUS
  <2>2. text \o <<>> = text /\ <<>> \o ping = ping
    BY <2>1, ConcatEmptySeq
  <2>4. logBuffer # Unset => Proper(Unset, text) /\ Proper(Unset, text \o ping)
    BY ProperLog DEF CallInv, HandleInv
  <2>5. \E p \in {<<>>, ping} : flush \o p # <<>> /\ Start("IdleTick", Unset, flush \o p)
    BY <1>3 DEF IdleTick
  <2>6. <<>> \o <<>> = <<>>
    OBVIOUS
  <2> HIDE DEF ping, text
  <2>7. \E steps : Proper(Unset, steps) /\ Start("IdleTick", Unset, steps)
    <3>1. CASE logBuffer = Unset
      <4>1. Start("IdleTick", Unset, ping)
        BY <2>2, <2>5, <2>6, <3>1
      <4> QED
        BY <1>1, <4>1 DEF ping
    <3>2. CASE logBuffer # Unset
      BY <2>2, <2>4, <2>5, <3>2
    <3> QED
      BY <3>1, <3>2
  <2> QED
    BY <2>7, StartKeeps
<1> QED
  BY <1>2, <1>3

(* The calls on a path. *)
LEMMA PathCallKeeps ==
  ASSUME CallInv, OptionInv', ReplyInv', NEW p \in Paths,
         Stat(p) \/ CreateFile(p) \/ Delete(p) \/ CreateDir(p)
  PROVE  CallInv'
<1>1. ASSUME NEW c \in {"FILE_STAT", "FILE_CREATE", "FILE_DELETE", "FILE_CREATEDIR"}
      PROVE  Proper(Unset, <<Send("PATH", p), Receive(c)>>)
  <2>1. Arg("PATH", p)
    BY DEF Arg, Options, FixedOptions
  <2>2. Suits(c, {"PATH"}, Unset)
    BY UsesAre DEF Suits, Commands, Opens, OnHandle, Listings, Sessions
  <2>3. p \in Legal(c, "PATH")
    BY LegalAre
  <2> QED
    BY <2>1, <2>2, <2>3, ProperSR
<1> QED
  BY <1>1, StartKeeps DEF Stat, CreateFile, Delete, CreateDir

(* Two names, one for each option. *)
LEMMA RenameKeeps ==
  ASSUME CallInv, OptionInv', ReplyInv', NEW p \in Paths, NEW q \in Paths, Rename(p, q)
  PROVE  CallInv'
<1> DEFINE c == "FILE_RENAME"
<1>1. Arg("RENAME_SOURCE", p) /\ Arg("RENAME_DESTINATION", q)
  BY DEF Arg, Options, FixedOptions
<1>2. Suits(c, {"RENAME_SOURCE", "RENAME_DESTINATION"}, Unset)
  BY UsesAre DEF Suits, Commands, Opens, OnHandle, Listings, Sessions
<1>3. p \in Legal(c, "RENAME_SOURCE") /\ q \in Legal(c, "RENAME_DESTINATION")
  BY LegalAre
<1>4. Proper(Unset, <<Send("RENAME_SOURCE", p), Send("RENAME_DESTINATION", q), Receive(c)>>)
  BY <1>1, <1>2, <1>3, ProperSSR
<1> QED
  BY <1>4, StartKeeps DEF Rename

(* A file is opened into an object that is free, while there is a descriptor. *)
LEMMA OpenKeeps ==
  ASSUME CallInv, OptionInv', ReplyInv', NEW h \in Handles, NEW p \in Paths, NEW mode \in Modes,
         Open(h, p, mode)
  PROVE  CallInv'
<1> DEFINE c == "FILE_OPEN"
<1>1. Arg("PATH", p) /\ Arg("MODE", mode)
  BY UnsetAssumption DEF Arg, Options, FixedOptions
<1>2. Suits(c, {"PATH", "MODE"}, h)
  BY UsesAre DEF Suits, Commands, Opens, OnHandle, Listings, Sessions, Open, Start
<1>3. p \in Legal(c, "PATH") /\ mode \in Legal(c, "MODE")
  BY LegalAre
<1>4. Proper(h, <<Send("PATH", p), Send("MODE", mode), Receive(c)>>)
  BY <1>1, <1>2, <1>3, ProperSSR
<1> QED
  BY <1>4, StartKeeps DEF Open

(* So is a directory, which may be the root. *)
LEMMA OpenDirKeeps ==
  ASSUME CallInv, OptionInv', ReplyInv', NEW h \in Handles, NEW p \in Paths \union {Root},
         OpenDir(h, p)
  PROVE  CallInv'
<1> DEFINE c == "FILE_OPENDIR"
<1>1. Arg("PATH", p)
  BY DEF Arg, Options, FixedOptions
<1>2. Suits(c, {"PATH"}, h)
  BY UsesAre DEF Suits, Commands, Opens, OnHandle, Listings, Sessions, OpenDir, Start
<1>3. p \in Legal(c, "PATH")
  BY LegalAre
<1>4. Proper(h, <<Send("PATH", p), Receive(c)>>)
  BY <1>1, <1>2, <1>3, ProperSR
<1> QED
  BY <1>4, StartKeeps DEF OpenDir

(* Reads and writes, with the seek that may be pending. *)
LEMMA TransferKeeps ==
  ASSUME CallInv, OptionInv', ReplyInv', NEW h \in Handles,
         \/ \E length \in Lengths : Read(h, length)
         \/ \E data \in Data : Write(h, data)
  PROVE  CallInv'
<1>1. IsFile(h)
  BY DEF Read, Write
<1>2. handle[h] \in Info /\ handle[h].kind = "file" /\ handle[h] # Unset
  BY <1>1, HandleIs DEF CallInv, IsFile
<1>3. ASSUME NEW length \in Lengths, Read(h, length)
      PROVE  CallInv'
  <2>1. Arg("LENGTH", length) /\ length \in Legal("FILE_READ", "LENGTH")
        /\ "LENGTH" \in Uses("FILE_READ")
    BY RiiFSAssumption, UnsetAssumption, UsesAre, LegalAre DEF Arg, Options
  <2>2. Proper(h, DirtySeek(handle[h]) \o
                    <<Send("FILE", handle[h].fd), Send("LENGTH", length), Receive("FILE_READ")>>)
    BY <1>2, <2>1, ProperTransfer
  <2> QED
    BY <1>3, <2>2, StartKeeps DEF Read
<1>4. ASSUME NEW data \in Data, Write(h, data)
      PROVE  CallInv'
  <2>1. Arg("DATA", data) /\ data \in Legal("FILE_WRITE", "DATA")
        /\ "DATA" \in Uses("FILE_WRITE")
    BY UsesAre, LegalAre DEF Arg, Options, FixedOptions
  <2>2. Proper(h, DirtySeek(handle[h]) \o
                    <<Send("FILE", handle[h].fd), Send("DATA", data), Receive("FILE_WRITE")>>)
    BY <1>2, <2>1, ProperTransfer
  <2> QED
    BY <1>4, <2>2, StartKeeps DEF Write
<1> QED
  BY <1>3, <1>4

(* The calls that have one command or two, run on an open file or directory. *)
LEMMA OnHandleKeeps ==
  ASSUME CallInv, OptionInv', ReplyInv', NEW h \in Handles, Sync(h) \/ Close(h) \/ NextDir(h)
  PROVE  CallInv'
<1>1. handle[h] # Unset
  BY DEF Sync, Close, NextDir, IsFile, IsDir
<1>2. Arg("FILE", handle[h].fd) /\ \A c : handle[h].fd \in Legal(c, "FILE")
  BY <1>1, HandleIs, LegalAre DEF CallInv, Arg, Options
<1>3. ASSUME Sync(h) PROVE CallInv'
  <2>1. Suits("FILE_TELL", {"FILE"}, h) /\ Suits("FILE_SYNC", {"FILE"}, h)
    BY <1>1, <1>3, UsesAre DEF Sync, IsFile, Suits, Commands, Opens, OnHandle, Listings, Sessions
  <2>2. Proper(h, <<Send("FILE", handle[h].fd), Receive("FILE_TELL"), Receive("FILE_SYNC")>>)
    BY <1>2, <2>1, ProperSRR DEF Single, Opens, Sessions
  <2> QED
    BY <1>3, <2>2, StartKeeps DEF Sync
<1>4. ASSUME Close(h) PROVE CallInv'
  <2>1. Suits("FILE_CLOSE", {"FILE"}, h)
    BY <1>1, <1>4, UsesAre DEF Close, IsFile, Suits, Commands, Opens, OnHandle, Listings, Sessions
  <2>2. Proper(h, <<Send("FILE", handle[h].fd), Receive("FILE_CLOSE")>>)
    BY <1>2, <2>1, ProperSR
  <2> QED
    BY <1>4, <2>2, StartKeeps DEF Close
<1>5. ASSUME NextDir(h) PROVE CallInv'
  <2>1. Suits("FILE_NEXTDIR_PATH", {"FILE"}, h) /\ Suits("FILE_NEXTDIR_STAT", {"FILE"}, h)
    BY <1>1, <1>5, UsesAre
       DEF NextDir, IsDir, Suits, Commands, Opens, OnHandle, Listings, Sessions
  <2>2. Proper(h, <<Send("FILE", handle[h].fd), Receive("FILE_NEXTDIR_PATH"),
                    Receive("FILE_NEXTDIR_STAT")>>)
    BY <1>2, <2>1, ProperSRR DEF Single, Opens, Sessions
  <2> QED
    BY <1>5, <2>2, StartKeeps DEF NextDir
<1> QED
  BY <1>3, <1>4, <1>5

(* The object of a directory is freed before the server is asked. *)
LEMMA CloseDirKeeps ==
  ASSUME CallInv, OptionInv', ReplyInv', NEW h \in Handles, CloseDir(h)
  PROVE  CallInv'
<1> DEFINE c == "FILE_CLOSEDIR"
           steps == <<Send("FILE", handle[h].fd), Receive(c)>>
<1>1. /\ handle[h] # Unset /\ Begin("CloseDir", h, steps)
      /\ handle' = [handle EXCEPT ![h] = Unset] /\ UNCHANGED <<mounted, logBuffer>>
  BY DEF CloseDir, IsDir, Begin
<1>2. Arg("FILE", handle[h].fd) /\ handle[h].fd \in Legal(c, "FILE")
  BY <1>1, HandleIs, LegalAre DEF CallInv, Arg, Options
<1>3. Suits(c, {"FILE"}, h) /\ c \notin OnHandle
  BY UsesAre DEF Suits, Commands, Opens, OnHandle, Listings, Sessions
<1>4. Proper(h, steps)
  BY <1>2, <1>3, ProperSR
<1>5. Requests(steps) = {2} /\ steps[2].opt = c
  <2>1. DOMAIN steps = 1..2 /\ steps[1] = Send("FILE", handle[h].fd) /\ steps[2] = Receive(c)
    OBVIOUS
  <2> HIDE DEF steps
  <2> QED
    BY <2>1 DEF Requests, Send, Receive
<1> HIDE DEF steps
<1>6. \A d \in Due' : d = c
  BY <1>1, <1>4, <1>5, BeginKeeps
<1>7. \A d \in Due' : Fits(d, call.h, call.args)'
  BY <1>6 DEF Fits, Opens, OnHandle, Listings, Sessions
<1>8. HandleInv'
  BY <1>1, <1>7 DEF CallInv, HandleInv
<1> QED
  BY <1>1, <1>4, <1>8, BeginKeeps DEF CallInv

(* What is done at once, in the handler alone. *)
LEMMA LocalKeeps ==
  ASSUME CallInv, OptionInv', ReplyInv', NEW op, Local(op), HandleInv'
  PROVE  CallInv'
<1>1. UNCHANGED <<mounted, call, todo, awaiting, cache, linkVars, serverVars, diskVars>>
  BY DEF Local
<1>2. ArgsInv' /\ QueueInv' /\ SingleInv' /\ RoomInv'
  BY <1>1 DEF CallInv, ArgsInv, QueueInv, SingleInv, RoomInv, linkVars, serverVars
<1>3. ServerInv' /\ ReturnsInv'
  BY <1>1 DEF CallInv, ServerInv, ReturnsInv, linkVars, serverVars, diskVars
<1> QED
  BY <1>2, <1>3 DEF CallInv

(* A seek moves the handler's position only, or asks the server for the end. *)
LEMMA SeekKeeps ==
  ASSUME CallInv, OptionInv', ReplyInv', NEW h \in Handles, NEW where \in Offsets,
         NEW whence \in Whences, Seek(h, where, whence)
  PROVE  CallInv'
<1>1. /\ handle[h] \in Info /\ handle[h].kind = "file" /\ handle[h] # Unset /\ mounted
      /\ handle[h].pos \in Int
  BY HandleIs DEF CallInv, Seek, IsFile
<1>2. ASSUME NEW w \in Int, SeekLocally(h, w) PROVE CallInv'
  <2>1. /\ handle' = [handle EXCEPT ![h] = Moved(handle[h], w)]
        /\ Local("Seek") /\ logBuffer' = logBuffer
    BY <1>2 DEF SeekLocally
  <2>2. Moved(handle[h], w) \in Info
    BY <1>1, <1>2 DEF Moved, Info
  <2>3. Due' = {} /\ mounted' = mounted
    <3>1. call = Idle /\ UNCHANGED <<mounted, todo, awaiting>>
      BY <2>1 DEF Local
    <3> QED
      BY <3>1, IdleWaits DEF Due, CallInv
  <2>4. HandleInv'
    BY <1>1, <2>1, <2>2, <2>3 DEF CallInv, HandleInv
  <2> QED
    BY <2>1, <2>4, LocalKeeps
<1>3. CASE Start("Seek", h, RiiSeek(handle[h], where, "END"))
  <2>1. Proper(h, RiiSeek(handle[h], where, "END"))
    BY <1>1, ProperSeek, RiiFSAssumption DEF Whences
  <2> QED
    BY <1>3, <2>1, StartKeeps
<1>4. where \in Int /\ handle[h].pos + where \in Int
  BY <1>1, RiiFSAssumption
<1> QED
  BY <1>2, <1>3, <1>4 DEF Seek

(* Text for the log is kept for the tick. *)
LEMMA LogKeeps ==
  ASSUME CallInv, OptionInv', ReplyInv', NEW text \in Data, Log(text)
  PROVE  CallInv'
<1>1. Local("Log") /\ logBuffer' = text /\ handle' = handle
  BY DEF Log
<1>2. Due' = {} /\ mounted' = mounted
  <2>1. call = Idle /\ UNCHANGED <<mounted, todo, awaiting>>
    BY <1>1 DEF Local
  <2> QED
    BY <2>1, IdleWaits DEF Due, CallInv
<1>3. HandleInv'
  BY <1>1, <1>2 DEF CallInv, HandleInv
<1> QED
  BY <1>1, <1>3, LocalKeeps

(* Whatever call begins. *)
LEMMA CallKeeps ==
  ASSUME CallInv, OptionInv', ReplyInv', Call, ~Mount
  PROVE  CallInv'
<1>1. CASE Unmount \/ CheckPhysical \/ IdleTick
  BY <1>1, UnmountKeeps, PingKeeps
<1>2. CASE \E p \in Paths : \/ Stat(p) \/ CreateFile(p) \/ Delete(p) \/ CreateDir(p)
                            \/ \E q \in Paths : Rename(p, q)
  BY <1>2, PathCallKeeps, RenameKeeps
<1>3. CASE \E text \in Data : Log(text)
  BY <1>3, LogKeeps
<1>4. CASE \E h \in Handles :
             \/ \E p \in Paths, mode \in Modes : Open(h, p, mode)
             \/ \E p \in Paths \union {Root} : OpenDir(h, p)
  BY <1>4, OpenKeeps, OpenDirKeeps
<1>5. CASE \E h \in Handles :
             \/ \E length \in Lengths : Read(h, length)
             \/ \E data \in Data : Write(h, data)
  BY <1>5, TransferKeeps
<1>6. CASE \E h \in Handles : Sync(h) \/ Close(h) \/ NextDir(h) \/ CloseDir(h)
  BY <1>6, OnHandleKeeps, CloseDirKeeps
<1>7. CASE \E h \in Handles, where \in Offsets, whence \in Whences : Seek(h, where, whence)
  BY <1>7, SeekKeeps
<1> QED
  BY <1>1, <1>2, <1>3, <1>4, <1>5, <1>6, <1>7 DEF Call

-----------------------------------------------------------------------------
(* The handler's steps keep the invariant.                                  *)

(* A new connection: nothing on its way, and a server without options. *)
LEMMA MountKeeps ==
  ASSUME CallInv, OptionInv', ReplyInv', Mount
  PROVE  CallInv'
<1> DEFINE s == Send("HANDSHAKE", "1.03")
           c == "HANDSHAKE"
<1>1. /\ call = Idle /\ call'.args = {s} /\ todo' = <<s, Receive(c)>>
      /\ toServer' = <<>> /\ toClient' = <<>> /\ nextFd' = 1 /\ ~mounted
      /\ logBuffer' = Unset /\ link' = TRUE /\ silent' = FALSE /\ serving' = TRUE
      /\ UNCHANGED <<mounted, awaiting, handle, stream, listing, diskVars>>
  BY DEF Mount
<1>2. awaiting' = Unset
  BY <1>1, IdleWaits DEF CallInv
<1>3. /\ DOMAIN todo' = 1..2 /\ todo'[1] = s /\ todo'[2] = Receive(c)
  BY <1>1
<1>4. Requests(todo)' = {2} /\ todo'[2].opt = c
  BY <1>3 DEF Requests, Send, Receive
<1>5. Due' = {c} /\ Uses(c) = {} /\ c \in Single /\ c \notin Opens \union OnHandle
  BY <1>2, <1>4, UsesAre DEF Due, Single, Sessions, Opens, OnHandle, Listings
<1>6. Arguments(call.args)'
  BY <1>1 DEF Arguments, Send, Options, FixedOptions
<1>7. ArgsInv'
  BY <1>1, <1>2, <1>3, <1>4, <1>5, <1>6 DEF ArgsInv, Supplied, Receive
<1>8. QueueInv' /\ SingleInv' /\ RoomInv' /\ ReturnsInv'
  <2>1. Requests(toServer)' = {} /\ DOMAIN toClient' = {}
    BY <1>1 DEF Requests
  <2>2. Unset \notin Single
    BY RiiFSAssumption DEF Single, Opens, Sessions, Commands
  <2> QED
    BY <1>2, <1>4, <1>5, <2>1, <2>2 DEF QueueInv, SingleInv, RoomInv, ReturnsInv
<1>9. HandleInv'
  BY <1>1, <1>5 DEF CallInv, HandleInv, Fits
<1>10. ServerInv'
  <2>1. 1 \in 1..(MaxFd + 1)
    BY RiiFSAssumption
  <2> QED
    BY <1>1, <2>1 DEF CallInv, ServerInv, diskVars
<1> QED
  BY <1>7, <1>8, <1>9, <1>10 DEF CallInv

(* The requests a program has left after its first step. *)
LEMMA RequestsLeft ==
  ASSUME NEW p, Program(p), p # <<>>
  PROVE  /\ Head(p) = p[1] /\ 1 \in DOMAIN p /\ Program(Tail(p))
         /\ 1 \in Requests(p) <=> Head(p).act = "RECEIVE"
         /\ \A i \in DOMAIN Tail(p) :
              /\ i \in Nat \ {0} /\ i + 1 \in DOMAIN p /\ Tail(p)[i] = p[i + 1]
              /\ Before(p, i + 1) = {Head(p)} \union Before(Tail(p), i)
         /\ \A i \in Requests(Tail(p)) : i \in DOMAIN Tail(p) /\ i + 1 \in Requests(p)
         /\ Before(p, 1) = {}
<1>1. Queue(p)
  BY ProgramQueue
<1>2. /\ Head(p) = p[1] /\ Len(p) \in Nat \ {0}
      /\ DOMAIN Tail(p) = 1..(Len(p) - 1) /\ DOMAIN p = 1..Len(p)
      /\ \A i \in 1..(Len(p) - 1) : Tail(p)[i] = p[i + 1]
  BY <1>1, QueueTail, QueueShape
<1>3. ASSUME NEW i \in 1..(Len(p) - 1)
      PROVE  Before(p, i + 1) = {Head(p)} \union Before(Tail(p), i)
  <2>1. 1..((i + 1) - 1) = {1} \union {j + 1 : j \in 1..(i - 1)}
    <3>1. ASSUME NEW k \in 1..i, k # 1 PROVE k - 1 \in 1..(i - 1) /\ k = (k - 1) + 1
      BY <1>2, <3>1
    <3>2. \A k \in 1..i : k = 1 \/ \E j \in 1..(i - 1) : k = j + 1
      BY <3>1
    <3>3. \A j \in 1..(i - 1) : j + 1 \in 1..i
      BY <1>2
    <3>4. 1 \in 1..i /\ (i + 1) - 1 = i
      BY <1>2
    <3> QED
      BY <3>2, <3>3, <3>4
  <2>2. \A j \in 1..(i - 1) : p[j + 1] = Tail(p)[j]
    BY <1>2
  <2> QED
    BY <1>2, <2>1, <2>2 DEF Before
<1>4. Program(Tail(p)) /\ Before(p, 1) = {}
  BY ProgramStep DEF Before
<1>5. 1 \in Requests(p) <=> Head(p).act = "RECEIVE"
  BY <1>2 DEF Requests
<1>6. \A i \in DOMAIN Tail(p) : /\ i \in Nat \ {0} /\ i + 1 \in DOMAIN p
                                /\ Tail(p)[i] = p[i + 1]
  BY <1>2
<1>7. \A i \in Requests(Tail(p)) : i \in DOMAIN Tail(p) /\ i + 1 \in Requests(p)
  BY <1>6 DEF Requests
<1> QED
  BY <1>2, <1>3, <1>4, <1>5, <1>6, <1>7

(* What an argument that the handler sends, or need not send, comes to. *)
LEMMA SendAgrees ==
  ASSUME FourByte = {}, CallInv, ClientSend, link, NEW t \in call.args,
         Agrees(toServer, t.val, options[t.opt], t.opt) \/ t = Head(todo)
  PROVE  Agrees(toServer', t.val, options'[t.opt], t.opt)
<1> DEFINE s == Head(todo)
<1>1. /\ todo # <<>> /\ s.act = "SEND" /\ options' = options /\ Queue(toServer)
  BY DEF ClientSend, serverVars, CallInv, OptionInv
<1>2. s \in call.args /\ Arguments(call.args)
  <2>1. s = todo[1] /\ 1 \in DOMAIN todo
    BY <1>1, RequestsLeft DEF CallInv, ReplyInv
  <2> QED
    BY <1>1, <2>1 DEF CallInv, ArgsInv
<1>3. CASE toServer' = Append(toServer, s)
  <2>1. CASE t = s
    BY <1>1, <1>3, <2>1, AppendSame
  <2>2. CASE t # s
    <3>1. t.opt # s.opt
      BY <1>2, <2>2 DEF Arguments
    <3> QED
      BY <1>1, <1>3, <2>2, <3>1, AppendOther
  <2> QED
    BY <2>1, <2>2
<1>4. CASE Cached(s) /\ toServer' = toServer
  <2>1. CASE t = s
    <3>1. s.opt \in FixedOptions /\ cache[s.opt] = s.val /\ s.val # Unset
      BY <1>2, <1>4 DEF Cached, Cacheable, Arguments
    <3>2. Agrees(toServer, s.val, options[s.opt], s.opt)
      BY <3>1, AgreementByOption DEF CallInv, OptionInv
    <3> QED
      BY <1>1, <1>4, <2>1, <3>2
  <2> QED
    BY <1>1, <1>4, <2>1
<1> QED
  BY <1>3, <1>4 DEF ClientSend

(* Supplied is kept when what is agreed on is, and what was sent agrees. *)
LEMMA SuppliedStep ==
  ASSUME NEW c, NEW args, NEW q, NEW r, NEW f, NEW g, NEW T, NEW U,
         Supplied(c, args, q, f, T),
         \A s \in args : Agrees(q, s.val, f[s.opt], s.opt) \/ s \in T
                           => Agrees(r, s.val, g[s.opt], s.opt) \/ s \in U
  PROVE  Supplied(c, args, r, g, U)
  BY DEF Supplied

(* An option is sent, or is skipped because the server has it or will have it.
   This is the one step that needs options of another size not to be skipped. *)
LEMMA ClientSendKeeps ==
  ASSUME FourByte = {}, CallInv, OptionInv', ReplyInv', ClientSend
  PROVE  CallInv'
<1> DEFINE s == Head(todo)
<1>1. /\ todo # <<>> /\ awaiting = Unset /\ s.act = "SEND" /\ todo' = Tail(todo)
      /\ call' = IF todo' = <<>> THEN Idle ELSE call
      /\ toServer' \in {toServer, Append(toServer, s)} /\ (~link => toServer' = toServer)
      /\ UNCHANGED <<mounted, awaiting, handle, logBuffer, link, silent, toClient, serverVars, diskVars>>
  BY DEF ClientSend, Continue
<1>2. /\ 1 \notin Requests(todo)
      /\ \A i \in DOMAIN todo' : /\ i \in Nat \ {0} /\ i + 1 \in DOMAIN todo
                                /\ todo'[i] = todo[i + 1]
                                /\ Before(todo, i + 1) = {s} \union Before(todo', i)
      /\ \A i \in Requests(todo') : i \in DOMAIN todo' /\ i + 1 \in Requests(todo)
  BY <1>1, RequestsLeft DEF CallInv, ReplyInv
<1>3. ArgsInv'
  <2>1. CASE todo' = <<>>
    BY <1>1, <2>1 DEF ArgsInv, Arguments, Idle, Requests
  <2>2. CASE todo' # <<>>
    <3>1. call' = call
      BY <1>1, <2>2
    <3>2. ASSUME link, NEW i \in Requests(todo')
          PROVE  Supplied(todo'[i].opt, call.args, toServer', options', Before(todo', i))
      <4>1. Supplied(todo'[i].opt, call.args, toServer, options, {s} \union Before(todo', i))
        BY <1>2, <3>2 DEF CallInv, ArgsInv
      <4>2. \A t \in call.args :
              Agrees(toServer, t.val, options[t.opt], t.opt) \/ t \in {s} \union Before(todo', i)
                => Agrees(toServer', t.val, options'[t.opt], t.opt) \/ t \in Before(todo', i)
        BY <3>2, SendAgrees
      <4> QED
        BY <4>1, <4>2, SuppliedStep
    <3>3. \A i \in DOMAIN todo' : todo'[i].act = "SEND" => todo'[i] \in call.args
      BY <1>2 DEF CallInv, ArgsInv
    <3> QED
      BY <1>1, <3>1, <3>2, <3>3 DEF CallInv, ArgsInv
  <2> QED
    BY <2>1, <2>2
<1>4. QueueInv' /\ \A i \in Requests(toServer') : toServer'[i].opt \in Opens => nextFd' <= MaxFd
  <2>1. CASE ~link
    BY <1>1, <2>1 DEF CallInv, QueueInv, RoomInv, serverVars
  <2>2. CASE link
    <3>1. Requests(toServer) = {} /\ Queue(toServer)
      BY <1>1, <2>2
         DEF CallInv, ReplyInv, InStep, NothingAwaited, RequestOnItsWay, ReplyOnItsWay
    <3>2. Requests(toServer') = {}
      BY <1>1, <3>1, RequestsAppend
    <3> QED
      BY <3>2 DEF QueueInv
  <2> QED
    BY <2>1, <2>2
<1>5. SingleInv'
  <2>1. ASSUME NEW i \in Requests(todo'), todo'[i].opt \in Single
        PROVE  Requests(todo') = {i}
    <3>1. Requests(todo) = {i + 1}
      BY <1>2, <2>1 DEF CallInv, SingleInv
    <3>2. \A j \in Requests(todo') : j = i
      BY <1>2, <2>1, <3>1
    <3> QED
      BY <2>1, <3>2
  <2>2. Unset \notin Single
    BY RiiFSAssumption DEF Single, Opens, Sessions, Commands
  <2> QED
    BY <1>1, <2>1, <2>2 DEF SingleInv
<1>6. RoomInv'
  BY <1>1, <1>2, <1>4 DEF CallInv, RoomInv, serverVars
<1>7. HandleInv'
  <2>1. \A c \in Due' : c \in Due /\ todo' # <<>>
    BY <1>1, <1>2 DEF Due, Requests
  <2>2. \A c \in Due' : Fits(c, call.h, call.args)'
    BY <1>1, <2>1 DEF CallInv, HandleInv, Fits
  <2> QED
    BY <1>1, <2>2 DEF CallInv, HandleInv
<1>8. ServerInv' /\ ReturnsInv'
  BY <1>1 DEF CallInv, ServerInv, ReturnsInv, serverVars, diskVars
<1> QED
  BY <1>3, <1>4, <1>5, <1>6, <1>7, <1>8 DEF CallInv

(* The request goes last, behind every option that it uses. *)
LEMMA ClientRequestKeeps ==
  ASSUME CallInv, OptionInv', ReplyInv', ClientRequest
  PROVE  CallInv'
<1> DEFINE s == Head(todo)
<1>1. /\ todo # <<>> /\ awaiting = Unset /\ s.act = "RECEIVE" /\ todo' = Tail(todo)
      /\ awaiting' = s.opt
      /\ toServer' = IF link THEN Append(toServer, s) ELSE toServer
      /\ UNCHANGED <<mounted, call, handle, logBuffer, link, silent, toClient, serverVars, diskVars>>
  BY DEF ClientRequest
<1>2. /\ 1 \in Requests(todo) /\ s = todo[1] /\ Before(todo, 1) = {}
      /\ \A i \in DOMAIN todo' : /\ i \in Nat \ {0} /\ i + 1 \in DOMAIN todo
                                /\ todo'[i] = todo[i + 1]
                                /\ Before(todo, i + 1) = {s} \union Before(todo', i)
      /\ \A i \in Requests(todo') : i \in DOMAIN todo' /\ i + 1 \in Requests(todo)
  BY <1>1, RequestsLeft DEF CallInv, ReplyInv
<1>3. Queue(toServer) /\ Arguments(call.args) /\ s \notin call.args
  BY <1>1 DEF CallInv, OptionInv, ArgsInv, Arguments
<1>4. \A t \in call.args : Agrees(toServer, t.val, options[t.opt], t.opt)
                             => Agrees(toServer', t.val, options'[t.opt], t.opt)
  BY <1>1, <1>3, AppendOther DEF serverVars
<1>5. link => Supplied(s.opt, call.args, toServer', options', {})
  <2>1. link => Supplied(s.opt, call.args, toServer, options, {})
    BY <1>2 DEF CallInv, ArgsInv
  <2> QED
    BY <1>4, <2>1, SuppliedStep
<1>6. ArgsInv'
  <2>1. ASSUME link, NEW i \in Requests(todo')
        PROVE  Supplied(todo'[i].opt, call.args, toServer', options', Before(todo', i))
    <3>1. Supplied(todo'[i].opt, call.args, toServer, options, {s} \union Before(todo', i))
      BY <1>2, <2>1 DEF CallInv, ArgsInv
    <3>2. \A t \in call.args :
            Agrees(toServer, t.val, options[t.opt], t.opt) \/ t \in {s} \union Before(todo', i)
              => Agrees(toServer', t.val, options'[t.opt], t.opt) \/ t \in Before(todo', i)
      BY <1>3, <1>4
    <3> QED
      BY <3>1, <3>2, SuppliedStep
  <2>2. \A i \in DOMAIN todo' : todo'[i].act = "SEND" => todo'[i] \in call.args
    BY <1>2 DEF CallInv, ArgsInv
  <2> QED
    BY <1>1, <1>5, <2>1, <2>2 DEF CallInv, ArgsInv
<1>7. /\ QueueInv'
      /\ \A i \in Requests(toServer') : toServer'[i].opt \in Opens => nextFd' <= MaxFd
  <2>1. CASE ~link
    BY <1>1, <2>1 DEF CallInv, QueueInv, RoomInv, serverVars
  <2>2. CASE link
    <3>1. Requests(toServer) = {}
      BY <1>1, <2>2
         DEF CallInv, ReplyInv, InStep, NothingAwaited, RequestOnItsWay, ReplyOnItsWay
    <3>2. RequestLast(toServer', s.opt)
      BY <1>1, <1>3, <2>2, <3>1, RequestsAppend
    <3>3. \A o \in Uses(s.opt) : \E v \in Legal(s.opt, o) : Agrees(toServer', v, options'[o], o)
      BY <1>5, <2>2 DEF Supplied
    <3>4. s.opt \in Opens => nextFd' <= MaxFd
      BY <1>1, <1>2, <2>2 DEF CallInv, RoomInv, serverVars
    <3> QED
      BY <3>2, <3>3, <3>4 DEF QueueInv, RequestLast
  <2> QED
    BY <2>1, <2>2
<1>8. SingleInv'
  <2>1. ASSUME NEW i \in Requests(todo'), todo'[i].opt \in Single PROVE FALSE
    <3>1. Requests(todo) = {i + 1} /\ i \in Nat \ {0}
      BY <1>2, <2>1 DEF CallInv, SingleInv
    <3> QED
      BY <1>2, <3>1
  <2>2. ASSUME s.opt \in Single, NEW i \in Requests(todo') PROVE FALSE
    <3>1. Requests(todo) = {1} /\ i + 1 \in Requests(todo) /\ i \in Nat \ {0}
      BY <1>2, <2>2 DEF CallInv, SingleInv
    <3> QED
      BY <3>1
  <2> QED
    BY <1>1, <2>1, <2>2 DEF SingleInv
<1>9. RoomInv'
  BY <1>1, <1>2, <1>7 DEF CallInv, RoomInv, serverVars
<1>10. HandleInv'
  <2>1. \A c \in Due' : c \in Due
    BY <1>1, <1>2 DEF Due
  <2>2. \A c \in Due' : Fits(c, call.h, call.args)'
    BY <1>1, <2>1 DEF CallInv, HandleInv, Fits
  <2> QED
    BY <1>1, <2>2 DEF CallInv, HandleInv
<1>11. ServerInv' /\ ReturnsInv'
  BY <1>1 DEF CallInv, ServerInv, ReturnsInv, serverVars, diskVars
<1> QED
  BY <1>6, <1>7, <1>8, <1>9, <1>10, <1>11 DEF CallInv

(* What the handler gets is something that the command it waits for returns. *)
LEMMA ReturnedIs ==
  ASSUME CallInv, ClientReceive
  PROVE  /\ \E ret, entry : Returned(ret, entry) /\ Returns(awaiting, ret, entry)
         /\ toClient' = <<>>
         /\ awaiting # Unset /\ awaiting' = Unset
         /\ UNCHANGED <<cache, silent, toServer, serverVars, diskVars>>
<1>1. /\ awaiting # Unset /\ awaiting' = Unset
      /\ UNCHANGED <<cache, silent, toServer, serverVars, diskVars>>
  BY DEF ClientReceive
<1>2. CASE toClient # <<>> /\ toClient' = Tail(toClient)
           /\ Returned(Head(toClient).ret, Head(toClient).entry)
  <2>1. PICK r : toClient = <<r>> /\ r.command = awaiting
    BY <1>2 DEF CallInv, ReplyInv, InStep, NothingAwaited, RequestOnItsWay, ReplyOnItsWay
  <2>2. Head(toClient) = r /\ toClient' = <<>> /\ 1 \in DOMAIN toClient /\ toClient[1] = r
    BY <1>2, <2>1
  <2>3. Returns(awaiting, r.ret, r.entry)
    BY <2>1, <2>2 DEF CallInv, ReturnsInv
  <2> QED
    BY <1>1, <1>2, <2>2, <2>3
<1>3. CASE toClient = <<>> /\ toClient' = toClient /\ Returned(-1, Unset)
  <2>1. Returns(awaiting, -1, Unset)
    BY DEF Returns
  <2> QED
    BY <1>1, <1>3, <2>1
<1> QED
  BY <1>2, <1>3 DEF ClientReceive, ReceiveFails

(* The call goes on with what it has left, is over, or asks for the position. *)
LEMMA ReturnedGoesOn ==
  ASSUME NEW ret, NEW entry, Returned(ret, entry)
  PROVE  \/ Continue(todo) \/ Continue(<<>>)
         \/ Continue(<<Receive("FILE_TELL")>>) /\ awaiting = "FILE_SEEK"
<1>1. CASE OpenReturned(ret) \/ TransferReturned(ret) \/ TellReturned(ret) \/ CloseReturned
  BY <1>1 DEF OpenReturned, TransferReturned, TellReturned, CloseReturned
<1>2. CASE SessionReturned(ret) \/ ValueReturned \/ NextDirReturned(ret, entry)
  BY <1>2 DEF SessionReturned, ValueReturned, NextDirReturned
<1>3. CASE SeekReturned(ret)
  BY <1>3 DEF SeekReturned
<1> QED
  BY <1>1, <1>2, <1>3 DEF Returned

(* Nothing but the file of the call changes, and it stays the one it was. *)
LEMMA ReturnedHandles ==
  ASSUME CallInv, NEW ret, NEW entry, Returned(ret, entry), Returns(awaiting, ret, entry),
         awaiting # Unset
  PROVE  /\ handle' \in [Handles -> Info \union {Unset}]
         /\ logBuffer' \in Data \union {Unset}
         /\ mounted' \in BOOLEAN
         /\ ~mounted' => \A h \in Handles : handle'[h] = Unset
         /\ awaiting \notin Single =>
              /\ mounted' = mounted
              /\ \A h \in Handles : handle[h] # Unset =>
                   /\ handle'[h] # Unset
                   /\ handle'[h].kind = handle[h].kind /\ handle'[h].fd = handle[h].fd
<1>1. /\ handle \in [Handles -> Info \union {Unset}] /\ logBuffer \in Data \union {Unset}
      /\ mounted \in BOOLEAN /\ (~mounted => \A h \in Handles : handle[h] = Unset)
      /\ Fits(awaiting, call.h, call.args)
  BY DEF CallInv, HandleInv, Due
<1>2. ASSUME NEW info \in Info, WithInfo(info), awaiting \in OnHandle,
             info.kind = handle[call.h].kind, info.fd = handle[call.h].fd
      PROVE  /\ handle' \in [Handles -> Info \union {Unset}]
             /\ mounted' = mounted /\ logBuffer' = logBuffer
             /\ ~mounted' => \A h \in Handles : handle'[h] = Unset
             /\ \A h \in Handles : handle[h] # Unset =>
                   /\ handle'[h] # Unset
                   /\ handle'[h].kind = handle[h].kind /\ handle'[h].fd = handle[h].fd
  BY <1>1, <1>2, UnsetAssumption DEF WithInfo, Fits
<1>3. ASSUME awaiting \in OnHandle
      PROVE  call.h \in Handles /\ handle[call.h] \in Info
  BY <1>1, <1>3 DEF Fits
<1>4. CASE OpenReturned(ret)
  <2>1. awaiting \in Opens /\ awaiting \in Single /\ mounted /\ call.h \in Handles
    BY <1>1, <1>4 DEF OpenReturned, Opens, Single, Fits
  <2>2. CASE NoChange
    BY <1>1, <2>1, <2>2 DEF NoChange
  <2>3. CASE WithInfo(NewFile(ret)) \/ WithInfo(NewDir(ret))
    <3>1. CASE ret \in Fds
      <4>1. NewFile(ret) \in Info /\ NewDir(ret) \in Info
        <5>1. <<>> \in Seq(Paths)
          BY EmptySeq
        <5>2. NewFile(ret) \in Info
          BY <3>1, <5>1 DEF NewFile, Info
        <5> QED
          BY <5>2 DEF NewDir, Info
      <4> QED
        BY <1>1, <2>1, <2>3, <4>1 DEF WithInfo
    <3>2. CASE ret = -1
      BY <1>1, <1>4, <2>1, <3>2 DEF OpenReturned, NoChange
    <3> QED
      BY <2>1, <3>1, <3>2 DEF Returns
  <2> QED
    BY <1>4, <2>2, <2>3 DEF OpenReturned
<1>5. CASE TransferReturned(ret)
  <2>1. awaiting \in OnHandle
    BY <1>5 DEF TransferReturned, OnHandle
  <2>2. [handle[call.h] EXCEPT !.pos = @ + ret] \in Info
    BY <1>3, <2>1 DEF Info, Returns
  <2>3. CASE WithInfo([handle[call.h] EXCEPT !.pos = @ + ret])
    BY <1>1, <1>2, <1>3, <2>1, <2>2, <2>3 DEF Info
  <2> QED
    BY <1>1, <1>5, <2>3 DEF TransferReturned, NoChange
<1>6. CASE SeekReturned(ret)
  <2>1. awaiting \in OnHandle
    BY <1>6 DEF SeekReturned, OnHandle
  <2>2. [handle[call.h] EXCEPT !.dirty = FALSE] \in Info
    BY <1>3, <2>1 DEF Info
  <2>3. CASE WithInfo([handle[call.h] EXCEPT !.dirty = FALSE])
    BY <1>1, <1>2, <1>3, <2>1, <2>2, <2>3 DEF Info
  <2> QED
    BY <1>1, <1>6, <2>3 DEF SeekReturned, NoChange
<1>7. CASE TellReturned(ret)
  <2>1. awaiting \in OnHandle
    BY <1>7 DEF TellReturned, OnHandle
  <2>2. [handle[call.h] EXCEPT !.pos = ret] \in Info
    BY <1>3, <2>1 DEF Info, Returns
  <2>3. WithInfo([handle[call.h] EXCEPT !.pos = ret])
    BY <1>7 DEF TellReturned
  <2> QED
    BY <1>1, <1>2, <1>3, <2>1, <2>2, <2>3 DEF Info
<1>8. CASE CloseReturned
  <2>1. awaiting \in Single /\ awaiting \in OnHandle /\ WithInfo(Unset)
    BY <1>8 DEF CloseReturned, Single, OnHandle
  <2> QED
    BY <1>1, <2>1 DEF WithInfo
<1>9. CASE NextDirReturned(ret, entry)
  <2>1. awaiting \in OnHandle /\ awaiting = "FILE_NEXTDIR_PATH"
    BY <1>9 DEF NextDirReturned, OnHandle, Listings
  <2>2. CASE NoChange
    BY <1>1, <2>2 DEF NoChange
  <2>3. CASE ret >= 0 /\ WithInfo([handle[call.h] EXCEPT !.seen = Append(@, entry)])
    <3>1. entry \in Paths
      BY <2>1, <2>3 DEF Returns
    <3>2. [handle[call.h] EXCEPT !.seen = Append(@, entry)] \in Info
      <4>1. Append(handle[call.h].seen, entry) \in Seq(Paths)
        BY <1>3, <2>1, <3>1, AppendProperties DEF Info
      <4> QED
        BY <1>3, <2>1, <4>1 DEF Info
    <3> QED
      BY <1>1, <1>2, <1>3, <2>1, <2>3, <3>2 DEF Info
  <2> QED
    BY <1>9, <2>2, <2>3 DEF NextDirReturned
<1>10. CASE SessionReturned(ret)
  <2>1. /\ awaiting \in {"HANDSHAKE", "GOODBYE", "LOG"} /\ handle' = handle
        /\ mounted' = CASE awaiting = "HANDSHAKE" -> ret >= 3
                        [] awaiting = "GOODBYE" -> FALSE
                        [] OTHER -> mounted
        /\ logBuffer' \in {logBuffer, Unset}
    BY <1>10 DEF SessionReturned
  <2>2. CASE awaiting = "LOG"
    BY <1>1, <2>1, <2>2
  <2>3. CASE awaiting \in Sessions
    <3>1. mounted' \in BOOLEAN /\ logBuffer' \in Data \union {Unset}
      <4>1. (ret >= 3) \in BOOLEAN
        OBVIOUS
      <4> QED
        BY <1>1, <2>1, <2>3, <4>1, Zenon DEF Sessions
    <3>2. \A h \in Handles : handle[h] = Unset
      BY <1>1, <2>3 DEF Fits
    <3> QED
      BY <1>1, <2>1, <2>3, <3>1, <3>2 DEF Single
  <2> QED
    BY <2>1, <2>2, <2>3 DEF Sessions
<1>11. CASE ValueReturned
  BY <1>1, <1>11 DEF ValueReturned, NoChange
<1> QED
  BY <1>4, <1>5, <1>6, <1>7, <1>8, <1>9, <1>10, <1>11 DEF Returned

(* The reply is what the awaited command can return, and the call goes on. *)
LEMMA ClientReceiveKeeps ==
  ASSUME CallInv, OptionInv', ReplyInv', ClientReceive
  PROVE  CallInv'
<1> DEFINE tell == <<Receive("FILE_TELL")>>
<1>1. /\ toClient' = <<>> /\ awaiting # Unset /\ awaiting' = Unset
      /\ UNCHANGED <<cache, silent, toServer, serverVars, diskVars>> /\ (link' => link)
  BY ReturnedIs, ReceiveSendsNothing
<1>2. PICK ret, entry : Returned(ret, entry) /\ Returns(awaiting, ret, entry)
  BY ReturnedIs
<1>3. \/ todo' = todo
      \/ todo' = <<>>
      \/ todo' = tell /\ awaiting = "FILE_SEEK"
  BY <1>2, ReturnedGoesOn DEF Continue
<1>4. call' = IF todo' = <<>> THEN Idle ELSE call
  BY <1>2, ReturnedGoesOn DEF Continue
<1>5. DOMAIN tell = {1} /\ tell[1] = Receive("FILE_TELL") /\ Requests(tell) = {1}
      /\ tell # <<>> /\ Before(tell, 1) = {}
  BY DEF Requests, Receive, Before
<1>6. /\ awaiting \notin Single \/ Requests(todo) = {}
      /\ \A i \in Requests(todo) : todo[i].opt \notin Single
  BY <1>1 DEF CallInv, SingleInv
<1>7. Uses("FILE_TELL") = {"FILE"} /\ "FILE" \in Uses("FILE_SEEK")
      /\ Legal("FILE_TELL", "FILE") = Legal("FILE_SEEK", "FILE")
      /\ "FILE_TELL" \notin Single /\ Unset \notin Single
  BY UsesAre, LegalAre, RiiFSAssumption DEF Single, Opens, Sessions, Commands
<1> HIDE DEF tell
<1>8. ArgsInv'
  <2>1. CASE todo' = <<>>
    BY <1>1, <1>4, <2>1 DEF ArgsInv, Arguments, Idle, Requests
  <2>2. CASE todo' = todo /\ todo # <<>>
    BY <1>1, <1>4, <2>2 DEF CallInv, ArgsInv, serverVars
  <2>3. CASE todo' = tell /\ awaiting = "FILE_SEEK"
    <3>1. link => Supplied("FILE_TELL", call.args, toServer, options, {})
      BY <1>1, <1>7, <2>3 DEF CallInv, ArgsInv, Supplied
    <3> QED
      <4>1. /\ call' = call /\ Requests(todo') = {1} /\ todo'[1].opt = "FILE_TELL"
            /\ Before(todo', 1) = {} /\ UNCHANGED <<toServer, options>>
            /\ \A i \in DOMAIN todo' : todo'[i].act = "RECEIVE"
        BY <1>1, <1>4, <1>5, <2>3 DEF Receive, serverVars
      <4> QED
        BY <1>1, <3>1, <4>1 DEF CallInv, ArgsInv
  <2> QED
    BY <1>3, <2>1, <2>2, <2>3
<1>9. QueueInv' /\ ServerInv' /\ ReturnsInv'
  <2>1. QueueInv' /\ ServerInv'
    <3>1. link' \in BOOLEAN
      BY <1>2 DEF Returned, OpenReturned, TransferReturned, SeekReturned, TellReturned,
           CloseReturned, NextDirReturned, SessionReturned, ValueReturned, WithInfo, NoChange,
           CallInv, ServerInv
    <3> QED
      BY <1>1, <3>1 DEF CallInv, QueueInv, ServerInv, serverVars, diskVars
  <2>2. ReturnsInv'
    BY <1>1 DEF ReturnsInv
  <2> QED
    BY <2>1, <2>2
<1>10. /\ \A i \in Requests(todo') : todo'[i].opt \notin Single
       /\ \A i \in Requests(todo') : \/ todo' = todo
                                     \/ awaiting = "FILE_SEEK" /\ todo'[i].opt = "FILE_TELL"
  BY <1>3, <1>5, <1>6, <1>7 DEF Requests, Receive
<1>11. SingleInv' /\ RoomInv'
  <2>1. SingleInv'
    BY <1>1, <1>7, <1>10 DEF SingleInv
  <2>2. RoomInv'
    BY <1>1, <1>10 DEF CallInv, RoomInv, serverVars, Single
  <2> QED
    BY <2>1, <2>2
<1>12. HandleInv'
  <2>1. /\ handle' \in [Handles -> Info \union {Unset}]
        /\ logBuffer' \in Data \union {Unset}
        /\ mounted' \in BOOLEAN
        /\ ~mounted' => \A h \in Handles : handle'[h] = Unset
    BY <1>1, <1>2, ReturnedHandles
  <2>2. ASSUME NEW c \in Due' PROVE Fits(c, call.h, call.args)'
    <3>1. PICK i \in Requests(todo') : c = todo'[i].opt
      BY <1>1 DEF Due
    <3>2. call' = call /\ c \notin Single
      BY <1>4, <1>10, <3>1 DEF Requests
    <3>3. awaiting \notin Single
      BY <1>6, <1>7, <1>10, <3>1 DEF Single, Opens, Sessions
    <3>4. Fits(c, call.h, call.args)
      <4>1. CASE todo' = todo
        BY <3>1, <4>1 DEF CallInv, HandleInv, Due
      <4>2. CASE awaiting = "FILE_SEEK" /\ c = "FILE_TELL"
        <5>1. Fits(awaiting, call.h, call.args)
          BY <1>1 DEF CallInv, HandleInv, Due
        <5> QED
          BY <4>2, <5>1 DEF Fits, OnHandle, Listings, Opens, Sessions
      <4> QED
        BY <1>10, <3>1, <4>1, <4>2
    <3>5. \A h \in Handles : handle[h] # Unset =>
                   /\ handle'[h] # Unset
                   /\ handle'[h].kind = handle[h].kind /\ handle'[h].fd = handle[h].fd
      BY <1>1, <1>2, <3>3, ReturnedHandles
    <3> QED
      BY <3>2, <3>4, <3>5 DEF Fits, Single
  <2> QED
    BY <2>1, <2>2 DEF HandleInv
<1> QED
  BY <1>8, <1>9, <1>11, <1>12 DEF CallInv

-----------------------------------------------------------------------------
(* The server's commands keep the invariant.                                *)

(* What the server stores is what was agreed on. *)
LEMMA StoreAgrees ==
  ASSUME OptionInv, ServerSend, NEW o \in Options, NEW v, Agrees(toServer, v, options[o], o)
  PROVE  Agrees(toServer', v, options'[o], o)
<1> DEFINE s == Head(toServer)
<1>1. /\ Queue(toServer) /\ toServer # <<>> /\ s.act = "SEND" /\ toServer' = Tail(toServer)
      /\ options' = [options EXCEPT ![s.opt] = s.val] /\ DOMAIN options = Options
  BY DEF OptionInv, ServerSend, Stored
<1>2. CASE s.opt = o
  BY <1>1, <1>2, TailSame
<1>3. CASE s.opt # o
  BY <1>1, <1>3, TailOther
<1> QED
  BY <1>2, <1>3

(* What is left of the queue. *)
LEMMA QueueLeft ==
  ASSUME NEW q, Queue(q), q # <<>>
  PROVE  /\ Head(q) = q[1] /\ 1 \in DOMAIN q /\ Len(Tail(q)) = Len(q) - 1 /\ Len(q) \in Nat \ {0}
         /\ \A i \in Requests(Tail(q)) : /\ i \in Nat \ {0}
                                         /\ i + 1 \in Requests(q) /\ Tail(q)[i] = q[i + 1]
<1>1. /\ Head(q) = q[1] /\ Len(q) \in Nat \ {0}
      /\ DOMAIN Tail(q) = 1..(Len(q) - 1) /\ DOMAIN q = 1..Len(q)
      /\ \A i \in 1..(Len(q) - 1) : Tail(q)[i] = q[i + 1]
  BY QueueTail, QueueShape
<1>2. Len(Tail(q)) = Len(q) - 1
  BY HeadTailProperties DEF Queue
<1> QED
  BY <1>1, <1>2 DEF Requests

(* The options that commands use. *)
LEMMA UsesOptions == \A c : Uses(c) \subseteq Options
  BY DEF Uses, Options

(* The server stores an option. *)
LEMMA ServerSendKeeps ==
  ASSUME CallInv, OptionInv', ReplyInv', ServerSend
  PROVE  CallInv'
<1>1. /\ Queue(toServer) /\ toServer # <<>> /\ toServer' = Tail(toServer)
      /\ UNCHANGED <<clientVars, link, silent, toClient, serving, stream, listing, nextFd, diskVars>>
  BY DEF CallInv, OptionInv, ServerSend
<1>2. ASSUME NEW c, NEW U, Supplied(c, call.args, toServer, options, U)
      PROVE  Supplied(c, call.args, toServer', options', U)
  <2>1. \A s \in call.args : Agrees(toServer, s.val, options[s.opt], s.opt)
                               => Agrees(toServer', s.val, options'[s.opt], s.opt)
    BY StoreAgrees DEF CallInv, ArgsInv, Arguments
  <2> QED
    BY <1>2, <2>1, SuppliedStep
<1>3. ArgsInv'
  BY <1>1, <1>2 DEF CallInv, ArgsInv, clientVars
<1>4. QueueInv'
  <2>1. ASSUME NEW i \in Requests(toServer')
        PROVE  /\ i = Len(toServer')
               /\ \A o \in Uses(toServer'[i].opt) : \E v \in Legal(toServer'[i].opt, o) :
                    Agrees(toServer', v, options'[o], o)
    <3>1. /\ i \in Nat \ {0} /\ i + 1 \in Requests(toServer) /\ toServer'[i] = toServer[i + 1]
          /\ Len(toServer') = Len(toServer) - 1 /\ Len(toServer) \in Nat \ {0}
      BY <1>1, <2>1, QueueLeft
    <3>2. /\ i + 1 = Len(toServer)
          /\ \A o \in Uses(toServer[i + 1].opt) : \E v \in Legal(toServer[i + 1].opt, o) :
               Agrees(toServer, v, options[o], o)
      BY <3>1 DEF CallInv, QueueInv
    <3>3. i = Len(toServer')
      BY <3>1, <3>2
    <3> QED
      BY <3>1, <3>2, <3>3, StoreAgrees, UsesOptions DEF CallInv
  <2> QED
    BY <2>1 DEF QueueInv
<1>5. SingleInv'
  BY <1>1 DEF CallInv, SingleInv, clientVars
<1>6. RoomInv'
  BY <1>1, QueueLeft DEF CallInv, RoomInv, clientVars
<1>7. HandleInv'
  BY <1>1 DEF CallInv, HandleInv, Due, Fits, clientVars
<1>8. ServerInv' /\ ReturnsInv'
  BY <1>1 DEF CallInv, ServerInv, ReturnsInv, diskVars
<1> QED
  BY <1>3, <1>4, <1>5, <1>6, <1>7, <1>8 DEF CallInv

(* The request the server is about to read is all there is, and what it reads
   of the options is what the call sent. *)
LEMMA HeadOptions ==
  ASSUME CallInv, toServer # <<>>, Head(toServer).act = "RECEIVE"
  PROVE  /\ \A o \in Uses(Head(toServer).opt) : options[o] \in Legal(Head(toServer).opt, o)
         /\ Head(toServer).opt \in Opens => nextFd <= MaxFd
         /\ Requests(Tail(toServer)) = {}
         /\ link => /\ awaiting = Head(toServer).opt /\ toClient = <<>>
                    /\ \A s \in call.args : s.opt \in Uses(Head(toServer).opt)
                                              => options[s.opt] = s.val
<1> DEFINE c == Head(toServer).opt
<1>1. Queue(toServer) /\ toServer[1] = Head(toServer) /\ 1 \in DOMAIN toServer
  BY QueueLeft DEF CallInv, OptionInv
<1>2. 1 \in Requests(toServer) /\ toServer[1].opt = c
  BY <1>1 DEF Requests
<1>3. Len(toServer) = 1 /\ DOMAIN toServer = 1..1
  BY <1>1, <1>2, QueueShape DEF CallInv, QueueInv
<1>4. \A o : Sends(toServer, o) = {}
  BY <1>1, <1>3 DEF Sends
<1>5. \A v, w, o : Agrees(toServer, v, w, o) => v = w
  BY <1>4 DEF Agrees
<1> HIDE DEF c
<1>6. \A o \in Uses(c) : options[o] \in Legal(c, o)
  BY <1>2, <1>5 DEF CallInv, QueueInv
<1>7. c \in Opens => nextFd <= MaxFd
  BY <1>2 DEF CallInv, RoomInv
<1>8. Requests(Tail(toServer)) = {}
  <2>1. ASSUME NEW i \in Requests(Tail(toServer)) PROVE FALSE
    <3>1. i \in Nat \ {0} /\ i + 1 \in DOMAIN toServer
      BY <1>1, <2>1, QueueLeft DEF Requests
    <3> QED
      BY <1>3, <3>1
  <2> QED
    BY <2>1
<1>9. ASSUME link PROVE awaiting = c /\ awaiting # Unset /\ toClient = <<>>
  <2>1. RequestOnItsWay
    BY <1>2, <1>9 DEF CallInv, ReplyInv, InStep, NothingAwaited, ReplyOnItsWay
  <2> QED
    BY <1>2, <1>3, <1>9, <2>1 DEF RequestOnItsWay, RequestLast
<1>10. ASSUME link, NEW s \in call.args, s.opt \in Uses(c) PROVE options[s.opt] = s.val
  <2>1. Supplied(c, call.args, toServer, options, {})
    BY <1>9, <1>10 DEF CallInv, ArgsInv
  <2>2. PICK t \in call.args : t.opt = s.opt /\ Agrees(toServer, t.val, options[t.opt], t.opt)
    BY <1>10, <2>1 DEF Supplied
  <2>3. t = s
    BY <1>10, <2>2 DEF CallInv, ArgsInv, Arguments
  <2> QED
    BY <1>5, <2>2, <2>3
<1> QED
  BY <1>6, <1>7, <1>8, <1>9, <1>10 DEF c

(* A command is run on options it can be run on, and then nothing is left. *)
LEMMA CommandOptions ==
  ASSUME CallInv, NEW c, Receiving(c)
  PROVE  /\ \A o \in Uses(c) : options[o] \in Legal(c, o)
         /\ c \in Opens => nextFd <= MaxFd
         /\ Requests(toServer') = {}
         /\ link => /\ awaiting = c /\ toClient = <<>>
                    /\ \A s \in call.args : s.opt \in Uses(c) => options[s.opt] = s.val
<1>1. /\ toServer # <<>> /\ toServer' = Tail(toServer)
      /\ Head(toServer).act = "RECEIVE" /\ Head(toServer).opt = c
  BY DEF Receiving, Receive
<1> QED
  BY <1>1, HeadOptions

(* There is an inode for a name that has none. *)
LEMMA FreeInodeIs ==
  ASSUME ServerInv, NEW p \in Paths, name[p] \notin Inodes
  PROVE  /\ FreeInode \in Inodes
         /\ \A f \in Fds : stream[f] # Unset => stream[f].node # FreeInode
<1> DEFINE P == Paths \ {p}
           N == {name[q] : q \in P}
           M == {stream[f].node : f \in Fds}
<1>1. /\ IsFiniteSet(P) /\ Cardinality(P) = Cardinality(Paths) - 1
      /\ Cardinality(Paths) \in Nat /\ MaxFd \in Nat
  BY RiiFSAssumption, FS_RemoveElement, FS_CardinalityType
<1>2. IsFiniteSet(Fds) /\ Cardinality(Fds) = MaxFd
  BY <1>1, FS_Interval DEF Fds
<1>3. IsFiniteSet(N) /\ Cardinality(N) <= Cardinality(P)
  <2> DEFINE g == [q \in P |-> name[q]]
  <2>1. g \in Surjection(P, N)
    BY DEF Surjection
  <2> HIDE DEF g, N, P
  <2> QED
    BY <1>1, <2>1, FS_Surjection
<1>4. IsFiniteSet(M) /\ Cardinality(M) <= Cardinality(Fds)
  <2> DEFINE g == [f \in Fds |-> stream[f].node]
  <2>1. g \in Surjection(Fds, M)
    BY DEF Surjection
  <2> HIDE DEF g, M
  <2> QED
    BY <1>2, <2>1, FS_Surjection
<1> HIDE DEF N, M
<1>5. IsFiniteSet(N \union M) /\ Cardinality(N \union M) <= Cardinality(N) + Cardinality(M)
  <2>1. IsFiniteSet(N \intersect M)
    BY <1>3, FS_Intersection
  <2>2. Cardinality(N \intersect M) \in Nat /\ Cardinality(N) \in Nat /\ Cardinality(M) \in Nat
    BY <1>3, <1>4, <2>1, FS_CardinalityType
  <2>3. /\ IsFiniteSet(N \union M)
        /\ Cardinality(N \union M) = Cardinality(N) + Cardinality(M) - Cardinality(N \intersect M)
    BY <1>3, <1>4, FS_Union
  <2> QED
    BY <2>2, <2>3
<1>6. Cardinality(Inodes) = Cardinality(Paths) + MaxFd
  <2>1. Cardinality(Paths) + MaxFd \in Nat
    BY <1>1
  <2> QED
    BY <2>1, FS_Interval DEF Inodes
<1>7. \E i \in Inodes : i \notin N \union M
  <2> SUFFICES ASSUME Inodes \subseteq N \union M PROVE FALSE
    OBVIOUS
  <2>1. Cardinality(Inodes) <= Cardinality(N \union M)
    BY <1>5, FS_Subset
  <2>2. Cardinality(N) \in Nat /\ Cardinality(M) \in Nat /\ Cardinality(N \union M) \in Nat
    BY <1>3, <1>4, <1>5, FS_CardinalityType
  <2> QED
    BY <1>1, <1>2, <1>3, <1>4, <1>5, <1>6, <2>1, <2>2
<1>8. PICK i \in Inodes : i \notin N \union M
  BY <1>7
<1>9. \A q \in Paths : name[q] # i
  BY <1>8 DEF N
<1>10. \A f \in Fds : stream[f].node # i
  BY <1>8 DEF M
<1>11. \E j \in Inodes : /\ \A q \in Paths : name[q] # j
                         /\ \A f \in Fds : stream[f] # Unset => stream[f].node # j
  BY <1>9, <1>10
<1> QED
  BY <1>11 DEF FreeInode

-----------------------------------------------------------------------------
(* The server's commands.                                                   *)

(* What a command does that the rest depends on: it answers with what it can
   return and leaves the server with what it can hold. *)
Served(c) ==
  /\ Receiving(c)
  /\ \E ret, entry : ReturnEntry(ret, entry) /\ Returns(c, ret, entry)
  /\ ServerInv'
  /\ c \notin Opens => nextFd' = nextFd
  /\ UNCHANGED <<clientVars, options>>
  /\ link' => link

(* A plain value is what most commands can return. *)
LEMMA ReturnsValue ==
  ASSUME NEW c, NEW ret \in Int, Return(ret), c \in Opens => ret \in Fds \union {-1},
         c # "FILE_NEXTDIR_PATH" \/ ret < 0
  PROVE  \E r, entry : ReturnEntry(r, entry) /\ Returns(c, r, entry)
  BY DEF Return, Returns

(* A command that only answers. *)
LEMMA AnswerServes ==
  ASSUME ServerInv, NEW c, NEW ret \in Int, Answer(c, ret), c \notin Opens \union Listings
  PROVE  Served(c)
<1>1. \E r, entry : ReturnEntry(r, entry) /\ Returns(c, r, entry)
  BY ReturnsValue DEF Answer, Listings
<1> QED
  BY <1>1 DEF Answer, Served, ServerInv, serverVars, diskVars

(* All of them. *)
LEMMA AnswersServe ==
  ASSUME CallInv, Handshake \/ LogText \/ FileTell \/ FileStat
  PROVE  \E c \in Commands : Served(c)
<1>1. "HANDSHAKE" \in Commands \ (Opens \union Listings) /\ "LOG" \in Commands \ (Opens \union Listings)
      /\ "FILE_TELL" \in Commands \ (Opens \union Listings)
      /\ "FILE_STAT" \in Commands \ (Opens \union Listings)
  BY DEF Commands, Opens, Listings
<1>2. ServerInv /\ \A f \in Fds : stream[f] # Unset => stream[f].pos \in Int
  BY DEF CallInv, ServerInv, Stream
<1>3. /\ (IF options["HANDSHAKE"] = "1.03" THEN 4 ELSE -1) \in Int
      /\ (IF name[path] = Unset THEN -1 ELSE 0) \in Int
      /\ 1 \in Int
  OBVIOUS
<1>4. (IF FileOpened /\ stream[fd].ok THEN stream[fd].pos ELSE -1) \in Int
  BY <1>2 DEF FileOpened
<1>5. CASE Handshake
  BY <1>1, <1>2, <1>3, <1>5, AnswerServes DEF Handshake
<1>6. CASE LogText
  BY <1>1, <1>2, <1>3, <1>6, AnswerServes DEF LogText
<1>7. CASE FileTell
  BY <1>1, <1>2, <1>4, <1>7, AnswerServes DEF FileTell
<1>8. CASE FileStat
  BY <1>1, <1>2, <1>3, <1>8, AnswerServes DEF FileStat
<1> QED
  BY <1>5, <1>6, <1>7, <1>8

(* The last answer on the connection. *)
LEMMA GoodbyeServes ==
  ASSUME CallInv, Goodbye
  PROVE  Served("GOODBYE")
<1>1. \E r, entry : ReturnEntry(r, entry) /\ Returns("GOODBYE", r, entry)
  BY ReturnsValue DEF Goodbye, Opens
<1> QED
  BY <1>1 DEF Goodbye, Served, CallInv, ServerInv, serverVars, diskVars, Opens

(* A stream is put where there was none before, on an inode. *)
LEMMA FileOpenServes ==
  ASSUME CallInv, FileOpen
  PROVE  Served("FILE_OPEN")
<1> DEFINE c == "FILE_OPEN"
           mode == options["MODE"]
           node == IF IsRegular(path) THEN name[path] ELSE FreeInode
<1>1. /\ Receiving(c) /\ c \in Opens /\ ServerInv
      /\ UNCHANGED <<clientVars, link, silent, serving, options, listing>>
  BY DEF FileOpen, Opens, CallInv
<1>2. path \in Paths /\ nextFd \in Fds /\ MaxFd \in Nat /\ nextFd \in Nat
  <2>1. options["PATH"] \in Legal(c, "PATH") /\ nextFd <= MaxFd
    BY <1>1, CommandOptions, UsesAre
  <2> QED
    BY <1>1, <2>1, LegalAre, RiiFSAssumption DEF path, ServerInv, Fds
<1>3. node \in Inodes
  BY <1>1, <1>2, FreeInodeIs DEF IsRegular
<1>4. NewStream(node, mode) \in Stream
  <2>1. OpensIn(mode) \in BOOLEAN /\ (OpensOut(mode) \/ Appends(mode)) \in BOOLEAN
        /\ Appends(mode) \in BOOLEAN
    BY DEF OpensIn, OpensOut, Appends
  <2> HIDE DEF node, mode
  <2> QED
    BY <1>3, <2>1 DEF NewStream, Stream
<1>5. CASE ~CanOpen(path, mode) /\ Return(-1) /\ UNCHANGED <<stream, nextFd, diskVars>>
  <2>1. \E r, entry : ReturnEntry(r, entry) /\ Returns(c, r, entry)
    BY <1>5, ReturnsValue
  <2> QED
    BY <1>1, <1>5, <2>1 DEF Served, ServerInv, diskVars
<1>6. CASE /\ CanOpen(path, mode)
           /\ stream' = [stream EXCEPT ![nextFd] = NewStream(node, mode)]
           /\ nextFd' = nextFd + 1
           /\ name' = [name EXCEPT ![path] = node]
           /\ size' = [size EXCEPT ![node] = IF IsRegular(path) /\ ~Truncates(mode) THEN @ ELSE 0]
           /\ Return(nextFd)
  <2>1. \E r, entry : ReturnEntry(r, entry) /\ Returns(c, r, entry)
    BY <1>2, <1>6, ReturnsValue
  <2> HIDE DEF node
  <2>2. stream' \in [Fds -> Stream \union {Unset}]
    BY <1>1, <1>4, <1>6 DEF ServerInv
  <2>3. name' \in [Paths -> Inodes \union {Dir, Unset}] /\ size' \in [Inodes -> Nat]
    BY <1>1, <1>3, <1>6 DEF ServerInv
  <2>4. nextFd' \in 1..(MaxFd + 1)
    BY <1>2, <1>6 DEF Fds
  <2> QED
    BY <1>1, <2>1, <2>2, <2>3, <2>4 DEF Served, ServerInv
<1> QED
  BY <1>5, <1>6 DEF FileOpen

(* Writing what is in a stream's buffer does not make its file shorter. *)
LEMMA GrownIs ==
  ASSUME ServerInv, NEW f \in Fds, stream[f] # Unset
  PROVE  /\ Grown(stream[f]) \in Nat /\ Grown(stream[f]) >= size[stream[f].node]
         /\ stream[f].node \in Inodes /\ size[stream[f].node] \in Nat
<1> DEFINE s == stream[f]
<1>1. s \in Stream
  BY DEF ServerInv
<1>2. s.node \in Inodes /\ s.tail \in Nat /\ s.pos \in Nat
  BY <1>1 DEF Stream
<1>3. size[s.node] \in Nat
  BY <1>2 DEF ServerInv
<1>4. size[s.node] + s.tail \in Nat
  BY <1>2, <1>3
<1> QED
  BY <1>2, <1>3, <1>4 DEF Grown

(* Nor does it change any other. *)
LEMMA FlushIs ==
  ASSUME ServerInv, Flush
  PROVE  size' \in [Inodes -> Nat]
<1>1. size \in [Inodes -> Nat]
  BY DEF ServerInv
<1>2. CASE FileOpened
  <2>1. fd \in Fds /\ stream[fd] # Unset
    BY <1>2 DEF FileOpened
  <2>2. Grown(stream[fd]) \in Nat
    BY <2>1, GrownIs
  <2> QED
    BY <1>1, <1>2, <2>2 DEF Flush
<1> QED
  BY <1>1, <1>2 DEF Flush

(* The commands that are run on an open stream. *)
LEMMA StreamsServe ==
  ASSUME CallInv, FileRead \/ FileWrite \/ FileSeek \/ FileSync \/ FileClose
  PROVE  \E c : Served(c)
<1> DEFINE s == stream[fd]
<1>1. ServerInv /\ (FileOpened => fd \in Fds /\ s \in Stream)
  BY DEF CallInv, ServerInv, FileOpened
<1>2. ASSUME NEW c, ServeStream(c), c \notin Opens \union Listings,
             NEW ret \in Int, Return(ret),
             stream' \in [Fds -> Stream \union {Unset}], size' \in [Inodes -> Nat]
      PROVE  Served(c)
  <2>1. \E r, entry : ReturnEntry(r, entry) /\ Returns(c, r, entry)
    BY <1>2, ReturnsValue DEF Listings
  <2> QED
    BY <1>1, <1>2, <2>1 DEF ServeStream, Served, ServerInv
<1>3. ASSUME FileOpened, NEW p \in Nat, NEW b \in BOOLEAN, NEW n \in Nat
      PROVE  [stream EXCEPT ![fd].pos = p, ![fd].ok = b, ![fd].tail = n]
               \in [Fds -> Stream \union {Unset}]
  <2>1. [s EXCEPT !.pos = p, !.ok = b, !.tail = n] \in Stream
    BY <1>1, <1>3 DEF Stream
  <2> QED
    BY <1>1, <1>3, <2>1 DEF ServerInv
<1>4. ASSUME FileOpened, NEW p \in Nat, NEW n \in Nat
      PROVE  [stream EXCEPT ![fd].pos = p, ![fd].tail = n] \in [Fds -> Stream \union {Unset}]
  <2>1. [s EXCEPT !.pos = p, !.tail = n] \in Stream
    BY <1>1, <1>4 DEF Stream
  <2> QED
    BY <1>1, <1>4, <2>1 DEF ServerInv
<1>5. {"FILE_READ", "FILE_WRITE", "FILE_SEEK", "FILE_SYNC", "FILE_CLOSE"}
        \intersect (Opens \union Listings) = {}
  BY DEF Opens, Listings
<1>6. stream \in [Fds -> Stream \union {Unset}] /\ size \in [Inodes -> Nat]
  BY <1>1 DEF ServerInv
<1>7. FileOpened => /\ s.pos \in Nat /\ s.ok \in BOOLEAN /\ s.in \in BOOLEAN
                    /\ s.node \in Inodes /\ Grown(s) \in Nat
  BY <1>1, GrownIs DEF Stream, FileOpened
<1>8. CASE FileRead
  <2> DEFINE length == options["LENGTH"]
             got == IF s.ok /\ s.in THEN Least(length, Max0(Grown(s) - s.pos)) ELSE 0
  <2>1. /\ ServeStream("FILE_READ") /\ Flush
        /\ Return(IF FileOpened THEN got ELSE 0)
        /\ stream' = IF FileOpened
                     THEN [stream EXCEPT ![fd].pos = @ + got, ![fd].ok = @ /\ got = length,
                                         ![fd].tail = 0]
                     ELSE stream
    BY <1>8 DEF FileRead
  <2>2. length \in Nat
    <3>1. options["LENGTH"] \in Legal("FILE_READ", "LENGTH")
      BY <2>1, CommandOptions, UsesAre DEF ServeStream
    <3> QED
      BY <3>1, LegalAre, RiiFSAssumption
  <2>3. FileOpened => got \in Nat
    <3>1. FileOpened => Least(length, Max0(Grown(s) - s.pos)) \in Nat
      BY <1>7, <2>2 DEF Least, Max0
    <3> QED
      BY <3>1
  <2> HIDE DEF length, got
  <2>4. FileOpened => s.pos + got \in Nat /\ (s.ok /\ got = length) \in BOOLEAN
    BY <1>7, <2>3
  <2>5. FileOpened => stream' = [stream EXCEPT ![fd].pos = s.pos + got,
                                               ![fd].ok = (s.ok /\ got = length), ![fd].tail = 0]
    BY <1>1, <1>6, <2>1 DEF Stream
  <2>6. stream' \in [Fds -> Stream \union {Unset}]
    BY <1>3, <1>6, <2>1, <2>4, <2>5
  <2>7. (IF FileOpened THEN got ELSE 0) \in Int
    BY <2>3
  <2>8. size' \in [Inodes -> Nat]
    BY <1>1, <2>1, FlushIs
  <2>9. Served("FILE_READ")
    BY <1>2, <1>5, <2>1, <2>6, <2>7, <2>8
  <2> QED
    BY <2>9
<1>9. CASE FileWrite
  <2> DEFINE length == DataLen[options["DATA"]]
             end == length + (IF s.app THEN Grown(s) ELSE s.pos)
             last == IF end > Grown(s) THEN end ELSE Grown(s)
             stores == FileOpened /\ s.ok /\ s.out
  <2>1. /\ ServeStream("FILE_WRITE")
        /\ Return(IF stores \/ (FileOpened /\ ~s.ok) THEN length ELSE 0)
        /\ \/ ~stores /\ UNCHANGED <<stream, size>>
           \/ /\ stores /\ Flush
              /\ stream' = [stream EXCEPT ![fd].pos = @ + length, ![fd].tail = length]
           \/ /\ stores
              /\ stream' = [stream EXCEPT ![fd].pos = end, ![fd].tail = 0]
              /\ size' = [size EXCEPT ![s.node] = last]
    BY <1>9 DEF FileWrite
  <2>2. length \in Nat
    <3>1. options["DATA"] \in Legal("FILE_WRITE", "DATA")
      BY <2>1, CommandOptions, UsesAre DEF ServeStream
    <3> QED
      BY <3>1, LegalAre, RiiFSAssumption
  <2>3. FileOpened => end \in Nat /\ s.pos + length \in Nat
    BY <1>7, <2>2
  <2>4. FileOpened => last \in Nat
    BY <1>7, <2>3
  <2>5. stores => FileOpened
    OBVIOUS
  <2> HIDE DEF length, end, last, stores
  <2>6. stream' \in [Fds -> Stream \union {Unset}] /\ size' \in [Inodes -> Nat]
    <3>1. CASE ~stores /\ UNCHANGED <<stream, size>>
      BY <1>6, <3>1
    <3>2. CASE /\ stores /\ Flush
               /\ stream' = [stream EXCEPT ![fd].pos = @ + length, ![fd].tail = length]
      <4>1. stream' = [stream EXCEPT ![fd].pos = s.pos + length, ![fd].tail = length]
        BY <3>2
      <4>2. FileOpened /\ s.pos + length \in Nat
        BY <2>3, <2>5, <3>2
      <4> DEFINE p == s.pos + length
      <4> HIDE DEF p
      <4>3. stream' = [stream EXCEPT ![fd].pos = p, ![fd].tail = length] /\ p \in Nat
        BY <4>1, <4>2 DEF p
      <4>4. stream' \in [Fds -> Stream \union {Unset}]
        BY <1>4, <2>2, <4>2, <4>3
      <4> QED
        BY <1>1, <3>2, <4>4, FlushIs
    <3>3. CASE /\ stores
               /\ stream' = [stream EXCEPT ![fd].pos = end, ![fd].tail = 0]
               /\ size' = [size EXCEPT ![s.node] = last]
      BY <1>4, <1>6, <1>7, <2>3, <2>4, <2>5, <3>3
    <3> QED
      BY <2>1, <3>1, <3>2, <3>3
  <2>7. (IF stores \/ (FileOpened /\ ~s.ok) THEN length ELSE 0) \in Int
    BY <2>2
  <2>8. Served("FILE_WRITE")
    BY <1>2, <1>5, <2>1, <2>6, <2>7
  <2> QED
    BY <2>8
<1>10. CASE FileSeek
  <2> DEFINE target == options["WHERE"] + CASE options["WHENCE"] = "SET" -> 0
                                            [] options["WHENCE"] = "CUR" -> s.pos
                                            [] OTHER -> Grown(s)
             p == IF Refused(target) THEN s.pos ELSE target
  <2>1. /\ ServeStream("FILE_SEEK") /\ Flush
        /\ Return(IF ~FileOpened \/ Refused(target) THEN -1 ELSE 0)
        /\ stream' = IF FileOpened
                     THEN [stream EXCEPT ![fd].pos = IF Refused(target) THEN @ ELSE target,
                                         ![fd].ok = TRUE, ![fd].tail = 0]
                     ELSE stream
    BY <1>10 DEF FileSeek
  <2>2. options["WHERE"] \in Int
    BY <2>1, CommandOptions, UsesAre, LegalAre DEF ServeStream
  <2>3. FileOpened => target \in Int
    BY <1>7, <2>2
  <2> HIDE DEF target
  <2>4. FileOpened => p \in Nat
    BY <1>7, <2>3 DEF Refused
  <2>5. FileOpened => stream' = [stream EXCEPT ![fd].pos = p, ![fd].ok = TRUE, ![fd].tail = 0]
    BY <1>1, <1>6, <2>1 DEF Stream
  <2> HIDE DEF p
  <2>6. stream' \in [Fds -> Stream \union {Unset}]
    BY <1>3, <1>6, <2>1, <2>4, <2>5
  <2>7. (IF ~FileOpened \/ Refused(target) THEN -1 ELSE 0) \in Int
    OBVIOUS
  <2>8. size' \in [Inodes -> Nat]
    BY <1>1, <2>1, FlushIs
  <2>9. Served("FILE_SEEK")
    BY <1>2, <1>5, <2>1, <2>6, <2>7, <2>8
  <2> QED
    BY <2>9
<1>11. CASE FileSync
  <2> DEFINE p == IF s.app /\ s.tail > 0 THEN Grown(s) ELSE s.pos
  <2>1. /\ ServeStream("FILE_SYNC") /\ Flush
        /\ Return(IF FileOpened THEN 1 ELSE -1)
        /\ stream' = IF FileOpened THEN [stream EXCEPT ![fd].pos = p, ![fd].tail = 0] ELSE stream
    BY <1>11 DEF FileSync, Flushed
  <2>2. FileOpened => p \in Nat
    BY <1>7
  <2> HIDE DEF p
  <2>3. stream' \in [Fds -> Stream \union {Unset}]
    BY <1>4, <1>6, <2>1, <2>2
  <2>4. (IF FileOpened THEN 1 ELSE -1) \in Int
    OBVIOUS
  <2>5. size' \in [Inodes -> Nat]
    BY <1>1, <2>1, FlushIs
  <2>6. Served("FILE_SYNC")
    BY <1>2, <1>5, <2>1, <2>3, <2>4, <2>5
  <2> QED
    BY <2>6
<1>12. CASE FileClose
  <2>1. /\ ServeStream("FILE_CLOSE") /\ Flush
        /\ Return(IF FileOpened THEN 1 ELSE 0)
        /\ stream' = IF FileOpened THEN [stream EXCEPT ![fd] = Unset] ELSE stream
    BY <1>12 DEF FileClose, Erased
  <2>2. stream' \in [Fds -> Stream \union {Unset}]
    BY <1>6, <2>1
  <2>3. (IF FileOpened THEN 1 ELSE 0) \in Int
    OBVIOUS
  <2>4. size' \in [Inodes -> Nat]
    BY <1>1, <2>1, FlushIs
  <2>5. Served("FILE_CLOSE")
    BY <1>2, <1>5, <2>1, <2>2, <2>3, <2>4
  <2> QED
    BY <2>5
<1> QED
  BY <1>8, <1>9, <1>10, <1>11, <1>12

(* The commands that change names. *)
LEMMA NamesServe ==
  ASSUME CallInv, FileCreate \/ FileDelete \/ FileRename \/ FileCreateDir
  PROVE  \E c : Served(c)
<1>1. ServerInv
  BY DEF CallInv
<1>2. ASSUME NEW c, ServeDisk(c), c \notin Opens \union Listings,
             NEW ret \in Int, Return(ret),
             name' \in [Paths -> Inodes \union {Dir, Unset}], size' \in [Inodes -> Nat]
      PROVE  Served(c)
  <2>1. \E r, entry : ReturnEntry(r, entry) /\ Returns(c, r, entry)
    BY <1>2, ReturnsValue DEF Listings
  <2> QED
    BY <1>1, <1>2, <2>1 DEF ServeDisk, Served, ServerInv, serverVars
<1>3. {"FILE_CREATE", "FILE_DELETE", "FILE_RENAME", "FILE_CREATEDIR"}
        \intersect (Opens \union Listings) = {}
  BY DEF Opens, Listings
<1>4. name \in [Paths -> Inodes \union {Dir, Unset}] /\ size \in [Inodes -> Nat]
  BY <1>1 DEF ServerInv
<1>5. ASSUME NEW c \in {"FILE_CREATE", "FILE_DELETE", "FILE_CREATEDIR"}, Receiving(c)
      PROVE  path \in Paths
  <2>1. options["PATH"] \in Legal(c, "PATH")
    BY <1>5, CommandOptions, UsesAre
  <2> QED
    BY <1>5, <2>1, LegalAre DEF path
<1>6. CASE FileCreate
  <2>1. ServeDisk("FILE_CREATE") /\ path \in Paths
    BY <1>5, <1>6 DEF FileCreate, ServeDisk
  <2>2. name[path] = Unset => FreeInode \in Inodes
    <3>1. Unset \notin Inodes
      BY UnsetAssumption DEF Inodes
    <3> QED
      BY <1>1, <2>1, <3>1, FreeInodeIs
  <2>3. name' \in [Paths -> Inodes \union {Dir, Unset}] /\ size' \in [Inodes -> Nat]
    BY <1>4, <1>6, <2>2 DEF FileCreate, diskVars
  <2>4. Return(IF name[path] = Dir THEN 0 ELSE 1) /\ (IF name[path] = Dir THEN 0 ELSE 1) \in Int
    BY <1>6 DEF FileCreate
  <2>5. Served("FILE_CREATE")
    BY <1>2, <1>3, <2>1, <2>3, <2>4
  <2> QED
    BY <2>5
<1>7. CASE FileDelete
  <2>1. ServeDisk("FILE_DELETE")
    BY <1>7 DEF FileDelete
  <2>2. name' \in [Paths -> Inodes \union {Dir, Unset}] /\ size' \in [Inodes -> Nat]
    BY <1>4, <1>7 DEF FileDelete
  <2>3. Return(IF name[path] = Unset THEN 0 ELSE 1) /\ (IF name[path] = Unset THEN 0 ELSE 1) \in Int
    BY <1>7 DEF FileDelete
  <2>4. Served("FILE_DELETE")
    BY <1>2, <1>3, <2>1, <2>2, <2>3
  <2> QED
    BY <2>4
<1>8. CASE FileRename
  <2> DEFINE source == options["RENAME_SOURCE"]
             dest == options["RENAME_DESTINATION"]
  <2>1. ServeDisk("FILE_RENAME")
    BY <1>8 DEF FileRename
  <2>2. source \in Paths /\ dest \in Paths
    BY <2>1, CommandOptions, UsesAre, LegalAre DEF ServeDisk
  <2>3. /\ Return(IF IsRegular(source) THEN 1 ELSE 0) /\ UNCHANGED size
        /\ name' = IF IsRegular(source) /\ name[dest] # Dir /\ source # dest
                   THEN [name EXCEPT ![source] = Unset, ![dest] = name[source]]
                   ELSE name
    BY <1>8 DEF FileRename
  <2> HIDE DEF source, dest
  <2>4. name' \in [Paths -> Inodes \union {Dir, Unset}] /\ size' \in [Inodes -> Nat]
    BY <1>4, <2>2, <2>3
  <2>5. (IF IsRegular(source) THEN 1 ELSE 0) \in Int
    OBVIOUS
  <2>6. Served("FILE_RENAME")
    BY <1>2, <1>3, <2>1, <2>3, <2>4, <2>5
  <2> QED
    BY <2>6
<1>9. CASE FileCreateDir
  <2>1. ServeDisk("FILE_CREATEDIR") /\ path \in Paths
    BY <1>5, <1>9 DEF FileCreateDir, ServeDisk
  <2>2. name' \in [Paths -> Inodes \union {Dir, Unset}] /\ size' \in [Inodes -> Nat]
    BY <1>4, <1>9, <2>1 DEF FileCreateDir
  <2>3. Return(IF IsRegular(path) THEN 0 ELSE 1) /\ (IF IsRegular(path) THEN 0 ELSE 1) \in Int
    BY <1>9 DEF FileCreateDir
  <2>4. Served("FILE_CREATEDIR")
    BY <1>2, <1>3, <2>1, <2>2, <2>3
  <2> QED
    BY <2>4
<1> QED
  BY <1>6, <1>7, <1>8, <1>9

(* The commands that are run on an open directory. *)
LEMMA ListingsServe ==
  ASSUME CallInv, FileOpenDir \/ FileCloseDir \/ FileNextDirPath \/ FileNextDirStat
  PROVE  \E c : Served(c)
<1> DEFINE d == listing[fd]
<1>1. ServerInv /\ (DirOpened => fd \in Fds /\ d \in Listing)
  BY DEF CallInv, ServerInv, DirOpened
<1>2. listing \in [Fds -> Listing \union {Unset}] /\ MaxFd \in Nat /\ nextFd \in Nat
  BY <1>1, RiiFSAssumption DEF ServerInv
<1>3. CASE FileOpenDir
  <2> DEFINE c == "FILE_OPENDIR"
             entries == IF path = Root THEN {p \in Paths : name[p] # Unset} ELSE {}
  <2>1. /\ ServeListing(c) /\ c \in Opens
        /\ \/ Return(-1) /\ UNCHANGED <<listing, nextFd>>
           \/ /\ Return(nextFd)
              /\ \E order \in SetToSeqs(entries) :
                   listing' = [listing EXCEPT ![nextFd] = [entries |-> order, next |-> 1]]
              /\ nextFd' = nextFd + 1
    BY <1>3 DEF FileOpenDir, Opens
  <2>2. nextFd \in Fds
    <3>1. nextFd <= MaxFd
      BY <2>1, CommandOptions DEF ServeListing
    <3> QED
      BY <1>1, <3>1 DEF ServerInv, Fds
  <2>3. \A order \in SetToSeqs(entries) : order \in Seq(Paths)
    <3>1. entries \subseteq Paths /\ IsFiniteSet(entries)
      <4>1. entries \subseteq Paths
        OBVIOUS
      <4> QED
        BY <4>1, RiiFSAssumption, FS_Subset
    <3> HIDE DEF entries
    <3>2. Cardinality(entries) \in Nat
      BY <3>1, FS_CardinalityType
    <3> QED
      BY <3>1, <3>2 DEF SetToSeqs
  <2> HIDE DEF entries
  <2>4. CASE Return(-1) /\ UNCHANGED <<listing, nextFd>>
    <3>1. \E r, entry : ReturnEntry(r, entry) /\ Returns(c, r, entry)
      BY <2>4, ReturnsValue
    <3>2. Served(c)
      BY <1>1, <2>1, <2>4, <3>1 DEF ServeListing, Served, ServerInv, diskVars
    <3> QED
      BY <3>2
  <2>5. ASSUME NEW order \in SetToSeqs(entries), Return(nextFd), nextFd' = nextFd + 1,
               listing' = [listing EXCEPT ![nextFd] = [entries |-> order, next |-> 1]]
        PROVE  Served(c)
    <3>1. \E r, entry : ReturnEntry(r, entry) /\ Returns(c, r, entry)
      BY <1>2, <2>2, <2>5, ReturnsValue
    <3>2. [entries |-> order, next |-> 1] \in Listing
      BY <2>3, <2>5 DEF Listing
    <3>3. listing' \in [Fds -> Listing \union {Unset}]
      BY <1>2, <2>5, <3>2
    <3>4. nextFd' \in 1..(MaxFd + 1)
      BY <1>2, <2>2, <2>5 DEF Fds
    <3> QED
      BY <1>1, <2>1, <3>1, <3>3, <3>4 DEF ServeListing, Served, ServerInv, diskVars
  <2> QED
    BY <2>1, <2>4, <2>5
<1>4. ASSUME NEW c, ServeListing(c), c \notin Opens \union {"FILE_NEXTDIR_PATH"}, nextFd' = nextFd,
             NEW ret \in Int, Return(ret), listing' \in [Fds -> Listing \union {Unset}]
      PROVE  Served(c)
  <2>1. \E r, entry : ReturnEntry(r, entry) /\ Returns(c, r, entry)
    BY <1>4, ReturnsValue
  <2> QED
    BY <1>1, <1>4, <2>1 DEF ServeListing, Served, ServerInv, diskVars
<1>5. CASE FileCloseDir
  <2>1. /\ ServeListing("FILE_CLOSEDIR") /\ nextFd' = nextFd
        /\ Return(IF DirOpened THEN 1 ELSE -1)
        /\ listing' = IF DirOpened THEN [listing EXCEPT ![fd] = Unset] ELSE listing
    BY <1>5 DEF FileCloseDir
  <2>2. listing' \in [Fds -> Listing \union {Unset}]
    BY <1>2, <2>1
  <2>3. (IF DirOpened THEN 1 ELSE -1) \in Int /\ "FILE_CLOSEDIR" \notin Opens
    BY DEF Opens
  <2>4. Served("FILE_CLOSEDIR")
    BY <1>4, <2>1, <2>2, <2>3
  <2> QED
    BY <2>4
<1>6. CASE FileNextDirPath
  <2> DEFINE c == "FILE_NEXTDIR_PATH"
  <2>1. Receiving(c) /\ UNCHANGED <<clientVars, link, silent, serverVars, diskVars>> /\ c \notin Opens
    BY <1>6 DEF FileNextDirPath, Opens
  <2>2. \E r, entry : ReturnEntry(r, entry) /\ Returns(c, r, entry)
    <3>1. CASE /\ DirOpened /\ d.next <= Len(d.entries)
               /\ ReturnEntry(1, d.entries[d.next])
      <4>1. d.next \in Nat \ {0} /\ d.entries \in Seq(Paths) /\ Len(d.entries) \in Nat
        BY <1>1, <3>1 DEF Listing
      <4>2. d.entries[d.next] \in Paths
        BY <3>1, <4>1
      <4> QED
        BY <2>1, <3>1, <4>2 DEF Returns
    <3>2. CASE Return(-1)
      BY <2>1, <3>2, ReturnsValue
    <3> QED
      BY <1>6, <3>1, <3>2 DEF FileNextDirPath
  <2>3. Served(c)
    BY <1>1, <2>1, <2>2 DEF Served, ServerInv, serverVars, diskVars
  <2> QED
    BY <2>3
<1>7. CASE FileNextDirStat
  <2>1. /\ ServeListing("FILE_NEXTDIR_STAT") /\ nextFd' = nextFd
        /\ Return(IF DirOpened THEN 0 ELSE 1)
        /\ listing' = IF DirOpened THEN [listing EXCEPT ![fd] = NextEntry(@)] ELSE listing
    BY <1>7 DEF FileNextDirStat
  <2>2. DirOpened => NextEntry(d) \in Listing
    BY <1>1 DEF NextEntry, Listing
  <2>3. listing' \in [Fds -> Listing \union {Unset}]
    BY <1>2, <2>1, <2>2
  <2>4. (IF DirOpened THEN 0 ELSE 1) \in Int /\ "FILE_NEXTDIR_STAT" \notin Opens
    BY DEF Opens
  <2>5. Served("FILE_NEXTDIR_STAT")
    BY <1>4, <2>1, <2>3, <2>4
  <2> QED
    BY <2>5
<1> QED
  BY <1>3, <1>5, <1>6, <1>7

(* Whatever the command. *)
LEMMA CommandServes ==
  ASSUME CallInv, ServerStep, ~ServerSend, ~ServerClose
  PROVE  \E c : Served(c)
<1>1. CASE Handshake \/ LogText \/ FileTell \/ FileStat
  BY <1>1, AnswersServe
<1>2. CASE FileRead \/ FileWrite \/ FileSeek \/ FileSync \/ FileClose
  BY <1>2, StreamsServe
<1>3. CASE FileCreate \/ FileDelete \/ FileRename \/ FileCreateDir
  BY <1>3, NamesServe
<1>4. CASE FileOpenDir \/ FileCloseDir \/ FileNextDirPath \/ FileNextDirStat
  BY <1>4, ListingsServe
<1> QED
  BY <1>1, <1>2, <1>3, <1>4, GoodbyeServes, FileOpenServes DEF ServerStep

(* A command takes the only request off the queue and answers if it can. *)
LEMMA CommandKeeps ==
  ASSUME CallInv, OptionInv', ReplyInv', NEW c, Served(c)
  PROVE  CallInv'
<1>1. /\ Receiving(c) /\ ServerInv' /\ (c \notin Opens => nextFd' = nextFd)
      /\ UNCHANGED <<clientVars, options>> /\ (link' => link)
  BY DEF Served
<1>2. /\ Queue(toServer) /\ toServer # <<>> /\ toServer' = Tail(toServer)
      /\ Head(toServer) = Receive(c)
  BY <1>1 DEF CallInv, OptionInv, Receiving
<1>3. /\ Requests(toServer') = {}
      /\ link => awaiting = c /\ toClient = <<>>
  BY <1>1, CommandOptions
<1>4. ASSUME NEW e, NEW U, Supplied(e, call.args, toServer, options, U)
      PROVE  Supplied(e, call.args, toServer', options', U)
  <2>1. \A s \in call.args : Agrees(toServer, s.val, options[s.opt], s.opt)
                               => Agrees(toServer', s.val, options'[s.opt], s.opt)
    BY <1>1, <1>2, TailOther DEF Receive
  <2> QED
    BY <1>4, <2>1, SuppliedStep
<1>5. ArgsInv'
  BY <1>1, <1>4 DEF CallInv, ArgsInv, clientVars
<1>6. QueueInv'
  BY <1>3 DEF QueueInv
<1>7. SingleInv'
  BY <1>1 DEF CallInv, SingleInv, clientVars
<1>8. RoomInv'
  <2>1. ASSUME link', NEW i \in Requests(todo'), todo'[i].opt \in Opens PROVE nextFd' <= MaxFd
    <3>1. i \in Requests(todo) /\ todo[i].opt \in Opens /\ link
      BY <1>1, <2>1 DEF clientVars
    <3>2. nextFd <= MaxFd
      BY <3>1 DEF CallInv, RoomInv
    <3>3. c \notin Opens
      BY <1>3, <3>1 DEF CallInv, SingleInv, Single
    <3> QED
      BY <1>1, <3>2, <3>3
  <2> QED
    BY <1>3, <2>1 DEF RoomInv
<1>9. HandleInv'
  BY <1>1 DEF CallInv, HandleInv, Due, Fits, clientVars
<1>10. ReturnsInv'
  <2>1. PICK ret, entry : ReturnEntry(ret, entry) /\ Returns(c, ret, entry)
    BY DEF Served
  <2>2. CASE ~link
    BY <2>1, <2>2 DEF ReturnEntry, CallInv, ReturnsInv
  <2>3. CASE link
    <3> DEFINE r == [command |-> Head(toServer).opt, ret |-> ret, entry |-> entry]
               t == <<r>>
    <3>1. toClient' = <<>> \o t
      BY <1>3, <2>1, <2>3 DEF ReturnEntry, Reply
    <3>2. t \in Seq({r}) /\ DOMAIN t = {1} /\ t[1] = r
      OBVIOUS
    <3>3. r.command = c /\ r.ret = ret /\ r.entry = entry
      BY <1>2 DEF Receive
    <3> HIDE DEF r, t
    <3>4. toClient' = t
      BY <3>1, <3>2, ConcatEmptySeq
    <3> QED
      BY <2>1, <3>2, <3>3, <3>4 DEF ReturnsInv
  <2> QED
    BY <2>2, <2>3
<1> QED
  BY <1>1, <1>5, <1>6, <1>7, <1>8, <1>9, <1>10 DEF CallInv

-----------------------------------------------------------------------------
(* The connection, the start, and what follows.                             *)

(* What the loss of the connection leaves of the calls. *)
LEMMA LostParts ==
  ASSUME CallInv, OptionInv', ReplyInv', ServerInv',
         UNCHANGED <<clientVars, options, nextFd>>, link' = FALSE,
         toServer' \in {toServer, <<>>}, toClient' \in {toClient, <<>>}
  PROVE  CallInv'
<1>1. /\ UNCHANGED <<clientVars, options, nextFd>> /\ link' = FALSE
      /\ toServer' \in {toServer, <<>>} /\ toClient' \in {toClient, <<>>}
  OBVIOUS
<1>2. Requests(<<>>) = {} /\ DOMAIN <<>> = {}
  BY DEF Requests
<1>3. ArgsInv' /\ QueueInv'
  BY <1>1, <1>2 DEF CallInv, ArgsInv, QueueInv, clientVars
<1>4. SingleInv' /\ RoomInv'
  BY <1>1, <1>2 DEF CallInv, SingleInv, RoomInv, clientVars
<1>5. HandleInv'
  BY <1>1 DEF CallInv, HandleInv, Due, Fits, clientVars
<1>6. ReturnsInv'
  BY <1>1, <1>2 DEF CallInv, ReturnsInv
<1> QED
  BY <1>3, <1>4, <1>5, <1>6 DEF CallInv

(* The connection is lost, or the server finds that it is. *)
LEMMA LostKeeps ==
  ASSUME CallInv, OptionInv', ReplyInv', ServerClose \/ Drop
  PROVE  CallInv'
<1>1. CASE Drop
  <2>1. /\ UNCHANGED <<clientVars, toServer, serverVars, diskVars>> /\ link' = FALSE
        /\ silent' \in BOOLEAN /\ toClient' \in {toClient, <<>>}
    BY <1>1 DEF Drop, CallInv, ServerInv
  <2> QED
    BY <2>1, LostParts DEF CallInv, ServerInv, serverVars, diskVars
<1>2. CASE ServerClose
  <2>1. /\ UNCHANGED <<clientVars, options, nextFd>> /\ link' = FALSE
        /\ toServer' = <<>> /\ toClient' = toClient /\ silent' = silent /\ name' = name
    BY <1>2 DEF ServerClose, CallInv, ServerInv
  <2>2. /\ serving' \in BOOLEAN /\ size' \in [Inodes -> Nat]
        /\ stream' \in [Fds -> Stream \union {Unset}]
        /\ listing' \in [Fds -> Listing \union {Unset}]
    <3>1. ServerInv
      BY DEF CallInv
    <3>2. CASE CloseNext
      <4>1. PICK f \in Fds : /\ stream[f] # Unset
                             /\ stream' = [stream EXCEPT ![f] = Unset]
                             /\ size' = [size EXCEPT ![stream[f].node] = Grown(stream[f])]
                             /\ UNCHANGED <<serving, listing>>
        BY <3>2 DEF CloseNext
      <4>2. Grown(stream[f]) \in Nat
        BY <3>1, <4>1, GrownIs
      <4> QED
        BY <3>1, <4>1, <4>2 DEF ServerInv
    <3>3. CASE Deleted
      BY <3>1, <3>3 DEF Deleted, ServerInv
    <3> QED
      BY <1>2, <3>2, <3>3 DEF ServerClose
  <2>3. ServerInv'
    BY <2>1, <2>2 DEF CallInv, ServerInv
  <2> QED
    BY <2>1, <2>3, LostParts DEF ServerInv
<1> QED
  BY <1>1, <1>2

(* A finite set in some order. *)
LEMMA OrderIs ==
  ASSUME NEW S, IsFiniteSet(S)
  PROVE  /\ Cardinality(S) \in Nat
         /\ SetToSeq(S) \in [1..Cardinality(S) -> S]
         /\ \A s \in S : \E i \in 1..Cardinality(S) : SetToSeq(S)[i] = s
<1> DEFINE D == 1..Cardinality(S)
<1>1. Cardinality(S) \in Nat /\ ExistsBijection(D, S)
  BY FS_CardinalityType
<1>2. IsFiniteSet(D) /\ Cardinality(D) = Cardinality(S)
  BY <1>1, FS_Interval
<1>3. PICK f : f \in Bijection(D, S)
  BY <1>1 DEF ExistsBijection
<1>4. f \in [D -> S] /\ IsInjective(f)
  BY <1>3 DEF Bijection, Injection, IsInjective
<1>5. SetToSeq(S) \in [D -> S] /\ IsInjective(SetToSeq(S))
  BY <1>4 DEF SetToSeq
<1> HIDE DEF D
<1>6. SetToSeq(S) \in Surjection(D, S)
  <2>1. SetToSeq(S) \in Injection(D, S)
    BY <1>5 DEF Injection
  <2> QED
    BY <1>2, <2>1, FS_Injection
<1>7. \A s \in S : \E i \in D : SetToSeq(S)[i] = s
  BY <1>6 DEF Surjection
<1> QED
  BY <1>1, <1>5, <1>7 DEF D

(* No call is in progress, and the files at the start have inodes of their own. *)
LEMMA CallInvInit == Init => CallInv
<1> SUFFICES ASSUME Init PROVE CallInv
  OBVIOUS
<1>1. OptionInv /\ ReplyInv
  BY OptionInvInit, ReplyInvInit
<1>2. Requests(<<>>) = {} /\ DOMAIN <<>> = {}
  BY DEF Requests
<1>3. /\ todo = <<>> /\ toServer = <<>> /\ toClient = <<>> /\ call = Idle /\ awaiting = Unset
      /\ mounted = FALSE /\ link = FALSE /\ silent = FALSE /\ serving = FALSE /\ nextFd = 1
      /\ handle = [h \in Handles |-> Unset] /\ logBuffer = Unset
      /\ stream = [f \in Fds |-> Unset] /\ listing = [f \in Fds |-> Unset]
  BY DEF Init
<1>4. ArgsInv /\ QueueInv
  BY <1>2, <1>3 DEF ArgsInv, Arguments, QueueInv, Idle
<1>5. SingleInv /\ RoomInv
  <2>1. Unset \notin Single
    BY RiiFSAssumption DEF Single, Opens, Sessions, Commands
  <2> QED
    BY <1>2, <1>3, <2>1 DEF SingleInv, RoomInv
<1>6. HandleInv
  BY <1>2, <1>3 DEF HandleInv, Due
<1>7. ReturnsInv
  BY <1>2, <1>3 DEF ReturnsInv
<1>8. name \in [Paths -> Inodes \union {Dir, Unset}] /\ size \in [Inodes -> Nat]
  <2> DEFINE P == DOMAIN InitSize
             order == SetToSeq(P)
  <2>1. /\ name = [p \in Paths |-> IF p \in P THEN CHOOSE i \in DOMAIN order : order[i] = p
                                   ELSE Unset]
        /\ size = [i \in Inodes |-> IF i \in DOMAIN order THEN InitSize[order[i]] ELSE 0]
    BY DEF Init
  <2>2. P \subseteq Paths /\ IsFiniteSet(P) /\ Cardinality(P) <= Cardinality(Paths)
        /\ Cardinality(Paths) \in Nat /\ MaxFd \in Nat
    BY RiiFSAssumption, FS_Subset, FS_CardinalityType
  <2>3. /\ Cardinality(P) \in Nat /\ DOMAIN order = 1..Cardinality(P)
        /\ \A i \in DOMAIN order : order[i] \in P
        /\ \A p \in P : \E i \in DOMAIN order : order[i] = p
    BY <2>2, OrderIs
  <2>4. DOMAIN order \subseteq Inodes
    BY <2>2, <2>3 DEF Inodes
  <2>5. \A p \in P : InitSize[p] \in Nat
    BY RiiFSAssumption
  <2> HIDE DEF P, order
  <2>6. \A p \in P : (CHOOSE i \in DOMAIN order : order[i] = p) \in Inodes
    BY <2>3, <2>4
  <2> QED
    BY <2>1, <2>3, <2>5, <2>6
<1>9. ServerInv
  <2>1. 1 \in 1..(MaxFd + 1)
    BY RiiFSAssumption
  <2> QED
    BY <1>3, <1>8, <2>1 DEF ServerInv
<1> QED
  BY <1>1, <1>4, <1>5, <1>6, <1>7, <1>9 DEF CallInv

(* Every step keeps the invariant. *)
LEMMA CallInvNext == FourByte = {} /\ CallInv /\ [Next]_vars => CallInv'
<1> SUFFICES ASSUME FourByte = {}, CallInv, [Next]_vars PROVE CallInv'
  OBVIOUS
<1>1. OptionInv' /\ ReplyInv'
  BY OptionInvNext, ReplyInvNext DEF CallInv
<1>2. CASE Mount
  BY <1>1, <1>2, MountKeeps
<1>3. CASE Call /\ ~Mount
  BY <1>1, <1>3, CallKeeps
<1>4. CASE ClientStep
  BY <1>1, <1>4, ClientSendKeeps, ClientRequestKeeps, ClientReceiveKeeps DEF ClientStep
<1>5. CASE ServerSend
  BY <1>1, <1>5, ServerSendKeeps
<1>6. CASE ServerClose \/ Drop
  BY <1>1, <1>6, LostKeeps
<1>7. CASE ServerStep /\ ~ServerSend /\ ~ServerClose
  BY <1>1, <1>7, CommandServes, CommandKeeps
<1>8. CASE UNCHANGED vars
  BY <1>8, <1>1 DEF vars, clientVars, linkVars, serverVars, diskVars, CallInv, ArgsInv, QueueInv,
       SingleInv, RoomInv, HandleInv, Due, Fits, ServerInv, ReturnsInv
<1> QED
  BY <1>2, <1>3, <1>4, <1>5, <1>6, <1>7, <1>8 DEF Next

(* Both ends stay well formed: what the server keeps of streams, directories,
   descriptors, names and sizes, and what the handler keeps of its files, have
   their shape in every state, however calls and lost connections follow each
   other.  The server checks none of the options it is sent and the handler none
   of the values it gets back, so this rests on each command running on the
   options of its own call. *)
THEOREM CallsTyped == FourByte = {} => (Spec => []TypeOK)
<1> SUFFICES ASSUME FourByte = {} PROVE Spec => []TypeOK
  OBVIOUS
<1>1. CallInv => TypeOK
  BY DEF CallInv, OptionInv, HandleInv, ServerInv, TypeOK
<1>2. CallInv /\ [Next]_vars => CallInv'
  BY CallInvNext
<1> QED
  BY CallInvInit, <1>1, <1>2, PTL DEF Spec

(* RIIFS_LOCAL_OPTIONS is sound as long as only the options of fixed size are
   remembered: whatever the handler skipped, a command runs on the arguments of
   the call it belongs to.  (With options of another size that are 4 bytes long
   it is not: run RiiFS_stale.) *)
THEOREM CommandsRunOnTheirArguments == FourByte = {} => (Spec => []RunsWithCallArguments)
<1> SUFFICES ASSUME FourByte = {} PROVE Spec => []RunsWithCallArguments
  OBVIOUS
<1>1. ASSUME CallInv PROVE RunsWithCallArguments
  <2> SUFFICES ASSUME link, toServer # <<>>, Head(toServer).act = "RECEIVE",
                      NEW s \in call.args, s.opt \in Uses(Head(toServer).opt)
               PROVE  options[s.opt] = s.val
    BY DEF RunsWithCallArguments
  <2> QED
    BY <1>1, HeadOptions
<1>2. CallInv /\ [Next]_vars => CallInv'
  BY CallInvNext
<1> QED
  BY CallInvInit, <1>1, <1>2, PTL DEF Spec
=============================================================================
