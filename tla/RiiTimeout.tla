----------------------------- MODULE RiiTimeout -----------------------------
(***************************************************************************)
(* How a RiiFS server gets rid of consoles that were switched off, and     *)
(* keeps those that are only idle: the client's idle tick and its pings    *)
(* (filemodule/source/file_riifs.cpp, IdleTick), and the server's threads  *)
(* (riifs/server-c/riifs.cpp): main, which accepts connections, a handler  *)
(* for each of them, and TimeoutThread, which after a time without         *)
(* broadcasts closes the connections that were silent for too long.        *)
(*                                                                         *)
(* Time is counted in units, and only what passes since the last event of  *)
(* a kind is kept.  Advance is held back by what happens in bounded time   *)
(* when nobody is switched off: ticks, the delivery of messages, commands. *)
(***************************************************************************)
EXTENDS Integers, Sequences, FiniteSets

CONSTANTS
  Connections,     \* connections, each of a console
  IdleTicks,       \* RII_IDLE_TIME/FSIDLE_TICK: 30
  Timeout,         \* 120 seconds
  Quiet,           \* CheckForBroadcast: 15 seconds
  Period,          \* the longest time between two idle ticks that are handled
  Latency,         \* the longest time until a message is read, or the one after it
  MaxCommand,      \* the longest time until the answer to a command is there
  MaxBroadcasts,   \* a bound on the broadcasts between two sweeps
  MaxLiving,       \* a bound on the consoles that are connected at a time
  Sweeper, Nobody  \* holders of the lock: TimeoutThread, none

(* A command with its answer, IdleTicks + 2 ticks and then the ping. *)
LongestSilence == MaxCommand + (IdleTicks + 2) * Period + Latency

ASSUME TimeoutAssumption ==
  /\ {IdleTicks, Quiet, Period, Latency, MaxCommand, MaxBroadcasts, MaxLiving} \subseteq Nat \ {0}
  /\ Timeout \in Nat /\ LongestSilence <= Timeout
  /\ Sweeper \notin Connections /\ Nobody \notin Connections \union {Sweeper}

VARIABLES
  console,     \* "off", "on", "waiting" for an answer, "leaving": waiting for
               \* that to RII_GOODBYE, or "dead": switched off
  idle,        \* IdleCount
  tick,        \* time since the last tick or the last answer
  inbox,       \* messages that the handler has not read
  unread,      \* how long the first of them could have been read
  handler,     \* where the handler thread is
  connected,   \* Client->Connected
  silence,     \* time since LastPing
  busy,        \* time since the command began
  listed,      \* Connections of the server
  lock,        \* the holder of ConnectionsLock
  unchecked,   \* the connections that TimeoutThread's loop has yet to look at
  quiet,       \* time since the last broadcast
  broadcasts,  \* how many there were since the last sweep
  running      \* the server's process is there

client == <<console, idle, tick>>
network == <<inbox, unread>>
server == <<handler, connected, silence, busy, listed, lock>>
timeout == <<unchecked, quiet, broadcasts, running>>
vars == <<client, network, server, timeout>>

Kinds == {"command", "goodbye", "ping"}
Alive(c) == console[c] \in {"on", "waiting", "leaving"}
Least(a, b) == IF a < b THEN a ELSE b

Init ==
  /\ console = [c \in Connections |-> "off"] /\ idle = [c \in Connections |-> 0]
  /\ tick = [c \in Connections |-> 0]
  /\ inbox = [c \in Connections |-> <<>>] /\ unread = [c \in Connections |-> 0]
  /\ handler = [c \in Connections |-> "gone"] /\ connected = [c \in Connections |-> FALSE]
  /\ silence = [c \in Connections |-> 0] /\ busy = [c \in Connections |-> 0]
  /\ listed = {} /\ lock = Nobody /\ unchecked = {} /\ quiet = 0 /\ broadcasts = 0
  /\ running = TRUE

-----------------------------------------------------------------------------
(* The console. *)

(* Mount: the handshake is sent; main accepts and makes the Connection. *)
Connect(c) ==
  /\ running
  /\ console[c] = "off" /\ handler[c] = "gone"
  /\ Cardinality({d \in Connections : Alive(d)}) < MaxLiving
  /\ console' = [console EXCEPT ![c] = "waiting"]
  /\ inbox' = [inbox EXCEPT ![c] = <<"command">>]
  /\ unread' = [unread EXCEPT ![c] = 0]
  /\ handler' = [handler EXCEPT ![c] = "accepted"]
  /\ connected' = [connected EXCEPT ![c] = TRUE]
  /\ silence' = [silence EXCEPT ![c] = 0]
  /\ UNCHANGED <<idle, tick, busy, listed, lock, timeout>>

Send(c, kind) == inbox' = [inbox EXCEPT ![c] = Append(@, kind)]

(* A file operation, or Unmount: the file module waits for the answer. *)
Request(c) ==
  /\ console[c] = "on"
  /\ \/ Send(c, "command") /\ console' = [console EXCEPT ![c] = "waiting"]
     \/ Send(c, "goodbye") /\ console' = [console EXCEPT ![c] = "leaving"]
  /\ idle' = [idle EXCEPT ![c] = 0] /\ tick' = [tick EXCEPT ![c] = 0]
  /\ UNCHANGED <<unread, server, timeout>>

(* IdleCount++ > RII_IDLE_TIME/FSIDLE_TICK.  A tick that the file module kept
   waiting may come at once, the next one takes FSIDLE_TICK. *)
LaterPingDue(c) == idle[c] > IdleTicks + 1
PingDue(c) == idle[c] > IdleTicks
IdleTick(c) ==
  /\ console[c] = "on" /\ (idle[c] = 0 \/ tick[c] > 0)
  /\ tick' = [tick EXCEPT ![c] = 0]
  /\ IF PingDue(c) THEN Send(c, "ping") /\ idle' = [idle EXCEPT ![c] = 0]
     ELSE idle' = [idle EXCEPT ![c] = @ + 1] /\ UNCHANGED inbox
  /\ UNCHANGED <<console, unread, server, timeout>>

(* The console is switched off, or the game resets it: nobody is told. *)
SwitchOff(c) ==
  /\ Alive(c)
  /\ console' = [console EXCEPT ![c] = "dead"]
  /\ idle' = [idle EXCEPT ![c] = 0] /\ tick' = [tick EXCEPT ![c] = 0]
  /\ unread' = [unread EXCEPT ![c] = 0] /\ busy' = [busy EXCEPT ![c] = 0]
  /\ UNCHANGED <<inbox, handler, connected, silence, listed, lock, timeout>>

-----------------------------------------------------------------------------
(* main and the handlers. *)

(* AcceptClient enters the connection in the list and starts its thread. *)
List(c) ==
  /\ handler[c] = "accepted" /\ lock = Nobody
  /\ listed' = listed \union {c}
  /\ handler' = [handler EXCEPT ![c] = "recv"]
  /\ UNCHANGED <<client, network, connected, silence, busy, lock, timeout>>

(* WaitForAction: every action is a sign of life.  Mutant: only pings are. *)
HeardPing(c, kind) == IF kind = "ping" THEN 0 ELSE silence[c]
Heard(c, kind) == 0

(* What the handler does next: a ping is no more than a word and its data. *)
After(kind) == IF kind = "ping" THEN "recv" ELSE kind

WaitForAction(c) ==
  /\ handler[c] = "recv" /\ connected[c] /\ inbox[c] # <<>>
  /\ silence' = [silence EXCEPT ![c] = Heard(c, Head(inbox[c]))]
  /\ handler' = [handler EXCEPT ![c] = After(Head(inbox[c]))]
  /\ busy' = [busy EXCEPT ![c] = 0]
  /\ inbox' = [inbox EXCEPT ![c] = Tail(@)] /\ unread' = [unread EXCEPT ![c] = 0]
  /\ UNCHANGED <<client, connected, listed, lock, timeout>>

(* Return sends the answer, and Run's loop goes on or ends.  The file module
   goes on as well; after RII_GOODBYE it closes the socket.  A command whose
   connection the sweep has closed sends nothing, if it gets this far (see End). *)
Answered(state) ==
  CASE state = "waiting" -> "on" [] state = "leaving" -> "off" [] OTHER -> state

Return(c) ==
  /\ handler[c] \in {"command", "goodbye"}
  /\ handler' = [handler EXCEPT ![c] =
                   IF connected[c] /\ handler[c] = "command" THEN "recv" ELSE "leaving"]
  /\ busy' = [busy EXCEPT ![c] = 0]
  /\ console' = [console EXCEPT ![c] = IF connected[c] THEN Answered(@) ELSE @]
  /\ idle' = [idle EXCEPT ![c] = 0] /\ tick' = [tick EXCEPT ![c] = 0]
  /\ UNCHANGED <<network, connected, silence, listed, lock, timeout>>

(* Or it does not: Close has deleted the streams of OpenFiles, which the command
   may go on to use, and on Unix a send that shutdown wakes, or that comes after
   it, raises SIGPIPE, which nobody handles.  The process may then end, and all
   connections with it, those of the living consoles too. *)
End(c) ==
  /\ handler[c] \in {"command", "goodbye"} /\ ~connected[c]
  /\ running' = FALSE
  /\ console' = [d \in Connections |-> "off"] /\ idle' = [d \in Connections |-> 0]
  /\ tick' = [d \in Connections |-> 0]
  /\ inbox' = [d \in Connections |-> <<>>] /\ unread' = [d \in Connections |-> 0]
  /\ handler' = [d \in Connections |-> "gone"] /\ connected' = [d \in Connections |-> FALSE]
  /\ silence' = [d \in Connections |-> 0] /\ busy' = [d \in Connections |-> 0]
  /\ listed' = {} /\ lock' = Nobody /\ unchecked' = {} /\ quiet' = 0 /\ broadcasts' = 0

(* Somebody starts the server again. *)
Restart ==
  /\ ~running /\ running' = TRUE
  /\ UNCHANGED <<client, network, server, unchecked, quiet, broadcasts>>

(* recv fails after Close has shut the socket down. *)
Fail(c) ==
  /\ handler[c] = "recv" /\ ~connected[c]
  /\ handler' = [handler EXCEPT ![c] = "leaving"]
  /\ UNCHANGED <<client, network, connected, silence, busy, listed, lock, timeout>>

(* ~Connection.  Mutant: without the lock. *)
Enters(c) == lock # c
MayEnter(c) == lock = Nobody
Destroy(c) ==
  /\ handler[c] = "leaving" /\ MayEnter(c)
  /\ lock' = c
  /\ connected' = [connected EXCEPT ![c] = FALSE]
  /\ handler' = [handler EXCEPT ![c] = "closed"]
  /\ UNCHANGED <<client, network, silence, busy, listed, timeout>>

(* Nothing is left of the connection; the console may be switched on again. *)
Remove(c) ==
  /\ handler[c] = "closed"
  /\ console' = [console EXCEPT ![c] = IF @ = "dead" THEN "off" ELSE @]
  /\ lock' = Nobody
  /\ listed' = listed \ {c}
  /\ handler' = [handler EXCEPT ![c] = "gone"]
  /\ silence' = [silence EXCEPT ![c] = 0]
  /\ inbox' = [inbox EXCEPT ![c] = <<>>] /\ unread' = [unread EXCEPT ![c] = 0]
  /\ UNCHANGED <<idle, tick, connected, busy, timeout>>

-----------------------------------------------------------------------------
(* TimeoutThread. *)

(* A broadcast starts the wait of CheckForBroadcast again. *)
Broadcast ==
  /\ running /\ lock # Sweeper /\ broadcasts < MaxBroadcasts
  /\ broadcasts' = broadcasts + 1 /\ quiet' = 0
  /\ UNCHANGED <<client, network, server, unchecked, running>>

StartSweep ==
  /\ running /\ quiet = Quiet /\ lock = Nobody
  /\ lock' = Sweeper /\ unchecked' = listed
  /\ UNCHANGED <<client, network, handler, connected, silence, busy, listed, quiet, broadcasts, running>>

(* Mutant: only a connection that waits for an action can be closed. *)
TimedOutInRecv(c) == handler[c] = "recv" /\ silence[c] > Timeout
TimedOut(c) == silence[c] > Timeout

Check(c) ==
  /\ lock = Sweeper /\ c \in unchecked
  /\ unchecked' = unchecked \ {c}
  /\ connected' = [connected EXCEPT ![c] = @ /\ ~TimedOut(c)]
  /\ UNCHANGED <<client, network, handler, silence, busy, listed, lock, quiet, broadcasts, running>>

EndSweep ==
  /\ lock = Sweeper /\ unchecked = {}
  /\ lock' = Nobody /\ quiet' = 0 /\ broadcasts' = 0
  /\ UNCHANGED <<client, network, handler, connected, silence, busy, listed, unchecked, running>>

-----------------------------------------------------------------------------
(* Time. *)

(* What a living console and its handler do in time. *)
InTime(c) ==
  Alive(c) =>
    /\ console[c] = "on" => tick[c] < Period
    /\ inbox[c] # <<>> => unread[c] < Latency
    /\ handler[c] \in {"command", "goodbye"} => busy[c] < MaxCommand

Older(age, limit) == Least(age + 1, limit)

Advance ==
  /\ running /\ \A c \in Connections : InTime(c)
  /\ tick' = [c \in Connections |-> IF console[c] = "on" THEN tick[c] + 1 ELSE 0]
  /\ unread' = [c \in Connections |->
                  IF Alive(c) /\ inbox[c] # <<>> THEN unread[c] + 1 ELSE 0]
  /\ silence' = [c \in Connections |->
                   IF connected[c] THEN Older(silence[c], Timeout + 1) ELSE 0]
  /\ busy' = [c \in Connections |->
                IF Alive(c) /\ handler[c] \in {"command", "goodbye"} THEN busy[c] + 1 ELSE 0]
  /\ quiet' = Older(quiet, Quiet)
  /\ UNCHANGED <<console, idle, inbox, handler, connected, listed, lock, unchecked, broadcasts,
                 running>>

Next ==
  \/ \E c \in Connections :
       \/ Connect(c) \/ Request(c) \/ IdleTick(c) \/ SwitchOff(c)
       \/ List(c) \/ WaitForAction(c) \/ Return(c) \/ End(c) \/ Fail(c) \/ Destroy(c)
       \/ Remove(c) \/ Check(c)
  \/ Restart \/ Broadcast \/ StartSweep \/ EndSweep
  \/ Advance

(* The threads of the server run, time passes, and a living console does what
   it does in time.  A command of a dead one may be stuck in send: it only ends
   when the socket has been shut down. *)
HandlerStep(c) ==
  WaitForAction(c) \/ (Return(c) /\ (Alive(c) \/ ~connected[c])) \/ Fail(c) \/ Remove(c)
SweepStep == EndSweep \/ \E c \in Connections : Check(c)

Fairness ==
  /\ WF_vars(Advance) /\ SF_vars(StartSweep) /\ WF_vars(SweepStep)
  /\ \A c \in Connections :
       WF_vars(IdleTick(c)) /\ WF_vars(HandlerStep(c)) /\ SF_vars(List(c) \/ Destroy(c))

Spec == Init /\ [][Next]_vars
FairSpec == Spec /\ Fairness

-----------------------------------------------------------------------------
TypeOK ==
  /\ console \in [Connections -> {"off", "on", "waiting", "leaving", "dead"}]
  /\ idle \in [Connections -> 0..(IdleTicks + 1)]
  /\ tick \in [Connections -> 0..Period]
  /\ inbox \in [Connections -> Seq(Kinds)]
  /\ unread \in [Connections -> 0..Latency]
  /\ handler \in [Connections ->
       {"gone", "accepted", "recv", "command", "goodbye", "leaving", "closed"}]
  /\ connected \in [Connections -> BOOLEAN]
  /\ silence \in [Connections -> 0..(Timeout + 1)]
  /\ busy \in [Connections -> 0..MaxCommand]
  /\ listed \subseteq Connections /\ unchecked \subseteq Connections
  /\ lock \in Connections \union {Sweeper, Nobody}
  /\ quiet \in 0..Quiet /\ broadcasts \in 0..MaxBroadcasts /\ running \in BOOLEAN

(* TimeoutThread closes no connection whose console is there, whether it is
   idle, between two commands or waiting for a long one: its pings and
   commands come soon enough, if its file module handles the idle ticks in
   time.  So a handler never loses the streams of OpenFiles in the middle of a
   command whose answer somebody waits for, and only the handler of a dead
   console can end the server. *)
LivingStayConnected ==
  \A c \in Connections : Alive(c) => connected[c]

(* TimeoutThread goes through the list while handlers delete their connections:
   what it has yet to look at has not been deleted. *)
NoUseAfterDelete == \A c \in unchecked : handler[c] # "gone"

(* A console that is switched off, at whatever point of a command, does not
   leave its handler and its open files on the server for ever: the sweep also
   reaches a handler that is stuck in send.  (Not that the server outlives that:
   End is one of the ways in which the handler goes.) *)
DeadAreRemoved == \A c \in Connections : console[c] = "dead" ~> handler[c] = "gone"
=============================================================================
