------------------------- MODULE RiiTimeout_proofs --------------------------
(***************************************************************************)
(* Proofs about RiiTimeout, for every number of consoles and all periods   *)
(* and limits that TimeoutAssumption admits: the types, the lock over the  *)
(* list of connections, and that the pings of a console that is switched   *)
(* on arrive before the server's limit.                                    *)
(*                                                                         *)
(* StayConnected is about time, and the argument is about one connection   *)
(* at a time: the silence of a living console is bounded by what it does.  *)
(* In a command it is no longer than the command has lasted; between       *)
(* commands it is the longest command and a period for each idle tick; with*)
(* a message on the way the time that message has been unread is added to  *)
(* the most that can lie between two messages.  TimeoutAssumption says that*)
(* the sum stays below the limit.                                          *)
(***************************************************************************)
EXTENDS RiiTimeout, TLAPS

(* The handler runs a command, and the command that a console waits for. *)
Busy == {"command", "goodbye"}
Asked(c) == IF console[c] = "leaving" THEN "goodbye" ELSE "command"

(* Who holds the lock: the handler that is closing its connection, or the
   sweeper while connections are left to check; those are in the list. *)
LockInv ==
  /\ \A c \in Connections : handler[c] = "closed" <=> lock = c
  /\ unchecked # {} => lock = Sweeper
  /\ unchecked \subseteq listed
  /\ \A c \in Connections : c \in listed <=> handler[c] \notin {"gone", "accepted"}

(* What is on the way to the server: pings, and last of all the command that
   the console waits for, unless the handler runs it already. *)
InboxInv(c) ==
  /\ console[c] = "on" =>
       handler[c] = "recv" /\ \A k \in 1..Len(inbox[c]) : inbox[c][k] = "ping"
  /\ console[c] \in {"waiting", "leaving"} /\ handler[c] \notin Busy =>
       /\ Len(inbox[c]) > 0 /\ inbox[c][Len(inbox[c])] = Asked(c)
       /\ \A k \in 1..(Len(inbox[c]) - 1) : inbox[c][k] = "ping"
  /\ Alive(c) /\ handler[c] \in Busy => inbox[c] = <<>> /\ handler[c] = Asked(c)

(* How long a living console can have been silent. *)
TimeInv(c) ==
  /\ inbox[c] = <<>> => unread[c] = 0
  /\ handler[c] \in Busy => silence[c] <= busy[c]
  /\ console[c] = "on" /\ inbox[c] = <<>> => silence[c] <= MaxCommand + idle[c] * Period + tick[c]
  /\ inbox[c] # <<>> => silence[c] <= MaxCommand + (IdleTicks + 2) * Period + unread[c]

(* A living console is connected and has been heard in time. *)
ConnectionInv(c) ==
  /\ InboxInv(c)
  /\ Alive(c) => /\ connected[c] /\ handler[c] \in {"accepted", "recv"} \union Busy
                 /\ TimeInv(c)

(* The inductive invariant. *)
TimeoutInv == TypeOK /\ LockInv /\ \A c \in Connections : ConnectionInv(c)
-----------------------------------------------------------------------------
USE DEF Alive

(* The constants are numbers, and the ones that divide are positive. *)
LEMMA Numbers ==
  /\ IdleTicks \in Nat /\ Quiet \in Nat /\ Period \in Nat /\ Latency \in Nat
  /\ MaxCommand \in Nat /\ MaxBroadcasts \in Nat /\ Timeout \in Nat
  /\ IdleTicks > 0 /\ Quiet > 0 /\ Period > 0 /\ Latency > 0 /\ MaxCommand > 0
BY TimeoutAssumption

(* Sending and taking a message leave a queue of messages. *)
LEMMA Queues ==
  ASSUME NEW q \in Seq(Kinds)
  PROVE  /\ \A m \in Kinds : Append(q, m) \in Seq(Kinds)
         /\ q # <<>> => Head(q) \in Kinds /\ Tail(q) \in Seq(Kinds)
<1> HIDE DEF Kinds
<1> QED OBVIOUS

(* The members of the intervals of TypeOK. *)
LEMMA Values ==
  ASSUME TypeOK, NEW c \in Connections
  PROVE  /\ idle[c] \in Nat /\ idle[c] <= IdleTicks + 1
         /\ tick[c] \in Nat /\ tick[c] <= Period
         /\ unread[c] \in Nat /\ unread[c] <= Latency
         /\ silence[c] \in Nat /\ silence[c] <= Timeout + 1
         /\ busy[c] \in Nat /\ busy[c] <= MaxCommand
         /\ inbox[c] \in Seq(Kinds)
<1> HIDE DEF Kinds
<1>1. idle[c] \in 0..(IdleTicks + 1) /\ tick[c] \in 0..Period
  BY DEF TypeOK
<1>2. unread[c] \in 0..Latency /\ silence[c] \in 0..(Timeout + 1) /\ busy[c] \in 0..MaxCommand
  BY DEF TypeOK
<1>3. inbox[c] \in Seq(Kinds)
  BY DEF TypeOK
<1> QED BY <1>1, <1>2, <1>3, Numbers

(* An age below its limit may grow. *)
LEMMA Grows == ASSUME NEW n \in Nat, NEW a \in Nat, a < n PROVE a + 1 \in 0..n
OBVIOUS

(* The server starts, and no console is connected. *)
LEMMA TypeInit == Init => TypeOK
BY Numbers DEF Init, TypeOK

(* Time passes, and every clock stays below the limit that InTime sets. *)
LEMMA AdvanceType == TypeOK /\ Advance => TypeOK'
<1> SUFFICES ASSUME TypeOK, Advance PROVE TypeOK'
  OBVIOUS
<1>1. ASSUME NEW c \in Connections
      PROVE  /\ console[c] = "on" => tick[c] + 1 \in 0..Period
             /\ Alive(c) /\ inbox[c] # <<>> => unread[c] + 1 \in 0..Latency
             /\ Alive(c) /\ handler[c] \in {"command", "goodbye"} => busy[c] + 1 \in 0..MaxCommand
  <2>1. InTime(c)
    BY DEF Advance
  <2> QED BY <2>1, Values, Grows, Numbers DEF InTime
<1>2. \A n \in Nat, a \in Nat : Older(a, n) \in 0..n
  BY DEF Older, Least
<1>3. ASSUME NEW c \in Connections PROVE Older(silence[c], Timeout + 1) \in 0..(Timeout + 1)
  <2>1. silence[c] \in Nat /\ Timeout + 1 \in Nat
    BY Values, Numbers
  <2> QED BY <1>2, <2>1
<1>4. 0 \in 0..Period /\ 0 \in 0..Latency /\ 0 \in 0..MaxCommand /\ 0 \in 0..(Timeout + 1)
  BY Numbers
<1>5. tick' \in [Connections -> 0..Period]
  BY <1>1, <1>4 DEF Advance
<1>6. unread' \in [Connections -> 0..Latency]
  BY <1>1, <1>4 DEF Advance
<1>7. silence' \in [Connections -> 0..(Timeout + 1)]
  BY <1>3, <1>4 DEF Advance
<1>8. busy' \in [Connections -> 0..MaxCommand]
  <2>1. busy' = [c \in Connections |->
                  IF Alive(c) /\ handler[c] \in {"command", "goodbye"} THEN busy[c] + 1 ELSE 0]
    BY DEF Advance
  <2>2. \A c \in Connections :
          (IF Alive(c) /\ handler[c] \in {"command", "goodbye"} THEN busy[c] + 1 ELSE 0)
            \in 0..MaxCommand
    BY <1>1, <1>4
  <2> HIDE DEF Alive
  <2> QED BY <2>1, <2>2
<1>9. quiet' \in 0..Quiet
  <2>1. quiet \in Nat
    BY Numbers DEF TypeOK
  <2> QED BY <1>2, <2>1, Numbers DEF Advance
<1>10. UNCHANGED <<console, idle, inbox, handler, connected, listed, lock, unchecked, broadcasts, running>>
  BY DEF Advance
<1> HIDE DEF Kinds
<1> QED BY <1>5, <1>6, <1>7, <1>8, <1>9, <1>10 DEF TypeOK

(* Every step keeps the types. *)
LEMMA TypeNext == TypeOK /\ [Next]_vars => TypeOK'
<1> SUFFICES ASSUME TypeOK, [Next]_vars PROVE TypeOK'
  OBVIOUS
<1> USE Numbers DEF TypeOK, client, network, server, timeout
<1> HIDE DEF Kinds
<1>1. ASSUME NEW c \in Connections, Connect(c) PROVE TypeOK'
  <2>1. <<"command">> \in Seq(Kinds)
    BY DEF Kinds
  <2>2. inbox' \in [Connections -> Seq(Kinds)]
    BY <1>1, <2>1 DEF Connect
  <2>3. /\ console' \in [Connections -> {"off", "on", "waiting", "leaving", "dead"}]
        /\ handler' \in [Connections ->
             {"gone", "accepted", "recv", "command", "goodbye", "leaving", "closed"}]
    BY <1>1 DEF Connect
  <2>4. /\ unread' \in [Connections -> 0..Latency] /\ silence' \in [Connections -> 0..(Timeout + 1)]
        /\ connected' \in [Connections -> BOOLEAN]
    BY <1>1 DEF Connect
  <2>5. UNCHANGED <<idle, tick, busy, listed, lock, unchecked, quiet, broadcasts, running>>
    BY <1>1 DEF Connect
  <2> QED BY <2>2, <2>3, <2>4, <2>5
<1>2. ASSUME NEW c \in Connections, Request(c) PROVE TypeOK'
  <2>1. /\ Append(inbox[c], "command") \in Seq(Kinds)
        /\ Append(inbox[c], "goodbye") \in Seq(Kinds)
    BY Queues DEF Kinds
  <2>2. inbox' \in [Connections -> Seq(Kinds)]
    BY <1>2, <2>1 DEF Request, Send
  <2>3. idle' \in [Connections -> 0..(IdleTicks + 1)] /\ tick' \in [Connections -> 0..Period]
    BY <1>2 DEF Request
  <2>4. console' \in [Connections -> {"off", "on", "waiting", "leaving", "dead"}]
    BY <1>2 DEF Request
  <2>5. UNCHANGED <<unread, handler, connected, silence, busy, listed, lock,
                    unchecked, quiet, broadcasts, running>>
    BY <1>2 DEF Request
  <2> QED BY <2>2, <2>3, <2>4, <2>5
<1>3. ASSUME NEW c \in Connections, IdleTick(c) PROVE TypeOK'
  <2>1. Append(inbox[c], "ping") \in Seq(Kinds)
    BY Queues DEF Kinds
  <2>2. inbox' \in [Connections -> Seq(Kinds)]
    BY <1>3, <2>1 DEF IdleTick, Send
  <2>3. idle' \in [Connections -> 0..(IdleTicks + 1)]
    <3>1. ~PingDue(c) => idle[c] + 1 \in 0..(IdleTicks + 1)
      <4>1. idle[c] \in Nat
        BY Values
      <4> HIDE DEF TypeOK
      <4> QED BY <4>1, Grows DEF PingDue
    <3>2. CASE PingDue(c)
      <4>1. idle' = [idle EXCEPT ![c] = 0]
        BY <1>3, <3>2 DEF IdleTick
      <4> QED BY <4>1
    <3>3. CASE ~PingDue(c)
      <4>1. idle' = [idle EXCEPT ![c] = idle[c] + 1]
        BY <1>3, <3>3 DEF IdleTick
      <4> QED BY <3>1, <3>3, <4>1
    <3> QED BY <3>2, <3>3
  <2>4. tick' \in [Connections -> 0..Period]
    BY <1>3 DEF IdleTick
  <2>5. UNCHANGED <<console, unread, handler, connected, silence, busy, listed, lock,
                    unchecked, quiet, broadcasts, running>>
    BY <1>3 DEF IdleTick
  <2> QED BY <2>2, <2>3, <2>4, <2>5
<1>4. ASSUME NEW c \in Connections, SwitchOff(c) PROVE TypeOK'
  <2>1. console' \in [Connections -> {"off", "on", "waiting", "leaving", "dead"}]
    BY <1>4 DEF SwitchOff
  <2>2. idle' \in [Connections -> 0..(IdleTicks + 1)] /\ tick' \in [Connections -> 0..Period]
    BY <1>4 DEF SwitchOff
  <2>3. unread' \in [Connections -> 0..Latency] /\ busy' \in [Connections -> 0..MaxCommand]
    BY <1>4 DEF SwitchOff
  <2>4. UNCHANGED <<inbox, handler, connected, silence, listed, lock, unchecked, quiet, broadcasts, running>>
    BY <1>4 DEF SwitchOff
  <2> QED BY <2>1, <2>2, <2>3, <2>4
<1>5. ASSUME NEW c \in Connections, List(c) PROVE TypeOK'
  BY <1>5 DEF List
<1>6. ASSUME NEW c \in Connections, WaitForAction(c) PROVE TypeOK'
  <2>1. Head(inbox[c]) \in Kinds /\ Tail(inbox[c]) \in Seq(Kinds)
    BY <1>6, Queues DEF WaitForAction
  <2>2. After(Head(inbox[c])) \in {"recv", "command", "goodbye"}
    BY <2>1 DEF After, Kinds
  <2>3. /\ inbox' \in [Connections -> Seq(Kinds)] /\ unread' \in [Connections -> 0..Latency]
        /\ silence' \in [Connections -> 0..(Timeout + 1)] /\ busy' \in [Connections -> 0..MaxCommand]
    BY <1>6, <2>1 DEF WaitForAction, Heard
  <2>4. handler' \in [Connections ->
          {"gone", "accepted", "recv", "command", "goodbye", "leaving", "closed"}]
    BY <1>6, <2>2 DEF WaitForAction
  <2>5. UNCHANGED <<console, idle, tick, connected, listed, lock, unchecked, quiet, broadcasts, running>>
    BY <1>6 DEF WaitForAction
  <2> QED BY <2>3, <2>4, <2>5
<1>7. ASSUME NEW c \in Connections, Return(c) PROVE TypeOK'
  <2>1. console' \in [Connections -> {"off", "on", "waiting", "leaving", "dead"}]
    <3>1. \A s \in {"off", "on", "waiting", "leaving", "dead"} :
            Answered(s) \in {"off", "on", "waiting", "leaving", "dead"}
      BY DEF Answered
    <3> QED BY <1>7, <3>1 DEF Return
  <2>2. handler' \in [Connections ->
          {"gone", "accepted", "recv", "command", "goodbye", "leaving", "closed"}]
    BY <1>7 DEF Return
  <2>3. /\ busy' \in [Connections -> 0..MaxCommand]
        /\ idle' \in [Connections -> 0..(IdleTicks + 1)] /\ tick' \in [Connections -> 0..Period]
    BY <1>7 DEF Return
  <2>4. UNCHANGED <<inbox, unread, connected, silence, listed, lock, unchecked, quiet, broadcasts, running>>
    BY <1>7 DEF Return
  <2> QED BY <2>1, <2>2, <2>3, <2>4
<1>8. ASSUME NEW c \in Connections, Fail(c) PROVE TypeOK'
  BY <1>8 DEF Fail
<1>9. ASSUME NEW c \in Connections, Destroy(c) PROVE TypeOK'
  BY <1>9 DEF Destroy, MayEnter
<1>10. ASSUME NEW c \in Connections, Remove(c) PROVE TypeOK'
  <2>1. <<>> \in Seq(Kinds)
    OBVIOUS
  <2>2. /\ inbox' \in [Connections -> Seq(Kinds)] /\ unread' \in [Connections -> 0..Latency]
        /\ silence' \in [Connections -> 0..(Timeout + 1)]
    BY <1>10, <2>1 DEF Remove
  <2>3. /\ console' \in [Connections -> {"off", "on", "waiting", "leaving", "dead"}]
        /\ handler' \in [Connections ->
             {"gone", "accepted", "recv", "command", "goodbye", "leaving", "closed"}]
    BY <1>10 DEF Remove
  <2>4. listed' \subseteq Connections /\ lock' = Nobody
        /\ UNCHANGED <<idle, tick, connected, busy, unchecked, quiet, broadcasts, running>>
    BY <1>10 DEF Remove
  <2> QED BY <2>2, <2>3, <2>4
<1>11. ASSUME NEW c \in Connections, Check(c) PROVE TypeOK'
  BY <1>11 DEF Check, TimedOut
<1>12. ASSUME Broadcast PROVE TypeOK'
  BY <1>12 DEF Broadcast
<1>13. ASSUME StartSweep PROVE TypeOK'
  BY <1>13 DEF StartSweep
<1>14. ASSUME EndSweep PROVE TypeOK'
  BY <1>14 DEF EndSweep
<1>15. ASSUME Advance PROVE TypeOK'
  BY <1>15, AdvanceType
<1>16. CASE UNCHANGED vars
  BY <1>16 DEF vars
<1>17. ASSUME NEW c \in Connections, End(c) PROVE TypeOK'
  <2>1. /\ console' \in [Connections -> {"off", "on", "waiting", "leaving", "dead"}]
        /\ handler' \in [Connections ->
             {"gone", "accepted", "recv", "command", "goodbye", "leaving", "closed"}]
        /\ inbox' \in [Connections -> Seq(Kinds)] /\ connected' \in [Connections -> BOOLEAN]
    BY <1>17 DEF End
  <2>2. /\ idle' \in [Connections -> 0..(IdleTicks + 1)] /\ tick' \in [Connections -> 0..Period]
        /\ unread' \in [Connections -> 0..Latency] /\ busy' \in [Connections -> 0..MaxCommand]
        /\ silence' \in [Connections -> 0..(Timeout + 1)]
    BY <1>17 DEF End
  <2>3. listed' = {} /\ unchecked' = {} /\ lock' = Nobody /\ quiet' = 0 /\ broadcasts' = 0
    BY <1>17 DEF End
  <2>4. running' \in BOOLEAN
    BY <1>17, Zenon DEF End
  <2>5. /\ listed' \subseteq Connections /\ unchecked' \subseteq Connections
        /\ lock' \in Connections \union {Sweeper, Nobody}
    BY <2>3
  <2>6. quiet' \in 0..Quiet /\ broadcasts' \in 0..MaxBroadcasts
    <3> HIDE DEF TypeOK
    <3> QED BY <2>3
  <2> HIDE DEF End
  <2> QED BY <2>1, <2>2, <2>4, <2>5, <2>6
<1>18. ASSUME Restart PROVE TypeOK'
  BY <1>18 DEF Restart
<1> QED
  BY <1>1, <1>2, <1>3, <1>4, <1>5, <1>6, <1>7, <1>8, <1>9, <1>10, <1>11, <1>12, <1>13, <1>14, <1>15, <1>16,
     <1>17, <1>18 DEF Next

(* Every variable keeps its type: each age stays within the limit that the
   timers, the network and the commands keep. *)
THEOREM TypeCorrect == Spec => []TypeOK
<1> HIDE DEF Alive
<1> QED BY TypeInit, TypeNext, PTL DEF Spec

-----------------------------------------------------------------------------
(* The lock: every step keeps what its holder may rely on. *)

LEMMA LockNext ==
  ASSUME TypeOK, LockInv, [Next]_vars
  PROVE  LockInv'
<1> USE TimeoutAssumption DEF LockInv, client, network, server, timeout
<1>1. ASSUME NEW c \in Connections, Connect(c) PROVE LockInv'
  BY <1>1 DEF Connect, TypeOK
<1>2. ASSUME NEW c \in Connections, Request(c) PROVE LockInv'
  BY <1>2 DEF Request
<1>3. ASSUME NEW c \in Connections, IdleTick(c) PROVE LockInv'
  BY <1>3 DEF IdleTick
<1>4. ASSUME NEW c \in Connections, SwitchOff(c) PROVE LockInv'
  BY <1>4 DEF SwitchOff
<1>5. ASSUME NEW c \in Connections, List(c) PROVE LockInv'
  BY <1>5 DEF List, TypeOK
<1>6. ASSUME NEW c \in Connections, WaitForAction(c) PROVE LockInv'
  <2>1. Head(inbox[c]) \in Kinds
    BY <1>6, Values, Queues DEF WaitForAction
  <2>2. After(Head(inbox[c])) \in {"recv", "command", "goodbye"}
    BY <2>1 DEF After, Kinds
  <2> QED BY <1>6, <2>2 DEF WaitForAction, TypeOK
<1>7. ASSUME NEW c \in Connections, Return(c) PROVE LockInv'
  BY <1>7 DEF Return, TypeOK
<1>8. ASSUME NEW c \in Connections, Fail(c) PROVE LockInv'
  BY <1>8 DEF Fail, TypeOK
<1>9. ASSUME NEW c \in Connections, Destroy(c) PROVE LockInv'
  BY <1>9 DEF Destroy, MayEnter, TypeOK
<1>10. ASSUME NEW c \in Connections, Remove(c) PROVE LockInv'
  BY <1>10 DEF Remove, TypeOK
<1>11. ASSUME NEW c \in Connections, Check(c) PROVE LockInv'
  BY <1>11 DEF Check
<1>12. ASSUME Broadcast PROVE LockInv'
  BY <1>12 DEF Broadcast
<1>13. ASSUME StartSweep PROVE LockInv'
  BY <1>13 DEF StartSweep
<1>14. ASSUME EndSweep PROVE LockInv'
  BY <1>14 DEF EndSweep
<1>15. ASSUME Advance PROVE LockInv'
  BY <1>15 DEF Advance
<1>16. CASE UNCHANGED vars
  BY <1>16 DEF vars
<1>17. ASSUME NEW c \in Connections, End(c) PROVE LockInv'
  BY <1>17 DEF End
<1>18. ASSUME Restart PROVE LockInv'
  BY <1>18 DEF Restart
<1> QED
  BY <1>1, <1>2, <1>3, <1>4, <1>5, <1>6, <1>7, <1>8, <1>9, <1>10, <1>11, <1>12, <1>13, <1>14, <1>15, <1>16,
     <1>17, <1>18 DEF Next

(* At first nobody holds it. *)
LEMMA LockInit == Init => LockInv
BY TimeoutAssumption DEF Init, LockInv

(* The list that TimeoutThread goes through loses nothing while it does. *)
THEOREM NoUse == Spec => []NoUseAfterDelete
<1>1. Init => TypeOK /\ LockInv
  BY TypeInit, LockInit
<1>2. TypeOK /\ LockInv /\ [Next]_vars => TypeOK' /\ LockInv'
  BY TypeNext, LockNext
<1>3. TypeOK /\ LockInv => NoUseAfterDelete
  BY DEF LockInv, TypeOK, NoUseAfterDelete
<1> QED BY <1>1, <1>2, <1>3, PTL DEF Spec

-----------------------------------------------------------------------------
(* The connection of a living console. *)

(* (IdleTicks + 2) ticks at most lie between two messages. *)
LEMMA Ticks ==
  ASSUME NEW i \in Nat, i <= IdleTicks + 1
  PROVE  /\ i * Period \in Nat
         /\ (i + 1) * Period = i * Period + Period
         /\ i * Period + Period <= (IdleTicks + 2) * Period
         /\ (IdleTicks + 2) * Period \in Nat
         /\ 0 * Period = 0
<1>1. \A a, b, p \in Nat : a <= b => a * p <= b * p
  OBVIOUS
<1>2. i * Period \in Nat /\ (IdleTicks + 2) * Period \in Nat
  BY Numbers
<1>3. (i + 1) * Period = i * Period + Period
  BY Numbers
<1>4. (i + 1) * Period <= (IdleTicks + 2) * Period
  BY <1>1, Numbers
<1> QED BY <1>2, <1>3, <1>4, Numbers

(* A living console has not been silent for longer than the limit. *)
LEMMA NotTimedOut ==
  ASSUME TypeOK, NEW c \in Connections, ConnectionInv(c), Alive(c)
  PROVE  ~TimedOut(c)
<1>1. (IdleTicks + 2) * Period \in Nat /\ idle[c] * Period \in Nat
      /\ idle[c] * Period + Period <= (IdleTicks + 2) * Period
  BY Values, Ticks
<1>2. MaxCommand + (IdleTicks + 2) * Period + Latency <= Timeout
  BY TimeoutAssumption DEF LongestSilence
<1>3. CASE inbox[c] # <<>>
  BY <1>1, <1>2, <1>3, Values, Numbers DEF ConnectionInv, TimeInv, TimedOut
<1>4. CASE inbox[c] = <<>> /\ console[c] = "on"
  <2> DEFINE A == idle[c] * Period
             W == (IdleTicks + 2) * Period
  <2>1. silence[c] <= MaxCommand + A + tick[c]
    BY <1>4 DEF ConnectionInv, TimeInv
  <2>2. A \in Nat /\ W \in Nat /\ A + Period <= W /\ MaxCommand + W + Latency <= Timeout
    BY <1>1, <1>2
  <2> HIDE DEF A, W
  <2> QED BY <2>1, <2>2, Values, Numbers DEF TimedOut
<1>5. CASE inbox[c] = <<>> /\ console[c] # "on"
  <2>1. handler[c] \in Busy
    BY <1>5 DEF ConnectionInv, InboxInv
  <2> QED BY <1>1, <1>2, <2>1, Values, Numbers DEF ConnectionInv, TimeInv, TimedOut
<1> QED BY <1>3, <1>4, <1>5

(* A step of another connection, or of none. *)
LEMMA Same ==
  ASSUME NEW d \in Connections, ConnectionInv(d),
         console'[d] = console[d], idle'[d] = idle[d], tick'[d] = tick[d],
         inbox'[d] = inbox[d], unread'[d] = unread[d], handler'[d] = handler[d],
         connected'[d] = connected[d], silence'[d] = silence[d], busy'[d] = busy[d]
  PROVE  ConnectionInv(d)'
BY DEF ConnectionInv, InboxInv, TimeInv, Asked, Busy

(* Nothing is said of a connection without a living console. *)
LEMMA NobodyThere ==
  ASSUME NEW c \in Connections, ~Alive(c)'
  PROVE  ConnectionInv(c)'
BY DEF ConnectionInv, InboxInv

(* The messages of a queue that one more was added to. *)
LEMMA Appended ==
  ASSUME NEW q \in Seq(Kinds), NEW m \in Kinds, \A k \in 1..Len(q) : q[k] = "ping"
  PROVE  /\ Append(q, m) # <<>> /\ Len(Append(q, m)) = Len(q) + 1
         /\ Append(q, m)[Len(q) + 1] = m
         /\ \A k \in 1..Len(q) : Append(q, m)[k] = "ping"
<1> HIDE DEF Kinds
<1>1. Append(q, m) # <<>> /\ Len(Append(q, m)) = Len(q) + 1
  OBVIOUS
<1>2. Append(q, m)[Len(q) + 1] = m
  OBVIOUS
<1>3. \A k \in 1..Len(q) : Append(q, m)[k] = q[k]
  OBVIOUS
<1> QED BY <1>1, <1>2, <1>3

(* The messages of a queue without the first. *)
LEMMA Taken ==
  ASSUME NEW q \in Seq(Kinds), q # <<>>
  PROVE  /\ Head(q) = q[1] /\ Len(Tail(q)) = Len(q) - 1
         /\ \A k \in 1..Len(Tail(q)) : Tail(q)[k] = q[k + 1]
         /\ Len(q) = 1 => Tail(q) = <<>>
<1> HIDE DEF Kinds
<1>1. /\ Head(q) = q[1] /\ Len(Tail(q)) = Len(q) - 1
      /\ \A k \in 1..Len(Tail(q)) : Tail(q)[k] = q[k + 1]
  OBVIOUS
<1>2. Tail(q) \in Seq(Kinds)
  OBVIOUS
<1>3. \A r \in Seq(Kinds) : Len(r) = 0 => r = <<>>
  OBVIOUS
<1> QED BY <1>1, <1>2, <1>3

(* The longest silence of a console that has just sent something. *)
LEMMA Sent ==
  ASSUME TypeOK, NEW c \in Connections, ConnectionInv(c), console[c] = "on"
  PROVE  silence[c] <= MaxCommand + (IdleTicks + 2) * Period + unread[c]
<1> DEFINE A == idle[c] * Period
           W == (IdleTicks + 2) * Period
<1>1. A \in Nat /\ W \in Nat /\ A + Period <= W
  BY Values, Ticks
<1>2. \/ silence[c] <= MaxCommand + W + unread[c]
      \/ silence[c] <= MaxCommand + A + tick[c]
  BY DEF ConnectionInv, TimeInv
<1> HIDE DEF A, W
<1>3. silence[c] <= MaxCommand + W + unread[c]
  BY <1>1, <1>2, Values, Numbers
<1> QED BY <1>3 DEF W

(* The steps of a connection, one by one: a console connects. *)
LEMMA ConnectKeeps ==
  ASSUME TypeOK, NEW c \in Connections, Connect(c)
  PROVE  ConnectionInv(c)'
<1>1. /\ console'[c] = "waiting" /\ inbox'[c] = <<"command">> /\ unread'[c] = 0
      /\ handler'[c] = "accepted" /\ connected'[c] /\ silence'[c] = 0
  BY DEF Connect, TypeOK
<1>2. (IdleTicks + 2) * Period \in Nat
  BY Ticks, Numbers
<1>3. InboxInv(c)'
  BY <1>1 DEF InboxInv, Asked, Busy
<1>4. TimeInv(c)'
  BY <1>1, <1>2, Numbers DEF TimeInv, Busy
<1> QED BY <1>1, <1>3, <1>4 DEF ConnectionInv, Busy

(* A command, or the goodbye, is sent. *)
LEMMA RequestKeeps ==
  ASSUME TypeOK, NEW c \in Connections, ConnectionInv(c), Request(c)
  PROVE  ConnectionInv(c)'
<1>1. PICK m \in {"command", "goodbye"} :
        /\ inbox'[c] = Append(inbox[c], m)
        /\ console'[c] = IF m = "command" THEN "waiting" ELSE "leaving"
  BY DEF Request, Send, TypeOK
<1>2. UNCHANGED <<unread, handler, connected, silence, busy>>
  BY DEF Request, server
<1>3. /\ console[c] = "on" /\ handler[c] = "recv" /\ connected[c]
      /\ \A k \in 1..Len(inbox[c]) : inbox[c][k] = "ping"
  BY DEF Request, ConnectionInv, InboxInv
<1>4. /\ inbox'[c] # <<>> /\ Len(inbox'[c]) = Len(inbox[c]) + 1
      /\ inbox'[c][Len(inbox'[c])] = m
      /\ \A k \in 1..(Len(inbox'[c]) - 1) : inbox'[c][k] = "ping"
  <2>1. Len(inbox[c]) \in Nat /\ m \in Kinds /\ inbox[c] \in Seq(Kinds)
    BY Values DEF Kinds
  <2> QED BY <1>1, <1>3, <2>1, Appended
<1>5. InboxInv(c)'
  <2>1. Len(inbox'[c]) > 0
    BY <1>4, Values
  <2> QED BY <1>1, <1>2, <1>3, <1>4, <2>1 DEF InboxInv, Asked, Busy
<1>6. TimeInv(c)'
  <2>1. silence'[c] <= MaxCommand + (IdleTicks + 2) * Period + unread'[c]
    BY <1>2, <1>3, Sent
  <2> QED BY <1>1, <1>2, <1>3, <1>4, <2>1 DEF TimeInv, Busy
<1> QED BY <1>2, <1>3, <1>5, <1>6 DEF ConnectionInv, Busy

(* The idle timer of the file module ticks, and pings when it is time. *)
LEMMA IdleTickKeeps ==
  ASSUME TypeOK, NEW c \in Connections, ConnectionInv(c), IdleTick(c)
  PROVE  ConnectionInv(c)'
<1>1. UNCHANGED <<console, unread, handler, connected, silence, busy>> /\ tick'[c] = 0
  BY DEF IdleTick, server, TypeOK
<1>2. /\ console[c] = "on" /\ handler[c] = "recv" /\ connected[c]
      /\ \A k \in 1..Len(inbox[c]) : inbox[c][k] = "ping"
  BY DEF IdleTick, ConnectionInv, InboxInv
<1>3. CASE PingDue(c)
  <2>1. inbox'[c] = Append(inbox[c], "ping")
    BY <1>3 DEF IdleTick, Send, TypeOK
  <2>2. "ping" \in Kinds /\ inbox[c] \in Seq(Kinds) /\ Len(inbox[c]) \in Nat
    BY Values DEF Kinds
  <2>3. /\ inbox'[c] # <<>> /\ Len(inbox'[c]) = Len(inbox[c]) + 1
        /\ inbox'[c][Len(inbox[c]) + 1] = "ping"
        /\ \A k \in 1..Len(inbox[c]) : inbox'[c][k] = "ping"
    BY <1>2, <2>1, <2>2, Appended
  <2>4. \A k \in 1..Len(inbox'[c]) : inbox'[c][k] = "ping"
    BY <2>2, <2>3
  <2>5. InboxInv(c)'
    BY <1>1, <1>2, <2>4 DEF InboxInv, Busy
  <2>6. silence'[c] <= MaxCommand + (IdleTicks + 2) * Period + unread'[c]
    BY <1>1, <1>2, Sent
  <2>7. TimeInv(c)'
    BY <1>1, <1>2, <2>3, <2>6 DEF TimeInv, Busy
  <2> QED BY <1>1, <1>2, <2>5, <2>7 DEF ConnectionInv, Busy
<1>4. CASE ~PingDue(c)
  <2>1. inbox' = inbox /\ idle'[c] = idle[c] + 1
    BY <1>4 DEF IdleTick, TypeOK
  <2>2. InboxInv(c)'
    BY <1>1, <1>2, <2>1 DEF InboxInv, Busy
  <2>3. ASSUME inbox[c] = <<>> PROVE silence'[c] <= MaxCommand + idle'[c] * Period + tick'[c]
    <3> DEFINE A == idle[c] * Period
               B == idle'[c] * Period
    <3>1. A \in Nat /\ B = A + Period
      BY <2>1, Values, Ticks
    <3>2. silence[c] <= MaxCommand + A + tick[c]
      BY <1>2, <2>3 DEF ConnectionInv, TimeInv
    <3> HIDE DEF A, B
    <3>3. silence'[c] <= MaxCommand + B + tick'[c]
      BY <1>1, <3>1, <3>2, Values, Numbers
    <3> QED BY <3>3 DEF B
  <2>4. TimeInv(c)'
    BY <1>1, <1>2, <2>1, <2>3 DEF TimeInv, ConnectionInv, Busy
  <2> QED BY <1>1, <1>2, <2>2, <2>4 DEF ConnectionInv, Busy
<1> QED BY <1>3, <1>4

(* The handler's connection enters the list. *)
LEMMA ListKeeps ==
  ASSUME TypeOK, NEW c \in Connections, ConnectionInv(c), List(c)
  PROVE  ConnectionInv(c)'
<1>1. handler[c] = "accepted" /\ handler'[c] = "recv"
  BY DEF List, TypeOK
<1>2. UNCHANGED <<console, idle, tick, inbox, unread, connected, silence, busy>>
  BY DEF List, client, network
<1> QED BY <1>1, <1>2 DEF ConnectionInv, InboxInv, TimeInv, Asked, Busy

(* The handler reads a message: the console has been heard. *)
LEMMA WaitForActionKeeps ==
  ASSUME TypeOK, NEW c \in Connections, ConnectionInv(c), WaitForAction(c)
  PROVE  ConnectionInv(c)'
<1>1. UNCHANGED <<console, idle, tick, connected>>
  BY DEF WaitForAction, client
<1>2. SUFFICES ASSUME Alive(c) PROVE ConnectionInv(c)'
  BY <1>1 DEF ConnectionInv, InboxInv
<1> DEFINE q == inbox[c]
<1>3. /\ silence'[c] = 0 /\ busy'[c] = 0 /\ unread'[c] = 0 /\ inbox'[c] = Tail(q)
      /\ handler'[c] = After(Head(q)) /\ handler[c] = "recv" /\ q # <<>>
  BY DEF WaitForAction, Heard, TypeOK
<1>4. q \in Seq(Kinds) /\ Len(q) \in Nat
  BY Values
<1>5. /\ Head(q) = q[1] /\ Len(Tail(q)) = Len(q) - 1
      /\ \A k \in 1..Len(Tail(q)) : Tail(q)[k] = q[k + 1]
      /\ Len(q) = 1 => Tail(q) = <<>>
  BY <1>3, <1>4, Taken
<1>6. connected'[c]
  BY <1>1, <1>2 DEF ConnectionInv
<1>7. TimeInv(c)'
  <2> DEFINE A == idle'[c] * Period
             W == (IdleTicks + 2) * Period
  <2>1. A \in Nat /\ W \in Nat
    BY <1>1, Values, Ticks
  <2>2. idle'[c] * Period = A /\ (IdleTicks + 2) * Period = W
    OBVIOUS
  <2>3. tick'[c] \in Nat
    BY <1>1, Values
  <2> HIDE DEF A, W
  <2> QED BY <1>3, <2>1, <2>2, <2>3, Numbers DEF TimeInv
<1>8. ASSUME console[c] = "on"
      PROVE  handler'[c] = "recv" /\ \A k \in 1..Len(Tail(q)) : Tail(q)[k] = "ping"
  <2>1. \A k \in 1..Len(q) : q[k] = "ping"
    BY <1>8 DEF ConnectionInv, InboxInv
  <2>2. 1 \in 1..Len(q) /\ \A k \in 1..Len(Tail(q)) : k + 1 \in 1..Len(q)
    BY <1>3, <1>4, <1>5
  <2> HIDE DEF q
  <2> QED BY <1>3, <1>5, <2>1, <2>2 DEF After
<1>9. ASSUME console[c] \in {"waiting", "leaving"}
      PROVE  /\ Len(q) > 0 /\ q[Len(q)] = Asked(c)
             /\ \A k \in 1..(Len(q) - 1) : q[k] = "ping"
  BY <1>3, <1>9 DEF ConnectionInv, InboxInv, Busy
<1>10. ASSUME console[c] \in {"waiting", "leaving"}, Len(q) = 1
       PROVE  Tail(q) = <<>> /\ handler'[c] = Asked(c)'
  <2>1. Tail(q) = <<>>
    BY <1>5, <1>10
  <2>2. handler'[c] = Asked(c)
    BY <1>3, <1>5, <1>9, <1>10 DEF After, Asked
  <2> QED BY <1>1, <2>1, <2>2 DEF Asked
<1>11. ASSUME console[c] \in {"waiting", "leaving"}, Len(q) # 1
       PROVE  /\ Len(Tail(q)) > 0 /\ Tail(q)[Len(Tail(q))] = Asked(c)' /\ handler'[c] = "recv"
              /\ \A k \in 1..(Len(Tail(q)) - 1) : Tail(q)[k] = "ping"
  <2>1. Len(q) > 1 /\ 1 \in 1..(Len(q) - 1) /\ Len(Tail(q)) > 0
    <3>1. Len(q) > 0
      BY <1>9, <1>11
    <3>2. Len(q) \in Nat /\ Len(Tail(q)) = Len(q) - 1 /\ Len(q) # 1
      BY <1>4, <1>5, <1>11
    <3>3. \A n \in Nat : n > 0 /\ n # 1 => n > 1 /\ 1 \in 1..(n - 1) /\ n - 1 > 0
      OBVIOUS
    <3> HIDE DEF q
    <3> QED BY <3>1, <3>2, <3>3
  <2>2. Len(Tail(q)) \in 1..Len(Tail(q)) /\ Len(Tail(q)) + 1 = Len(q)
    BY <1>4, <1>5, <2>1
  <2>3. \A k \in 1..(Len(Tail(q)) - 1) : k \in 1..Len(Tail(q)) /\ k + 1 \in 1..(Len(q) - 1)
    BY <1>4, <1>5, <2>1
  <2>4. Tail(q)[Len(Tail(q))] = Asked(c)
    BY <1>5, <1>9, <1>11, <2>2
  <2>5. Asked(c)' = Asked(c)
    BY <1>1 DEF Asked
  <2>6. handler'[c] = "recv"
    BY <1>3, <1>5, <1>9, <1>11, <2>1 DEF After
  <2>7. \A k \in 1..(Len(Tail(q)) - 1) : Tail(q)[k] = "ping"
    BY <1>5, <1>9, <1>11, <2>3
  <2> QED BY <2>1, <2>4, <2>5, <2>6, <2>7
<1>12. handler'[c] \in {"recv"} \union Busy
  BY <1>2, <1>8, <1>10, <1>11 DEF Asked, Busy
<1>13. InboxInv(c)'
  <2> HIDE DEF q
  <2>1. CASE console[c] = "on"
    BY <1>1, <1>3, <1>8, <2>1 DEF InboxInv, Busy
  <2>2. CASE console[c] # "on" /\ Len(q) = 1
    BY <1>1, <1>2, <1>3, <1>10, <2>2 DEF InboxInv, Busy, Asked
  <2>3. CASE console[c] # "on" /\ Len(q) # 1
    BY <1>1, <1>2, <1>3, <1>11, <2>3 DEF InboxInv, Busy
  <2> QED BY <2>1, <2>2, <2>3
<1> QED BY <1>6, <1>7, <1>12, <1>13 DEF ConnectionInv, Busy

(* A command ends and is answered. *)
LEMMA ReturnKeeps ==
  ASSUME TypeOK, NEW c \in Connections, ConnectionInv(c), Return(c)
  PROVE  ConnectionInv(c)'
<1>1. UNCHANGED <<inbox, unread, connected, silence>> /\ handler[c] \in Busy
  BY DEF Return, network, Busy
<1>2. idle'[c] = 0 /\ tick'[c] = 0
  BY DEF Return, TypeOK
<1>3. /\ console'[c] = IF connected[c] THEN Answered(console[c]) ELSE console[c]
      /\ handler'[c] = IF connected[c] /\ handler[c] = "command" THEN "recv" ELSE "leaving"
  BY DEF Return, TypeOK
<1>4. CASE ~Alive(c)
  <2>1. console'[c] = console[c]
    BY <1>3, <1>4 DEF Answered, TypeOK
  <2> QED BY <1>4, <2>1 DEF ConnectionInv, InboxInv
<1>5. CASE Alive(c)
  <2>1. connected[c] /\ inbox[c] = <<>> /\ handler[c] = Asked(c) /\ console[c] # "on"
        /\ silence[c] <= busy[c] /\ unread[c] = 0
    BY <1>1, <1>5 DEF ConnectionInv, InboxInv, TimeInv, Busy
  <2>2. CASE console[c] = "leaving"
    <3>1. console'[c] = "off"
      BY <1>3, <2>1, <2>2 DEF Answered
    <3> QED BY <3>1 DEF ConnectionInv, InboxInv
  <2>3. CASE console[c] = "waiting"
    <3>1. console'[c] = "on" /\ handler'[c] = "recv"
      BY <1>3, <2>1, <2>3 DEF Answered, Asked
    <3>2. InboxInv(c)'
      BY <1>1, <2>1, <3>1 DEF InboxInv, Busy
    <3>3. silence'[c] <= MaxCommand + idle'[c] * Period + tick'[c]
      BY <1>1, <1>2, <2>1, Values, Ticks, Numbers
    <3>4. TimeInv(c)'
      BY <1>1, <2>1, <3>1, <3>3 DEF TimeInv, Busy
    <3> QED BY <1>1, <2>1, <3>1, <3>2, <3>4 DEF ConnectionInv
  <2> QED BY <1>5, <2>1, <2>2, <2>3
<1> QED BY <1>4, <1>5

(* A console that is switched off, a connection that fails or ends. *)
LEMMA OthersKeep ==
  ASSUME TypeOK, NEW c \in Connections, ConnectionInv(c), LockInv,
         SwitchOff(c) \/ Fail(c) \/ Destroy(c) \/ Remove(c)
  PROVE  ConnectionInv(c)'
<1>1. CASE SwitchOff(c)
  <2>1. console'[c] = "dead"
    BY <1>1 DEF SwitchOff, TypeOK
  <2> QED BY <2>1, NobodyThere
<1>2. CASE Fail(c) \/ Destroy(c)
  <2>1. ~Alive(c) /\ console' = console
    BY <1>2 DEF Fail, Destroy, client, ConnectionInv, Busy
  <2> QED BY <2>1, NobodyThere
<1>3. CASE Remove(c)
  <2>1. ~Alive(c)
    BY <1>3 DEF Remove, ConnectionInv, Busy
  <2>2. console'[c] \in {"off", "dead"}
    BY <1>3, <2>1 DEF Remove, TypeOK
  <2> QED BY <2>2, NobodyThere
<1> QED BY <1>1, <1>2, <1>3

(* The sweeper looks at the connection. *)
LEMMA CheckKeeps ==
  ASSUME TypeOK, NEW c \in Connections, ConnectionInv(c), Check(c)
  PROVE  ConnectionInv(c)'
<1>1. UNCHANGED <<console, idle, tick, inbox, unread, handler, silence, busy>>
  BY DEF Check, client, network
<1>2. Alive(c) => connected'[c]
  <2>1. SUFFICES ASSUME Alive(c) PROVE connected'[c]
    OBVIOUS
  <2>2. ~TimedOut(c) /\ connected[c]
    BY <2>1, NotTimedOut DEF ConnectionInv
  <2> QED BY <2>2 DEF Check, TypeOK
<1> QED BY <1>1, <1>2 DEF ConnectionInv, InboxInv, TimeInv, Asked, Busy

(* Time passes. *)
LEMMA AdvanceKeeps ==
  ASSUME TypeOK, NEW c \in Connections, ConnectionInv(c), Advance
  PROVE  ConnectionInv(c)'
<1>1. UNCHANGED <<console, idle, inbox, handler, connected>>
  BY DEF Advance
<1>2. SUFFICES ASSUME Alive(c) PROVE ConnectionInv(c)'
  BY <1>1, NobodyThere
<1>3. InboxInv(c)'
  BY <1>1 DEF ConnectionInv, InboxInv, Asked, Busy
<1>4. silence'[c] \in Nat /\ silence'[c] <= silence[c] + 1
  <2>1. silence'[c] = 0 \/ silence'[c] = Older(silence[c], Timeout + 1)
    BY DEF Advance
  <2> QED BY <2>1, Values, Numbers DEF Older, Least
<1>5. /\ handler[c] \in Busy => busy'[c] = busy[c] + 1
      /\ inbox[c] # <<>> => unread'[c] = unread[c] + 1
      /\ inbox[c] = <<>> => unread'[c] = 0
      /\ console[c] = "on" => tick'[c] = tick[c] + 1
  <2>1. /\ busy'[c] = IF Alive(c) /\ handler[c] \in {"command", "goodbye"} THEN busy[c] + 1 ELSE 0
        /\ unread'[c] = IF Alive(c) /\ inbox[c] # <<>> THEN unread[c] + 1 ELSE 0
        /\ tick'[c] = IF console[c] = "on" THEN tick[c] + 1 ELSE 0
    BY DEF Advance
  <2> QED BY <1>2, <2>1 DEF Busy
<1> DEFINE A == idle[c] * Period
           W == (IdleTicks + 2) * Period
<1>6. A \in Nat /\ W \in Nat
  BY Values, Ticks
<1>7. /\ handler[c] \in Busy => silence[c] <= busy[c]
      /\ console[c] = "on" /\ inbox[c] = <<>> => silence[c] <= MaxCommand + A + tick[c]
      /\ inbox[c] # <<>> => silence[c] <= MaxCommand + W + unread[c]
  BY <1>2 DEF ConnectionInv, TimeInv
<1>8. TimeInv(c)'
  <2>1. idle'[c] * Period = A /\ W = (IdleTicks + 2) * Period
    BY <1>1
  <2> HIDE DEF A, W
  <2>2. handler'[c] \in Busy => silence'[c] <= busy'[c]
    BY <1>1, <1>4, <1>5, <1>7, Values
  <2>3. console'[c] = "on" /\ inbox'[c] = <<>> => silence'[c] <= MaxCommand + A + tick'[c]
    BY <1>1, <1>4, <1>5, <1>6, <1>7, Values, Numbers
  <2>4. inbox'[c] # <<>> => silence'[c] <= MaxCommand + W + unread'[c]
    BY <1>1, <1>4, <1>5, <1>6, <1>7, Values, Numbers
  <2> QED BY <1>1, <1>5, <2>1, <2>2, <2>3, <2>4 DEF TimeInv
<1> QED BY <1>1, <1>2, <1>3, <1>8 DEF ConnectionInv

(* An action of c leaves the other connections alone. *)
LEMMA OnlyOne ==
  ASSUME TypeOK, NEW c \in Connections, NEW d \in Connections, c # d,
         \/ Connect(c) \/ Request(c) \/ IdleTick(c) \/ SwitchOff(c)
         \/ List(c) \/ WaitForAction(c) \/ Return(c) \/ Fail(c) \/ Destroy(c) \/ Remove(c)
         \/ Check(c)
  PROVE  /\ console'[d] = console[d] /\ idle'[d] = idle[d] /\ tick'[d] = tick[d]
         /\ inbox'[d] = inbox[d] /\ unread'[d] = unread[d] /\ handler'[d] = handler[d]
         /\ connected'[d] = connected[d] /\ silence'[d] = silence[d] /\ busy'[d] = busy[d]
<1> USE DEF TypeOK, client, network, server, timeout
<1>1. CASE Connect(c) \/ Request(c)
  BY <1>1 DEF Connect, Request, Send
<1>2. CASE IdleTick(c)
  BY <1>2 DEF IdleTick, Send
<1>3. CASE SwitchOff(c)
  BY <1>3 DEF SwitchOff
<1>4. CASE List(c) \/ Fail(c) \/ Destroy(c) \/ Check(c)
  BY <1>4 DEF List, Fail, Destroy, Check
<1>5. CASE WaitForAction(c)
  BY <1>5 DEF WaitForAction
<1>6. CASE Return(c)
  BY <1>6 DEF Return
<1>7. CASE Remove(c)
  BY <1>7 DEF Remove
<1> QED BY <1>1, <1>2, <1>3, <1>4, <1>5, <1>6, <1>7

(* Every step keeps what holds of a connection. *)
LEMMA ConnectionNext ==
  ASSUME TimeoutInv, [Next]_vars, NEW d \in Connections
  PROVE  ConnectionInv(d)'
<1>1. TypeOK /\ LockInv /\ ConnectionInv(d)
  BY DEF TimeoutInv
<1>2. ASSUME NEW c \in Connections,
             \/ Connect(c) \/ Request(c) \/ IdleTick(c) \/ SwitchOff(c)
             \/ List(c) \/ WaitForAction(c) \/ Return(c) \/ Fail(c) \/ Destroy(c) \/ Remove(c)
             \/ Check(c)
      PROVE  ConnectionInv(d)'
  <2>1. CASE c # d
    BY <1>1, <1>2, <2>1, OnlyOne, Same
  <2>2. CASE c = d
    BY <1>1, <1>2, <2>2, ConnectKeeps, RequestKeeps, IdleTickKeeps, ListKeeps,
       WaitForActionKeeps, ReturnKeeps, OthersKeep, CheckKeeps
  <2> QED BY <2>1, <2>2
<1>3. CASE Restart \/ Broadcast \/ StartSweep \/ EndSweep \/ UNCHANGED vars
  <2>1. UNCHANGED <<console, idle, tick, inbox, unread, handler, connected, silence, busy>>
    BY <1>3 DEF Restart, Broadcast, StartSweep, EndSweep, vars, client, network, server
  <2> QED BY <1>1, <2>1, Same
<1>4. CASE Advance
  BY <1>1, <1>4, AdvanceKeeps
<1>5. ASSUME NEW c \in Connections, End(c) PROVE ConnectionInv(d)'
  <2>1. console'[d] = "off"
    BY <1>5 DEF End
  <2> QED BY <2>1, NobodyThere
<1> QED BY <1>2, <1>3, <1>4, <1>5 DEF Next

(* The pings come in time: no living console is disconnected by the sweep, and
   so only a dead console's handler loses its streams in a command. *)
THEOREM StayConnected == Spec => []LivingStayConnected
<1> HIDE DEF Alive
<1>1. Init => TimeoutInv
  <2>1. ASSUME Init, NEW c \in Connections PROVE ConnectionInv(c)
    BY <2>1 DEF Init, ConnectionInv, InboxInv, Alive
  <2> QED BY <2>1, TypeInit, LockInit DEF TimeoutInv
<1>2. TimeoutInv /\ [Next]_vars => TimeoutInv'
  <2> SUFFICES ASSUME TimeoutInv, [Next]_vars PROVE TimeoutInv'
    OBVIOUS
  <2>1. TypeOK' /\ LockInv'
    BY TypeNext, LockNext DEF TimeoutInv
  <2>2. \A c \in Connections : ConnectionInv(c)'
    BY ConnectionNext
  <2> QED BY <2>1, <2>2 DEF TimeoutInv
<1>3. TimeoutInv => LivingStayConnected
  BY DEF TimeoutInv, ConnectionInv, LivingStayConnected
<1> QED BY <1>1, <1>2, <1>3, PTL DEF Spec
=============================================================================
