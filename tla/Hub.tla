--------------------------------- MODULE Hub ---------------------------------
(***************************************************************************)
(* The hub of one copy of notification: the set of its websocket clients,  *)
(* the subscriber that hands every message of the Redis channel to the     *)
(* clients of the message's account, one goroutine per connection that     *)
(* writes what its client is handed, and the shutdown.  Critical sections  *)
(* of the hub's mutex are one step, for nothing in them waits; between     *)
(* them, and between two clients of one message, other goroutines run.     *)
(***************************************************************************)
EXTENDS Integers, Sequences, FiniteSets

CONSTANTS
  Client,      \* the connections of a behavior
  Account,     \* account ids
  AccountOf,   \* AccountOf[c]: the account_id client c asks for
  Feed,        \* the messages of the Redis channel, each the account it is for
  BufferSize   \* how many messages wait for a client at most

ASSUME HubAssumption ==
  /\ AccountOf \in [Client -> Account] /\ Feed \in Seq(Account)
  /\ BufferSize \in Nat \ {0}

VARIABLES
  members,     \* the clients registered with the hub
  reason,      \* reason[c]: why c is to be disconnected, once its done is closed
  buffer,      \* buffer[c]: the channel send of c, messages by their number
  pc,          \* pc[c]: where the goroutine of c is
  writing,     \* writing[c]: the message it has taken from the buffer
  written,     \* written[c]: the messages the connection of c got
  told,        \* told[c]: the reason its connection was closed with, if any
  since,       \* since[c]: how many messages were handed out before c came
  next,        \* the number of the next message of the channel
  received,    \* the numbers of the messages the subscriber got, in order
  targets,     \* the clients Send has still to look at
  slow,        \* the client Send has found full and goes on to unregister
  subscriber, shutdown    \* where these two goroutines are

client == <<members, reason, since>>
handler == <<pc, writing, written, told>>
channel == <<next, received>>
sender == <<targets, slow>>
process == <<subscriber, shutdown>>
vars == <<client, buffer, handler, channel, sender, process>>

Message == 1..Len(Feed)

(* The close codes 1000, 1008 and 1001, or none of them.                   *)
Reason == {"none", "normal", "policy", "away"}

TypeOK ==
  /\ members \subseteq Client
  /\ reason \in [Client -> Reason] /\ told \in [Client -> Reason]
  /\ buffer \in [Client -> Seq(Message)]
  /\ \A c \in Client : Len(buffer[c]) <= BufferSize
  /\ pc \in [Client -> {"new", "loop", "writing", "leave", "gone"}]
  /\ writing \in [Client -> Seq(Message)]
  /\ \A c \in Client : Len(writing[c]) <= 1
  /\ written \in [Client -> Seq(Message)]
  /\ since \in [Client -> 0..Len(Feed)]
  /\ next \in 1..(Len(Feed) + 1)
  /\ received \in Seq(Message)
  /\ targets \subseteq Client
  /\ slow \subseteq Client /\ Cardinality(slow) <= 1
  /\ subscriber \in {"running", "stopped"}
  /\ shutdown \in {"no", "begun", "closed"}

Init ==
  /\ members = {} /\ targets = {} /\ slow = {}
  /\ reason = [c \in Client |-> "none"] /\ told = [c \in Client |-> "none"]
  /\ buffer = [c \in Client |-> <<>>]
  /\ pc = [c \in Client |-> "new"]
  /\ writing = [c \in Client |-> <<>>] /\ written = [c \in Client |-> <<>>]
  /\ since = [c \in Client |-> 0]
  /\ next = 1 /\ received = <<>>
  /\ subscriber = "running" /\ shutdown = "no"

-----------------------------------------------------------------------------
(* The hub.                                                                *)

Done(c) == reason[c] # "none"

(* disconnect, of each of the clients cs: the first reason counts.         *)
Disconnected(cs, why) ==
  [c \in Client |-> IF c \in cs /\ ~Done(c) THEN why ELSE reason[c]]

Unregister(c, why) ==
  /\ members' = members \ {c}
  /\ reason' = Disconnected({c}, why)
  /\ UNCHANGED since

CloseAll ==
  /\ shutdown = "begun"
  /\ shutdown' = "closed"
  /\ reason' = Disconnected(members, "away")
  /\ UNCHANGED <<members, since, buffer, handler, channel, sender, subscriber>>

-----------------------------------------------------------------------------
(* The goroutine of a connection, WSHandler.ServeHTTP.                     *)

Goto(c, label) == pc' = [pc EXCEPT ![c] = label]

(* A connection is accepted at any time, also after CloseAll, which does   *)
(* not see it then: it lasts until the process ends.                       *)
Register(c) ==
  /\ pc[c] = "new"
  /\ members' = members \cup {c}
  /\ since' = [since EXCEPT ![c] = Len(received)]
  /\ Goto(c, "loop")
  /\ UNCHANGED <<reason, buffer, writing, written, told, channel, sender, process>>

TakeMessage(c) ==
  /\ pc[c] = "loop" /\ buffer[c] # <<>>
  /\ writing' = [writing EXCEPT ![c] = <<Head(buffer[c])>>]
  /\ buffer' = [buffer EXCEPT ![c] = Tail(@)]
  /\ Goto(c, "writing")
  /\ UNCHANGED <<client, written, told, channel, sender, process>>

WriteTo(c) == written' = [written EXCEPT ![c] = @ \o writing[c]]

EndWrite(c, label) ==
  /\ pc[c] = "writing"
  /\ writing' = [writing EXCEPT ![c] = <<>>]
  /\ Goto(c, label)
  /\ UNCHANGED <<client, buffer, told, channel, sender, process>>

Write(c) == EndWrite(c, "loop") /\ WriteTo(c)

RetryWrite(c) ==    \* regression: a write that failed is made again
  /\ pc[c] = "writing"
  /\ writing' = [writing EXCEPT ![c] = <<>>]
  /\ buffer' = [buffer EXCEPT ![c] = writing[c] \o @]
  /\ WriteTo(c) \/ UNCHANGED written
  /\ Goto(c, "loop")
  /\ UNCHANGED <<client, told, channel, sender, process>>

(* The write fails, or takes too long; the client may have got it.         *)
WriteFails(c) == EndWrite(c, "leave") /\ (WriteTo(c) \/ UNCHANGED written)

(* The client closes or breaks the connection, or does not answer a ping.  *)
ConnectionEnds(c) ==
  /\ pc[c] = "loop"
  /\ Goto(c, "leave")
  /\ UNCHANGED <<client, buffer, writing, written, told, channel, sender, process>>

NeverDone(c) == FALSE    \* regression: the loop does not look at done

(* done is closed: the connection is closed with the reason.  If messages  *)
(* wait too, the select may as well take one of them.                      *)
SeeDone(c) ==
  /\ pc[c] = "loop" /\ Done(c)
  /\ told' = [told EXCEPT ![c] = reason[c]]
  /\ Goto(c, "leave")
  /\ UNCHANGED <<client, buffer, writing, written, channel, sender, process>>

(* The deferred Unregister.                                                *)
Leave(c) ==
  /\ pc[c] = "leave"
  /\ Unregister(c, "normal")
  /\ Goto(c, "gone")
  /\ UNCHANGED <<buffer, writing, written, told, channel, sender, process>>

-----------------------------------------------------------------------------
(* The subscriber, and Hub.Send.                                           *)

Waiting == subscriber = "running" /\ targets = {} /\ slow = {}

(* A message comes in, and Send copies the clients of its account.         *)
Receive ==
  /\ Waiting /\ next <= Len(Feed)
  /\ received' = Append(received, next)
  /\ targets' = {c \in members : AccountOf[c] = Feed[next]}
  /\ next' = next + 1
  /\ UNCHANGED <<client, buffer, handler, slow, process>>

(* A message does not reach the subscriber, which has lost its connection, *)
(* or it cannot be read.                                                   *)
Miss ==
  /\ subscriber = "running" /\ next <= Len(Feed)
  /\ next' = next + 1
  /\ UNCHANGED <<client, buffer, handler, received, sender, process>>

Current == received[Len(received)]

OneMore(c) == Len(buffer[c]) <= BufferSize    \* regression: off by one

HasRoom(c) == Len(buffer[c]) < BufferSize

HandAndDrop(c) ==    \* regression: who has a full buffer then is slow
  /\ c \in targets /\ HasRoom(c)
  /\ buffer' = [buffer EXCEPT ![c] = Append(@, Current)]
  /\ targets' = targets \ {c}
  /\ IF Len(buffer[c]) + 1 = BufferSize THEN Unregister(c, "policy") ELSE UNCHANGED client
  /\ UNCHANGED <<handler, channel, slow, process>>

Hand(c) ==
  /\ c \in targets /\ HasRoom(c)
  /\ buffer' = [buffer EXCEPT ![c] = Append(@, Current)]
  /\ targets' = targets \ {c}
  /\ UNCHANGED <<client, handler, channel, slow, process>>

PassOver(c) ==
  /\ c \in targets /\ Done(c)
  /\ targets' = targets \ {c}
  /\ UNCHANGED <<client, buffer, handler, channel, slow, process>>

DropMessage(c) ==    \* regression: a slow client loses the message, and stays
  /\ c \in targets /\ ~HasRoom(c) /\ ~Done(c)
  /\ targets' = targets \ {c}
  /\ UNCHANGED <<client, buffer, handler, channel, slow, process>>

(* The default branch of the select: neither is possible.                  *)
FindFull(c) ==
  /\ c \in targets /\ ~HasRoom(c) /\ ~Done(c)
  /\ targets' = targets \ {c}
  /\ slow' = {c}
  /\ UNCHANGED <<client, buffer, handler, channel, process>>

(* ... and Unregister, before Send looks at the next client.               *)
UnregisterSlow(c) ==
  /\ c \in slow
  /\ Unregister(c, "policy")
  /\ slow' = {}
  /\ UNCHANGED <<buffer, handler, channel, targets, process>>

Offer(c) == slow = {} /\ (Hand(c) \/ PassOver(c) \/ FindFull(c))

(* The process is told to stop: the subscriber ends before a next message, *)
(* or after some more, for its select takes either.                        *)
Shutdown ==
  /\ shutdown = "no"
  /\ shutdown' = "begun"
  /\ UNCHANGED <<client, buffer, handler, channel, sender, subscriber>>

SubscriberStops ==
  /\ Waiting /\ shutdown # "no"
  /\ subscriber' = "stopped"
  /\ UNCHANGED <<client, buffer, handler, channel, sender, shutdown>>

-----------------------------------------------------------------------------

Handle(c) == TakeMessage(c) \/ Write(c) \/ WriteFails(c) \/ SeeDone(c) \/ Leave(c)

Sending == \E c \in Client : Offer(c) \/ UnregisterSlow(c)

Next ==
  \/ \E c \in Client : Register(c) \/ Handle(c) \/ ConnectionEnds(c)
  \/ Receive \/ Miss \/ Sending \/ SubscriberStops
  \/ Shutdown \/ CloseAll

(* A goroutine that can go on does: a write ends, at the latest with its   *)
(* timeout, and Send looks at every client.  Messages need not come in,    *)
(* connections need not end.                                               *)
Fairness ==
  /\ \A c \in Client : WF_vars(Handle(c))
  /\ WF_vars(Sending)
  /\ WF_vars(CloseAll)

Spec == Init /\ [][Next]_vars

FairSpec == Spec /\ Fairness

-----------------------------------------------------------------------------
(* Safety.                                                                 *)

Numbers(s) == {s[i] : i \in DOMAIN s}

Increasing(s) == \A i, j \in DOMAIN s : i < j => s[i] < s[j]

(* The numbers of the messages for the account of c since it came.         *)
MeantFor(c) ==
  {m \in {received[i] : i \in (since[c] + 1)..Len(received)} : Feed[m] = AccountOf[c]}

HandedTo(c) == written[c] \o writing[c] \o buffer[c]

(* ... and the message that Send is at, if it has still to look at c.      *)
OfferedTo(c) ==
  HandedTo(c) \o (IF c \in targets \cup slow THEN <<Current>> ELSE <<>>)

(* A client that is not being disconnected has every message for its       *)
(* account since it registered, in order, none twice and none of another   *)
(* account: got, on its way or in its buffer.  Only the message that Send  *)
(* is at may be missing.  A client that would miss one is disconnected     *)
(* instead (hub.go, Send).                                                 *)
NoGapWhileConnected ==
  \A c \in Client : pc[c] \in {"loop", "writing"} /\ ~Done(c) =>
    Numbers(OfferedTo(c)) = MeantFor(c) /\ Increasing(OfferedTo(c))

(* What a client gets is in order up to the end, also when it is being     *)
(* disconnected while Send and its own goroutine go on with it.            *)
WrittenInOrder == \A c \in Client : Increasing(written[c])

(* A client has been handed all its messages up to one it did not get, and *)
(* none of the later ones.                                                 *)
CutShort(c) ==
  \E lost \in MeantFor(c) : Numbers(HandedTo(c)) = {m \in MeantFor(c) : m < lost}

(* The reason a connection is closed with tells its client what it missed, *)
(* although Send, CloseAll and the client's own goroutine may all come to  *)
(* disconnect it while its buffer is being emptied (hub.go, disconnect,    *)
(* and ws.go, ServeHTTP).  A client that is told it is too slow has been   *)
(* handed all its messages up to one that it will never get, and none of   *)
(* the later ones; only a process that stops tells a client so; and none   *)
(* is told of a normal closure, for then it closed the connection itself.  *)
CloseReasonIsTrue ==
  \A c \in Client :
    /\ told[c] = "policy" => CutShort(c)
    /\ told[c] = "away" => shutdown = "closed"
    /\ told[c] # "normal"

-----------------------------------------------------------------------------
(* A client that is disconnected leaves the hub, and its goroutine ends.   *)
DisconnectedLeaves ==
  \A c \in Client : Done(c) ~> pc[c] = "gone" /\ c \notin members

(* A message that was handed out reaches every client of its account that  *)
(* was registered, or the client's connection ends.                        *)
EveryMessageReaches ==
  \A c \in Client, m \in Message :
    pc[c] = "loop" /\ m \in MeantFor(c) ~> pc[c] = "gone" \/ m \in Numbers(written[c])
=============================================================================
