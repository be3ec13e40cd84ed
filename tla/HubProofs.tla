------------------------------ MODULE HubProofs ------------------------------
(***************************************************************************)
(* Proofs about Hub, for any number of clients, any channel and any size   *)
(* of the buffer: who stays connected has missed nothing, everybody is     *)
(* written in order, and who is closed is told what is true of it.         *)
(***************************************************************************)
EXTENDS Hub, FiniteSetTheorems, SequenceTheorems, TLAPS

USE DEF Reason

(* The messages come in the order of the channel, each once.               *)
ReceivedInv ==
  /\ Increasing(received)
  /\ \A m \in Numbers(received) : m < next
  /\ Len(received) < next
  /\ \A c \in Client : since[c] <= Len(received)

(* A client that has not come has been handed nothing; one that stays is   *)
(* registered; a message is being written by the goroutine that took it.   *)
ClientInv ==
  \A c \in Client :
    /\ pc[c] = "new" => c \notin members /\ HandedTo(c) = <<>>
    /\ pc[c] \in {"loop", "writing"} /\ ~Done(c) => c \in members
    /\ pc[c] # "writing" => writing[c] = <<>>

(* Send looks at clients that have come, for a message that has.           *)
SenderInv ==
  /\ targets \cap slow = {} /\ (\A c, d \in slow : c = d)
  /\ \A c \in targets \cup slow : received # <<>> /\ pc[c] # "new"

(* What a client is handed is older than what Send comes with next.        *)
OfferInv ==
  \A c \in Client : Increasing(OfferedTo(c)) /\ \A m \in Numbers(OfferedTo(c)) : m < next

IInv ==
  TypeOK /\ ReceivedInv /\ ClientInv /\ SenderInv /\ OfferInv /\ NoGapWhileConnected

(* Why a client is to be disconnected: a slow client is out of Send's      *)
(* sight, and only a goroutine that has ended its loop can have told.      *)
ReasonInv ==
  \A c \in Client :
    /\ Done(c) => pc[c] # "new"
    /\ reason[c] = "policy" => c \notin members \cup targets \cup slow
    /\ reason[c] = "away" => shutdown = "closed"
    /\ reason[c] = "normal" => pc[c] = "gone"
    /\ told[c] # "none" =>
         told[c] = reason[c] /\ told[c] # "normal" /\ pc[c] \in {"leave", "gone"}

(* A slow client that may still be told so, or has been.  One whose write  *)
(* fails meanwhile is never told: it may lack a message in the middle.     *)
Slow(c) == reason[c] = "policy" /\ (pc[c] \in {"loop", "writing"} \/ told[c] = "policy")

CutInv == \A c \in Client : Slow(c) => CutShort(c)

-----------------------------------------------------------------------------
(* Sequences of message numbers.                                           *)

LEMMA EmptyNumbers ==
  <<>> \in Seq(Int) /\ Numbers(<<>>) = {} /\ Increasing(<<>>)
BY DEF Numbers, Increasing

LEMMA SingleNumbers ==
  ASSUME NEW m \in Int
  PROVE  <<m>> \in Seq(Int) /\ Numbers(<<m>>) = {m} /\ Increasing(<<m>>)
BY DEF Numbers, Increasing

LEMMA ConcatNumbers ==
  ASSUME NEW s \in Seq(Int), NEW t \in Seq(Int)
  PROVE  s \o t \in Seq(Int) /\ Numbers(s \o t) = Numbers(s) \cup Numbers(t)
<1>1. /\ s \o t \in Seq(Int) /\ Len(s \o t) = Len(s) + Len(t)
      /\ \A i \in 1..(Len(s) + Len(t)) :
           (s \o t)[i] = IF i <= Len(s) THEN s[i] ELSE t[i - Len(s)]
  BY ConcatProperties
<1>2. ASSUME NEW m \in Numbers(s \o t) PROVE m \in Numbers(s) \cup Numbers(t)
  <2>1. PICK i \in 1..(Len(s) + Len(t)) : m = (s \o t)[i] BY <1>1 DEF Numbers
  <2>2. CASE i <= Len(s) BY <1>1, <2>1, <2>2 DEF Numbers
  <2>3. CASE ~(i <= Len(s))
    <3>1. i - Len(s) \in DOMAIN t BY <2>3
    <3> QED BY <1>1, <2>1, <2>3, <3>1 DEF Numbers
  <2> QED BY <2>2, <2>3
<1>3. ASSUME NEW m \in Numbers(s) PROVE m \in Numbers(s \o t)
  <2>1. PICK i \in DOMAIN s : m = s[i] BY DEF Numbers
  <2>2. i \in DOMAIN (s \o t) /\ (s \o t)[i] = s[i] BY <1>1
  <2> QED BY <2>1, <2>2 DEF Numbers
<1>4. ASSUME NEW m \in Numbers(t) PROVE m \in Numbers(s \o t)
  <2>1. PICK i \in DOMAIN t : m = t[i] BY DEF Numbers
  <2>2. Len(s) + i \in DOMAIN (s \o t) /\ (s \o t)[Len(s) + i] = t[i] BY <1>1
  <2> QED BY <2>1, <2>2 DEF Numbers
<1> QED BY <1>1, <1>2, <1>3, <1>4

LEMMA ConcatIncreasing ==
  ASSUME NEW s \in Seq(Int), NEW t \in Seq(Int)
  PROVE  Increasing(s \o t) <=>
           /\ Increasing(s) /\ Increasing(t)
           /\ \A m \in Numbers(s), n \in Numbers(t) : m < n
<1>1. /\ s \o t \in Seq(Int) /\ Len(s \o t) = Len(s) + Len(t)
      /\ \A i \in 1..(Len(s) + Len(t)) :
           (s \o t)[i] = IF i <= Len(s) THEN s[i] ELSE t[i - Len(s)]
  BY ConcatProperties
<1>2. /\ \A i \in DOMAIN s : i \in DOMAIN (s \o t) /\ (s \o t)[i] = s[i]
      /\ \A i \in DOMAIN t : Len(s) + i \in DOMAIN (s \o t) /\ (s \o t)[Len(s) + i] = t[i]
  BY <1>1
<1>3. ASSUME Increasing(s \o t)
      PROVE  /\ Increasing(s) /\ Increasing(t)
             /\ \A m \in Numbers(s), n \in Numbers(t) : m < n
  <2>1. Increasing(s) BY <1>2, <1>3 DEF Increasing
  <2>2. ASSUME NEW i \in DOMAIN t, NEW j \in DOMAIN t, i < j PROVE t[i] < t[j]
    <3>1. Len(s) + i < Len(s) + j BY <2>2
    <3> QED BY <1>2, <1>3, <3>1 DEF Increasing
  <2>3. ASSUME NEW m \in Numbers(s), NEW n \in Numbers(t) PROVE m < n
    <3>1. PICK i \in DOMAIN s : m = s[i] BY DEF Numbers
    <3>2. PICK j \in DOMAIN t : n = t[j] BY DEF Numbers
    <3>3. i < Len(s) + j OBVIOUS
    <3> QED BY <1>2, <1>3, <3>1, <3>2, <3>3 DEF Increasing
  <2> QED BY <2>1, <2>2, <2>3 DEF Increasing
<1>4. ASSUME Increasing(s), Increasing(t),
             \A m \in Numbers(s), n \in Numbers(t) : m < n,
             NEW i \in DOMAIN (s \o t), NEW j \in DOMAIN (s \o t), i < j
      PROVE  (s \o t)[i] < (s \o t)[j]
  <2>1. CASE j <= Len(s)
    <3>1. i \in DOMAIN s /\ j \in DOMAIN s BY <1>1, <1>4, <2>1
    <3> QED BY <1>2, <1>4, <3>1 DEF Increasing
  <2>2. CASE ~(i <= Len(s))
    <3>1. i - Len(s) \in DOMAIN t /\ j - Len(s) \in DOMAIN t /\ i - Len(s) < j - Len(s)
      BY <1>1, <1>4, <2>2
    <3>2. t[i - Len(s)] < t[j - Len(s)] BY <1>4, <3>1 DEF Increasing
    <3> QED BY <1>1, <1>4, <2>2, <3>2
  <2>3. CASE i <= Len(s) /\ ~(j <= Len(s))
    <3>1. i \in DOMAIN s /\ j - Len(s) \in DOMAIN t BY <1>1, <2>3
    <3>2. s[i] \in Numbers(s) /\ t[j - Len(s)] \in Numbers(t) BY <3>1 DEF Numbers
    <3>3. s[i] < t[j - Len(s)] BY <1>4, <3>2
    <3> QED BY <1>1, <2>3, <3>3
  <2> QED BY <2>1, <2>2, <2>3, <1>1, <1>4
<1>5. (/\ Increasing(s) /\ Increasing(t)
       /\ \A m \in Numbers(s), n \in Numbers(t) : m < n) => Increasing(s \o t)
  BY <1>4 DEF Increasing
<1> QED BY <1>3, <1>5

LEMMA NumbersAssociative ==
  ASSUME NEW s \in Seq(Int), NEW t \in Seq(Int), NEW u \in Seq(Int)
  PROVE  (s \o t) \o u = s \o (t \o u)
BY ConcatAssociative

(* Part of an increasing sequence goes out of its middle or its end.       *)
LEMMA IncreasingWithout ==
  ASSUME NEW s \in Seq(Int), NEW t \in Seq(Int), NEW u \in Seq(Int),
         Increasing((s \o t) \o u)
  PROVE  /\ Increasing(s \o u) /\ Increasing(s \o t)
         /\ Numbers(s \o u) \subseteq Numbers((s \o t) \o u)
         /\ Numbers(s \o t) \subseteq Numbers((s \o t) \o u)
<1>1. s \o t \in Seq(Int) /\ Numbers(s \o t) = Numbers(s) \cup Numbers(t) BY ConcatNumbers
<1>2. Increasing(s \o t) /\ Increasing(u)
      /\ \A m \in Numbers(s \o t), n \in Numbers(u) : m < n
  BY <1>1, ConcatIncreasing
<1>3. Increasing(s) BY <1>2, ConcatIncreasing
<1>4. Increasing(s \o u) BY <1>1, <1>2, <1>3, ConcatIncreasing
<1>5. /\ Numbers(s \o u) = Numbers(s) \cup Numbers(u)
      /\ Numbers((s \o t) \o u) = Numbers(s \o t) \cup Numbers(u)
  BY <1>1, ConcatNumbers
<1> QED BY <1>1, <1>2, <1>4, <1>5

-----------------------------------------------------------------------------
(* What the invariant says of the sequences of one client.                 *)

Due(c) == IF c \in targets \cup slow THEN <<Current>> ELSE <<>>

Active(c) == pc[c] \in {"loop", "writing"} /\ ~Done(c)

LEMMA NumberSequences == Seq(Message) \subseteq Seq(Int)
<1>1. Message \subseteq Int BY HubAssumption DEF Message
<1> QED BY <1>1, SeqMonotonic

LEMMA CurrentIsLast ==
  ASSUME TypeOK, ReceivedInv, received # <<>>
  PROVE  Current \in Message /\ Current \in Numbers(received) /\ Current < next
<1>1. received \in Seq(Message) BY DEF TypeOK
<1>2. Len(received) \in DOMAIN received BY <1>1, EmptySeq
<1>3. Current \in Numbers(received) BY <1>2 DEF Current, Numbers
<1>4. Current \in Message BY <1>1, <1>2 DEF Current
<1> QED BY <1>3, <1>4 DEF ReceivedInv

LEMMA OfferTypes ==
  ASSUME TypeOK, ReceivedInv, SenderInv, NEW c \in Client
  PROVE  /\ written[c] \in Seq(Int) /\ writing[c] \in Seq(Int) /\ buffer[c] \in Seq(Int)
         /\ written[c] \o writing[c] \in Seq(Int)
         /\ HandedTo(c) \in Seq(Int) /\ Due(c) \in Seq(Int)
         /\ OfferedTo(c) = HandedTo(c) \o Due(c) /\ OfferedTo(c) \in Seq(Int)
<1>1. /\ written[c] \in Seq(Message) /\ writing[c] \in Seq(Message)
      /\ buffer[c] \in Seq(Message)
  BY DEF TypeOK
<1>2. /\ written[c] \in Seq(Int) /\ writing[c] \in Seq(Int) /\ buffer[c] \in Seq(Int)
  BY <1>1, NumberSequences
<1>3. written[c] \o writing[c] \in Seq(Int) BY <1>2, ConcatNumbers
<1>4. HandedTo(c) \in Seq(Int) BY <1>2, <1>3, ConcatNumbers DEF HandedTo
<1>5. Due(c) \in Seq(Int)
  <2>1. CASE c \in targets \cup slow
    <3>1. Current \in Message BY <2>1, CurrentIsLast DEF SenderInv
    <3>2. Current \in Int BY <3>1, HubAssumption DEF Message
    <3> QED BY <2>1, <3>2, SingleNumbers DEF Due
  <2>2. CASE ~(c \in targets \cup slow) BY <2>2, EmptyNumbers DEF Due
  <2> QED BY <2>1, <2>2
<1>6. OfferedTo(c) = HandedTo(c) \o Due(c) BY DEF OfferedTo, Due
<1> QED BY <1>2, <1>3, <1>4, <1>5, <1>6, ConcatNumbers

(* The two parts about what is handed out, one client at a time: a step    *)
(* that neither gets a message nor registers a client leaves each client's *)
(* messages alone, or takes some from a client that is leaving.            *)
OfferKept(c) ==
  /\ OfferedTo(c)' = OfferedTo(c)
  /\ Active(c)' => Active(c)

OfferCut(c) ==
  /\ Increasing(OfferedTo(c)')
  /\ Numbers(OfferedTo(c)') \subseteq Numbers(OfferedTo(c))
  /\ ~Active(c)'

LEMMA OffersPreserved ==
  ASSUME TypeOK, OfferInv, NoGapWhileConnected,
         UNCHANGED received, UNCHANGED since, next' \in Int, next <= next',
         \A c \in Client : OfferedTo(c) \in Seq(Int),
         \A c \in Client : OfferKept(c) \/ OfferCut(c)
  PROVE  OfferInv' /\ NoGapWhileConnected'
<1>1. ASSUME NEW c \in Client
      PROVE  /\ Increasing(OfferedTo(c))'
             /\ \A m \in Numbers(OfferedTo(c))' : m < next'
             /\ Active(c)' => Numbers(OfferedTo(c))' = MeantFor(c)'
  <2>1. /\ Increasing(OfferedTo(c)) /\ \A m \in Numbers(OfferedTo(c)) : m < next
        /\ Active(c) => Numbers(OfferedTo(c)) = MeantFor(c)
    BY DEF OfferInv, NoGapWhileConnected, Active
  <2>2. MeantFor(c)' = MeantFor(c) BY DEF MeantFor
  <2>3. Numbers(OfferedTo(c)) \subseteq Int BY DEF Numbers
  <2>4. next \in Int BY DEF TypeOK
  <2>5. \A m \in Numbers(OfferedTo(c)) : m < next' BY <2>1, <2>3, <2>4
  <2>6. CASE OfferKept(c) BY <2>1, <2>2, <2>5, <2>6 DEF OfferKept, Increasing, Numbers
  <2>7. CASE OfferCut(c) BY <2>5, <2>7 DEF OfferCut, Increasing, Numbers
  <2> QED BY <2>6, <2>7
<1> QED BY <1>1 DEF OfferInv, NoGapWhileConnected, Active

-----------------------------------------------------------------------------

LEMMA InitInvariant == Init => IInv
<1> SUFFICES ASSUME Init PROVE IInv OBVIOUS
<1> USE HubAssumption DEF Init
<1>1. TypeOK
  <2>1. <<>> \in Seq(Message) /\ Len(<<>>) = 0 OBVIOUS
  <2>2. Cardinality(slow) = 0 BY FS_EmptySet
  <2>3. 1 \in 1..(Len(Feed) + 1) /\ 0 \in 0..Len(Feed) OBVIOUS
  <2> QED BY <2>1, <2>2, <2>3 DEF TypeOK
<1>2. ReceivedInv BY DEF ReceivedInv, Increasing, Numbers
<1>3. \A c \in Client : HandedTo(c) = <<>> BY DEF HandedTo
<1>4. ClientInv BY <1>3 DEF ClientInv
<1>5. SenderInv BY DEF SenderInv
<1>6. \A c \in Client : OfferedTo(c) = <<>> BY <1>3 DEF OfferedTo
<1>7. OfferInv BY <1>6, EmptyNumbers DEF OfferInv
<1>8. NoGapWhileConnected BY DEF NoGapWhileConnected
<1> QED BY <1>1, <1>2, <1>4, <1>5, <1>7, <1>8 DEF IInv

(* Steps that move no message.                                             *)
LEMMA QuietInvariant ==
  ASSUME IInv, UNCHANGED <<buffer, writing, written, received, targets, slow, since>>,
         next' \in 1..(Len(Feed) + 1), next <= next',
         members' \subseteq members,
         reason' \in [Client -> Reason], told' \in [Client -> Reason],
         pc' \in [Client -> {"new", "loop", "writing", "leave", "gone"}],
         subscriber' \in {"running", "stopped"}, shutdown' \in {"no", "begun", "closed"},
         \A c \in Client : /\ pc'[c] = "new" <=> pc[c] = "new"
                           /\ pc'[c] # "writing" => writing[c] = <<>>
                           /\ Active(c)' => Active(c) /\ c \in members'
  PROVE  IInv'
<1> USE DEF IInv
<1>1. TypeOK' BY DEF TypeOK, Message
<1>2. ReceivedInv'
  <2>1. Numbers(received) \subseteq Int /\ Len(received) \in Int /\ next \in Int
    <3>1. received \in Seq(Message) BY DEF TypeOK
    <3>2. \A i \in DOMAIN received : received[i] \in Message BY <3>1
    <3> QED BY <3>1, <3>2 DEF Numbers, TypeOK, Message
  <2>2. next' \in Int BY HubAssumption
  <2>3. /\ Increasing(received) /\ Len(received) < next
        /\ \A m \in Numbers(received) : m < next
        /\ \A c \in Client : since[c] <= Len(received)
    BY DEF ReceivedInv
  <2>4. Increasing(received)' BY <2>3 DEF Increasing
  <2>5. Numbers(received)' = Numbers(received) BY DEF Numbers
  <2>6. \A m \in Numbers(received)' : m < next' BY <2>1, <2>2, <2>3, <2>5
  <2>7. Len(received') < next' BY <2>1, <2>2, <2>3
  <2> QED BY <2>3, <2>4, <2>6, <2>7 DEF ReceivedInv
<1>3. \A c \in Client : HandedTo(c)' = HandedTo(c) BY DEF HandedTo
<1>4. ClientInv' BY <1>3 DEF ClientInv, Active
<1>5. SenderInv' BY DEF SenderInv, TypeOK
<1>6. \A c \in Client : OfferedTo(c)' = OfferedTo(c) BY <1>3 DEF OfferedTo, Current
<1>7. \A c \in Client : OfferedTo(c) \in Seq(Int)
  BY OfferTypes
<1>8. next' \in Int BY HubAssumption
<1>9. OfferInv' /\ NoGapWhileConnected'
  BY <1>6, <1>7, <1>8, OffersPreserved DEF OfferKept
<1> QED BY <1>1, <1>2, <1>4, <1>5, <1>9

LEMMA DisconnectTypes ==
  ASSUME TypeOK, NEW cs, NEW why \in {"normal", "policy", "away"}
  PROVE  /\ Disconnected(cs, why) \in [Client -> Reason]
         /\ \A c \in Client : Disconnected(cs, why)[c] = "none" <=> ~Done(c) /\ c \notin cs
BY DEF TypeOK, Disconnected, Done

LEMMA ProcessInvariant ==
  ASSUME IInv, CloseAll \/ Shutdown \/ SubscriberStops \/ Miss \/ UNCHANGED vars
  PROVE  IInv'
<1> USE HubAssumption DEF IInv, vars, client, handler, channel, sender, process
<1>1. /\ next \in 1..(Len(Feed) + 1)
      /\ reason \in [Client -> Reason] /\ told \in [Client -> Reason]
      /\ pc \in [Client -> {"new", "loop", "writing", "leave", "gone"}]
      /\ subscriber \in {"running", "stopped"} /\ shutdown \in {"no", "begun", "closed"}
  BY DEF TypeOK
<1>2. \A c \in Client : /\ pc[c] # "writing" => writing[c] = <<>>
                        /\ Active(c) => c \in members
  BY DEF ClientInv, Active
<1>3. CASE CloseAll
  <2>1. \A c \in Client : Active(c)' => Active(c)
    BY <1>3, DisconnectTypes DEF CloseAll, Active, Done
  <2>2. reason' \in [Client -> Reason]
    BY <1>3, DisconnectTypes DEF CloseAll
  <2>3. UNCHANGED <<buffer, writing, written, received, targets, slow, since, next,
                    members, pc, told, subscriber>> /\ shutdown' = "closed"
    BY <1>3 DEF CloseAll
  <2>4. next <= next' BY <1>1, <2>3
  <2> QED BY <1>1, <1>2, <2>1, <2>2, <2>3, <2>4, QuietInvariant
<1>4. CASE Shutdown \/ SubscriberStops \/ Miss \/ UNCHANGED vars
  <2>1. UNCHANGED <<buffer, writing, written, received, targets, slow, since,
                    members, reason, pc, told>>
    BY <1>4 DEF Shutdown, SubscriberStops, Miss
  <2>2. next' \in 1..(Len(Feed) + 1) /\ next <= next'
    BY <1>1, <1>4 DEF Shutdown, SubscriberStops, Miss
  <2>3. subscriber' \in {"running", "stopped"} /\ shutdown' \in {"no", "begun", "closed"}
    BY <1>1, <1>4 DEF Shutdown, SubscriberStops, Miss
  <2>4. \A c \in Client : Active(c)' <=> Active(c) BY <2>1 DEF Active, Done
  <2> QED BY <1>1, <1>2, <2>1, <2>2, <2>3, <2>4, QuietInvariant
<1> QED BY <1>3, <1>4

LEMMA GoInvariant ==
  ASSUME IInv, NEW c \in Client, ConnectionEnds(c) \/ SeeDone(c) \/ Leave(c)
  PROVE  IInv'
<1> USE HubAssumption DEF IInv, client, handler, channel, sender, process
<1>1. /\ next \in 1..(Len(Feed) + 1)
      /\ reason \in [Client -> Reason] /\ told \in [Client -> Reason]
      /\ pc \in [Client -> {"new", "loop", "writing", "leave", "gone"}]
      /\ subscriber \in {"running", "stopped"} /\ shutdown \in {"no", "begun", "closed"}
  BY DEF TypeOK
<1>2. \A d \in Client : /\ pc[d] # "writing" => writing[d] = <<>>
                        /\ Active(d) => d \in members
  BY DEF ClientInv, Active
<1>3. CASE ConnectionEnds(c) \/ SeeDone(c)
  <2>1. UNCHANGED <<buffer, writing, written, received, targets, slow, since, next,
                    members, reason, subscriber, shutdown>>
    BY <1>3 DEF ConnectionEnds, SeeDone
  <2>2. pc[c] = "loop" /\ pc' = [pc EXCEPT ![c] = "leave"]
    BY <1>3 DEF ConnectionEnds, SeeDone, Goto
  <2>3. \A d \in Client : Active(d)' => Active(d) BY <1>1, <2>1, <2>2 DEF Active, Done
  <2>4. pc' \in [Client -> {"new", "loop", "writing", "leave", "gone"}] BY <1>1, <2>2
  <2>5. \A d \in Client : /\ pc'[d] = "new" <=> pc[d] = "new"
                          /\ pc'[d] # "writing" => writing[d] = <<>>
    BY <1>1, <1>2, <2>2
  <2>6. next <= next' BY <1>1, <2>1
  <2>7. told' = told \/ told' = [told EXCEPT ![c] = reason[c]]
    BY <1>3 DEF ConnectionEnds, SeeDone
  <2>8. told' \in [Client -> Reason] BY <1>1, <2>7
  <2> QED BY <1>1, <1>2, <2>1, <2>3, <2>4, <2>5, <2>6, <2>8, QuietInvariant
<1>4. CASE Leave(c)
  <2>1. UNCHANGED <<buffer, writing, written, received, targets, slow, since, next,
                    told, subscriber, shutdown>>
    BY <1>4 DEF Leave, Unregister
  <2>2. /\ members' = members \ {c} /\ reason' = Disconnected({c}, "normal")
        /\ pc[c] = "leave" /\ pc' = [pc EXCEPT ![c] = "gone"]
    BY <1>4 DEF Leave, Unregister, Goto
  <2>3. \A d \in Client : Active(d)' => Active(d) /\ d # c
    BY <1>1, <2>1, <2>2, DisconnectTypes DEF Active, Done
  <2>4. /\ pc' \in [Client -> {"new", "loop", "writing", "leave", "gone"}]
        /\ reason' \in [Client -> Reason]
    BY <1>1, <2>2, DisconnectTypes
  <2>5. \A d \in Client : /\ pc'[d] = "new" <=> pc[d] = "new"
                          /\ pc'[d] # "writing" => writing[d] = <<>>
    BY <1>1, <1>2, <2>2
  <2>6. next <= next' BY <1>1, <2>1
  <2>7. members' \subseteq members BY <2>2
  <2>8. \A d \in Client : Active(d)' => d \in members' BY <1>2, <2>2, <2>3
  <2> QED BY <1>1, <2>1, <2>3, <2>4, <2>5, <2>6, <2>7, <2>8, QuietInvariant
<1> QED BY <1>3, <1>4

(* A message that the goroutine takes out of the buffer was handed to the   *)
(* client before, and still is.                                            *)
LEMMA TakeHands ==
  ASSUME IInv, NEW c \in Client, TakeMessage(c)
  PROVE  \A d \in Client : HandedTo(d)' = HandedTo(d)
<1> USE DEF IInv, client, handler
<1>1. /\ buffer[c] # <<>> /\ pc[c] = "loop"
      /\ writing' = [writing EXCEPT ![c] = <<Head(buffer[c])>>]
      /\ buffer' = [buffer EXCEPT ![c] = Tail(buffer[c])]
      /\ UNCHANGED written
  BY DEF TakeMessage
<1>2. /\ buffer[c] \in Seq(Message) /\ Tail(buffer[c]) \in Seq(Message)
      /\ Head(buffer[c]) \in Message
      /\ Len(Tail(buffer[c])) = Len(buffer[c]) - 1
      /\ \A i \in 1..Len(Tail(buffer[c])) : Tail(buffer[c])[i] = buffer[c][i + 1]
  BY <1>1, HeadTailProperties DEF TypeOK
<1>3. writing[c] = <<>> BY <1>1 DEF ClientInv
<1>4. <<Head(buffer[c])>> \o Tail(buffer[c]) = buffer[c]
  <2>1. <<Head(buffer[c])>> \in Seq(Message) BY <1>2
  <2>2. Head(buffer[c]) = buffer[c][1] BY <1>1, <1>2
  <2> QED BY <1>2, <2>1, <2>2, ConcatProperties, SeqEqual
<1>5. written[c] \in Seq(Message) BY DEF TypeOK
<1>6. <<Head(buffer[c])>> \in Seq(Message) BY <1>2
<1>7. (written[c] \o <<Head(buffer[c])>>) \o Tail(buffer[c]) = written[c] \o buffer[c]
  <2>1. /\ written[c] \in Seq(Int) /\ <<Head(buffer[c])>> \in Seq(Int)
        /\ Tail(buffer[c]) \in Seq(Int)
    BY <1>2, <1>5, <1>6, NumberSequences
  <2>2. (written[c] \o <<Head(buffer[c])>>) \o Tail(buffer[c])
          = written[c] \o (<<Head(buffer[c])>> \o Tail(buffer[c]))
    BY <2>1, NumbersAssociative
  <2> QED BY <1>4, <2>2
<1>8. written[c] \o writing[c] = written[c] BY <1>3, <1>5, ConcatEmptySeq
<1>9. HandedTo(c)' = (written[c] \o <<Head(buffer[c])>>) \o Tail(buffer[c])
  BY <1>1 DEF HandedTo, TypeOK
<1>10. HandedTo(c) = written[c] \o buffer[c] BY <1>8 DEF HandedTo
<1>11. \A d \in Client \ {c} : HandedTo(d)' = HandedTo(d) BY <1>1 DEF HandedTo, TypeOK
<1> QED BY <1>7, <1>9, <1>10, <1>11

(* The goroutine takes a message from the buffer, and writes it.           *)
LEMMA TakeInvariant ==
  ASSUME IInv, NEW c \in Client, TakeMessage(c)
  PROVE  IInv'
<1> USE HubAssumption DEF IInv, client, handler, channel, sender, process
<1>1. /\ pc[c] = "loop" /\ buffer[c] # <<>> /\ pc' = [pc EXCEPT ![c] = "writing"]
      /\ writing' = [writing EXCEPT ![c] = <<Head(buffer[c])>>]
      /\ buffer' = [buffer EXCEPT ![c] = Tail(buffer[c])]
      /\ UNCHANGED <<members, reason, since, written, told, next, received, targets, slow,
                     subscriber, shutdown>>
  BY DEF TakeMessage, Goto
<1>2. /\ buffer[c] \in Seq(Message) /\ Tail(buffer[c]) \in Seq(Message)
      /\ Head(buffer[c]) \in Message
      /\ Len(Tail(buffer[c])) = Len(buffer[c]) - 1
      /\ \A i \in 1..Len(Tail(buffer[c])) : Tail(buffer[c])[i] = buffer[c][i + 1]
  BY <1>1, HeadTailProperties DEF TypeOK
<1>3. TypeOK'
  <2>1. writing' \in [Client -> Seq(Message)] /\ \A d \in Client : Len(writing'[d]) <= 1
    BY <1>1, <1>2 DEF TypeOK
  <2>2. buffer' \in [Client -> Seq(Message)] /\ \A d \in Client : Len(buffer'[d]) <= BufferSize
    <3>1. Len(buffer[c]) \in Int /\ Len(buffer[c]) <= BufferSize BY <1>2 DEF TypeOK
    <3>2. Len(Tail(buffer[c])) <= BufferSize BY <1>2, <3>1
    <3> QED BY <1>1, <1>2, <3>2 DEF TypeOK
  <2> QED BY <1>1, <2>1, <2>2 DEF TypeOK, Message
<1>4. ReceivedInv' BY <1>1 DEF ReceivedInv, Increasing, Numbers
<1>5. \A d \in Client : HandedTo(d)' = HandedTo(d) BY TakeHands
<1>6. ClientInv' BY <1>1, <1>5 DEF ClientInv, TypeOK, Done
<1>7. SenderInv' BY <1>1 DEF SenderInv, TypeOK
<1>8. OfferInv' /\ NoGapWhileConnected'
  <2>1. \A d \in Client : OfferedTo(d)' = OfferedTo(d) BY <1>1, <1>5 DEF OfferedTo, Current
  <2>2. \A d \in Client : Active(d)' => Active(d) BY <1>1 DEF Active, Done, TypeOK
  <2>3. \A d \in Client : OfferedTo(d) \in Seq(Int) BY OfferTypes
  <2>4. next' \in Int /\ next <= next' BY <1>1 DEF TypeOK
  <2> QED BY <1>1, <2>1, <2>2, <2>3, <2>4, OffersPreserved DEF OfferKept
<1> QED BY <1>3, <1>4, <1>6, <1>7, <1>8

LEMMA WriteHands ==
  ASSUME IInv, NEW c \in Client, Write(c)
  PROVE  \A d \in Client : HandedTo(d)' = HandedTo(d)
<1> USE DEF IInv
<1>1. /\ written' = [written EXCEPT ![c] = written[c] \o writing[c]]
      /\ writing' = [writing EXCEPT ![c] = <<>>] /\ UNCHANGED buffer
  BY DEF Write, EndWrite, WriteTo
<1>2. written[c] \o writing[c] \in Seq(Int) BY OfferTypes
<1>3. HandedTo(c)' = ((written[c] \o writing[c]) \o <<>>) \o buffer[c]
  BY <1>1 DEF HandedTo, TypeOK
<1>4. HandedTo(c)' = HandedTo(c) BY <1>2, <1>3, ConcatEmptySeq DEF HandedTo
<1>5. \A d \in Client \ {c} : HandedTo(d)' = HandedTo(d) BY <1>1 DEF HandedTo, TypeOK
<1> QED BY <1>4, <1>5

LEMMA WriteInvariant ==
  ASSUME IInv, NEW c \in Client, Write(c) \/ WriteFails(c)
  PROVE  IInv'
<1> USE HubAssumption DEF IInv, client, handler, channel, sender, process
<1>1. /\ pc[c] = "writing"
      /\ writing' = [writing EXCEPT ![c] = <<>>]
      /\ UNCHANGED <<buffer, members, reason, since, told, next, received, targets, slow,
                     subscriber, shutdown>>
  BY DEF Write, WriteFails, EndWrite
<1>2. PICK label \in {"loop", "leave"} : pc' = [pc EXCEPT ![c] = label]
  BY DEF Write, WriteFails, EndWrite, Goto
<1>3. \/ written' = [written EXCEPT ![c] = written[c] \o writing[c]]
      \/ written' = written /\ pc' = [pc EXCEPT ![c] = "leave"]
  BY DEF Write, WriteFails, EndWrite, WriteTo, Goto
<1>4. /\ written[c] \in Seq(Message) /\ writing[c] \in Seq(Message)
      /\ buffer[c] \in Seq(Message) /\ <<>> \in Seq(Message) /\ Len(<<>>) = 0
  BY DEF TypeOK
<1>5. written[c] \o writing[c] \in Seq(Message) BY <1>4, ConcatProperties
<1>6. TypeOK'
  <2>1. written' \in [Client -> Seq(Message)] BY <1>3, <1>5 DEF TypeOK
  <2>2. writing' \in [Client -> Seq(Message)] /\ \A d \in Client : Len(writing'[d]) <= 1
    BY <1>1, <1>4 DEF TypeOK
  <2> QED BY <1>1, <1>2, <2>1, <2>2 DEF TypeOK, Message
<1>7. ReceivedInv' BY <1>1 DEF ReceivedInv, Increasing, Numbers
<1>8. \A d \in Client \ {c} : HandedTo(d)' = HandedTo(d)
  BY <1>1, <1>3 DEF HandedTo, TypeOK
<1>9. ClientInv' BY <1>1, <1>2, <1>8 DEF ClientInv, TypeOK, Done
<1>10. SenderInv' BY <1>1, <1>2 DEF SenderInv, TypeOK
<1>11. \A d \in Client : OfferedTo(d) \in Seq(Int) BY OfferTypes
<1>12. \A d \in Client \ {c} : OfferKept(d)
  BY <1>1, <1>2, <1>8 DEF OfferKept, OfferedTo, Current, Active, Done, TypeOK
<1>13. OfferKept(c) \/ OfferCut(c)
  <2>1. CASE written' = [written EXCEPT ![c] = written[c] \o writing[c]]
    <3>1. HandedTo(c)' = ((written[c] \o writing[c]) \o <<>>) \o buffer[c]
      BY <1>1, <2>1 DEF HandedTo, TypeOK
    <3>2. HandedTo(c)' = HandedTo(c) BY <1>5, <3>1, ConcatEmptySeq DEF HandedTo
    <3> QED BY <1>1, <1>2, <3>2 DEF OfferKept, OfferedTo, Current, Active, Done, TypeOK
  <2>2. CASE written' = written /\ pc' = [pc EXCEPT ![c] = "leave"]
    <3>1. HandedTo(c)' = (written[c] \o <<>>) \o buffer[c]
      BY <1>1, <2>2 DEF HandedTo, TypeOK
    <3>2. HandedTo(c)' = written[c] \o buffer[c] BY <1>4, <3>1, ConcatEmptySeq
    <3>3. Due(c)' = Due(c) BY <1>1 DEF Due, Current
    <3>4. OfferedTo(c)' = (written[c] \o buffer[c]) \o Due(c)
      BY <3>2, <3>3 DEF OfferedTo, Due
    <3>5. OfferedTo(c) = ((written[c] \o writing[c]) \o buffer[c]) \o Due(c)
      BY OfferTypes DEF HandedTo
    <3>6. Increasing(OfferedTo(c)) BY DEF OfferInv
    <3>7. /\ written[c] \in Seq(Int) /\ writing[c] \in Seq(Int) /\ buffer[c] \in Seq(Int)
          /\ Due(c) \in Seq(Int) /\ written[c] \o writing[c] \in Seq(Int)
      BY OfferTypes
    <3>8. buffer[c] \o Due(c) \in Seq(Int) BY <3>7, ConcatNumbers
    <3>9. OfferedTo(c) = (written[c] \o writing[c]) \o (buffer[c] \o Due(c))
      BY <3>5, <3>7, NumbersAssociative
    <3>10. OfferedTo(c)' = written[c] \o (buffer[c] \o Due(c))
      BY <3>4, <3>7, NumbersAssociative
    <3>11. Increasing((written[c] \o writing[c]) \o (buffer[c] \o Due(c)))
      BY <3>6, <3>9
    <3>12. /\ Increasing(written[c] \o (buffer[c] \o Due(c)))
           /\ Numbers(written[c] \o (buffer[c] \o Due(c)))
                \subseteq Numbers((written[c] \o writing[c]) \o (buffer[c] \o Due(c)))
      BY <3>7, <3>8, <3>11, IncreasingWithout
    <3>13. /\ Increasing(OfferedTo(c)')
           /\ Numbers(OfferedTo(c)') \subseteq Numbers(OfferedTo(c))
      BY <3>9, <3>10, <3>12
    <3>14. ~Active(c)' BY <2>2 DEF Active, TypeOK
    <3> QED BY <3>13, <3>14 DEF OfferCut
  <2> QED BY <1>3, <2>1, <2>2
<1>14. OfferInv' /\ NoGapWhileConnected'
  <2>1. next' \in Int /\ next <= next' BY <1>1 DEF TypeOK
  <2> QED BY <1>1, <1>11, <1>12, <1>13, <2>1, OffersPreserved
<1> QED BY <1>6, <1>7, <1>9, <1>10, <1>14

LEMMA RegisterInvariant ==
  ASSUME IInv, NEW c \in Client, Register(c)
  PROVE  IInv'
<1> USE HubAssumption DEF IInv, channel, sender, process
<1>1. /\ pc[c] = "new" /\ pc' = [pc EXCEPT ![c] = "loop"]
      /\ members' = members \cup {c}
      /\ since' = [since EXCEPT ![c] = Len(received)]
      /\ UNCHANGED <<reason, buffer, writing, written, told, next, received, targets, slow,
                     subscriber, shutdown>>
  BY DEF Register, Goto
<1>2. received \in Seq(Message) /\ Len(received) \in Nat /\ next \in 1..(Len(Feed) + 1)
  BY DEF TypeOK
<1>3. Len(received) \in 0..Len(Feed) BY <1>2 DEF ReceivedInv
<1>4. TypeOK'
  <2>1. since' \in [Client -> 0..Len(Feed)] BY <1>1, <1>3 DEF TypeOK
  <2> QED BY <1>1, <2>1 DEF TypeOK, Message
<1>5. ReceivedInv'
  <2>1. \A d \in Client : since'[d] <= Len(received')
    <3>1. Len(received) <= Len(received) BY <1>2
    <3> QED BY <1>1, <3>1 DEF ReceivedInv, TypeOK
  <2> QED BY <1>1, <2>1 DEF ReceivedInv, Increasing, Numbers
<1>6. \A d \in Client : HandedTo(d)' = HandedTo(d) BY <1>1 DEF HandedTo
<1>7. ClientInv' BY <1>1, <1>6 DEF ClientInv, TypeOK, Done
<1>8. SenderInv' BY <1>1 DEF SenderInv, TypeOK
<1>9. \A d \in Client : OfferedTo(d)' = OfferedTo(d) BY <1>1, <1>6 DEF OfferedTo, Current
<1>10. OfferInv' BY <1>1, <1>9 DEF OfferInv, Increasing, Numbers
<1>11. ASSUME NEW d \in Client, Active(d)'
       PROVE  Numbers(OfferedTo(d))' = MeantFor(d)'
  <2>1. Numbers(OfferedTo(d))' = Numbers(OfferedTo(d)) BY <1>9 DEF Numbers
  <2>2. CASE d = c
    <3>1. HandedTo(c) = <<>> /\ c \notin targets \cup slow
      BY <1>1 DEF ClientInv, SenderInv
    <3>2. OfferedTo(c) = <<>>
      BY <3>1, ConcatEmptySeq DEF OfferedTo
    <3>3. since'[c] = Len(received) BY <1>1 DEF TypeOK
    <3>4. (since'[c] + 1)..Len(received') = {} BY <1>1, <1>2, <3>3
    <3>5. MeantFor(c)' = {} BY <3>4 DEF MeantFor
    <3> QED BY <2>1, <2>2, <3>2, <3>5, EmptyNumbers
  <2>3. CASE d # c
    <3>1. Active(d) BY <1>1, <1>11, <2>3 DEF Active, Done, TypeOK
    <3>2. since'[d] = since[d] BY <1>1, <2>3 DEF TypeOK
    <3>3. MeantFor(d)' = MeantFor(d) BY <1>1, <3>2 DEF MeantFor
    <3> QED BY <2>1, <3>1, <3>3 DEF NoGapWhileConnected, Active
  <2> QED BY <2>2, <2>3
<1>12. NoGapWhileConnected' BY <1>10, <1>11 DEF NoGapWhileConnected, OfferInv, Active
<1> QED BY <1>4, <1>5, <1>7, <1>8, <1>10, <1>12

(* A message that comes in is one more for the clients of its account.     *)
LEMMA MeantForGrows ==
  ASSUME IInv, Receive, NEW c \in Client, NEW m
  PROVE  m \in MeantFor(c)' <=>
           m \in MeantFor(c) \/ (m = next /\ Feed[next] = AccountOf[c])
<1> USE DEF IInv, client
<1>1. received' = Append(received, next) /\ next' = next + 1 /\ UNCHANGED since
  BY DEF Receive
<1>2. /\ received \in Seq(Message) /\ Len(received) \in Nat /\ next \in Message
  BY HubAssumption DEF TypeOK, Message, Receive
<1>3. /\ received' \in Seq(Message) /\ Len(received') = Len(received) + 1
      /\ received' # <<>> /\ received'[Len(received')] = next
      /\ \A i \in DOMAIN received : received'[i] = received[i]
  BY <1>1, <1>2, AppendProperties
<1>4. since'[c] = since[c] /\ since[c] \in Nat /\ since[c] <= Len(received)
  BY <1>1 DEF TypeOK, ReceivedInv
<1>5. \A i : i \in (since'[c] + 1)..Len(received') <=>
        i \in (since[c] + 1)..Len(received) \/ i = Len(received')
  BY <1>2, <1>3, <1>4
<1>6. \A i \in (since[c] + 1)..Len(received) : received'[i] = received[i]
  <2>1. \A i \in (since[c] + 1)..Len(received) : i \in 1..Len(received) BY <1>2, <1>4
  <2>2. DOMAIN received = 1..Len(received) BY <1>2
  <2> QED BY <1>3, <2>1, <2>2
<1>7. m \in {received'[i] : i \in (since'[c] + 1)..Len(received')} <=>
        m \in {received[i] : i \in (since[c] + 1)..Len(received)} \/ m = next
  <2>1. Len(received') \in (since'[c] + 1)..Len(received') /\ received'[Len(received')] = next
    BY <1>2, <1>3, <1>4
  <2>2. ASSUME m = next
        PROVE  m \in {received'[i] : i \in (since'[c] + 1)..Len(received')}
    BY <2>1, <2>2
  <2>3. ASSUME NEW i \in (since[c] + 1)..Len(received), m = received[i]
        PROVE  m \in {received'[j] : j \in (since'[c] + 1)..Len(received')}
    BY <1>5, <1>6, <2>3
  <2>4. ASSUME NEW i \in (since'[c] + 1)..Len(received'), m = received'[i]
        PROVE  m \in {received[j] : j \in (since[c] + 1)..Len(received)} \/ m = next
    BY <1>3, <1>5, <1>6, <2>4
  <2> QED BY <2>2, <2>3, <2>4
<1>8. m \in MeantFor(c)' <=>
        /\ m \in {received'[i] : i \in (since'[c] + 1)..Len(received')}
        /\ Feed[m] = AccountOf[c]
  BY DEF MeantFor
<1> QED BY <1>7, <1>8 DEF MeantFor

(* A message comes in.                                                     *)
LEMMA ReceiveInvariant ==
  ASSUME IInv, Receive
  PROVE  IInv'
<1> USE HubAssumption DEF IInv, client, handler, process
<1>1. /\ targets = {} /\ slow = {} /\ next <= Len(Feed)
      /\ received' = Append(received, next) /\ next' = next + 1
      /\ targets' = {c \in members : AccountOf[c] = Feed[next]}
      /\ UNCHANGED <<members, reason, since, buffer, pc, writing, written, told, slow,
                     subscriber, shutdown>>
  BY DEF Receive, Waiting
<1>2. /\ received \in Seq(Message) /\ Len(received) \in Nat
      /\ next \in Message /\ next \in Int /\ next' \in 1..(Len(Feed) + 1)
  BY <1>1 DEF TypeOK, Message
<1>3. /\ received' \in Seq(Message) /\ Len(received') = Len(received) + 1
      /\ received' # <<>> /\ received'[Len(received')] = next
      /\ \A i \in DOMAIN received : received'[i] = received[i]
  BY <1>1, <1>2, AppendProperties
<1>4. TypeOK'
  <2>1. targets' \subseteq Client BY <1>1 DEF TypeOK
  <2> QED BY <1>1, <1>2, <1>3, <2>1 DEF TypeOK, Message
<1>5. received \in Seq(Int) /\ received' = received \o <<next>>
  BY <1>1, <1>2, NumberSequences, AppendIsConcat
<1>6. /\ <<next>> \in Seq(Int) /\ Numbers(<<next>>) = {next} /\ Increasing(<<next>>)
  BY <1>2, SingleNumbers
<1>7. ReceivedInv'
  <2>1. Increasing(received')
    BY <1>5, <1>6, ConcatIncreasing DEF ReceivedInv
  <2>2. Numbers(received') = Numbers(received) \cup {next} BY <1>5, <1>6, ConcatNumbers
  <2>3. Numbers(received) \subseteq Int BY <1>5 DEF Numbers
  <2>4. \A m \in Numbers(received') : m < next'
    BY <1>1, <1>2, <2>2, <2>3 DEF ReceivedInv
  <2>5. Len(received') < next' BY <1>1, <1>2, <1>3 DEF ReceivedInv
  <2>6. \A c \in Client : since'[c] <= Len(received')
    BY <1>1, <1>2, <1>3 DEF ReceivedInv, TypeOK
  <2>7. Increasing(received)' BY <2>1 DEF Increasing
  <2>8. \A m \in Numbers(received)' : m < next' BY <2>4 DEF Numbers
  <2> QED BY <2>5, <2>6, <2>7, <2>8 DEF ReceivedInv
<1>8. \A c \in Client : HandedTo(c)' = HandedTo(c) BY <1>1 DEF HandedTo
<1>9. ClientInv' BY <1>1, <1>8 DEF ClientInv, Done
<1>10. SenderInv' BY <1>1, <1>3 DEF SenderInv, ClientInv, TypeOK
<1>11. ASSUME NEW c \in Client
       PROVE  /\ Increasing(OfferedTo(c))'
              /\ \A m \in Numbers(OfferedTo(c))' : m < next'
              /\ Active(c)' => Numbers(OfferedTo(c))' = MeantFor(c)'
  <2>1. HandedTo(c) \in Seq(Int) BY OfferTypes
  <2>2. OfferedTo(c) = HandedTo(c)
    BY <1>1, <2>1, ConcatEmptySeq DEF OfferedTo
  <2>3. /\ Increasing(HandedTo(c)) /\ \A m \in Numbers(HandedTo(c)) : m < next
        /\ Active(c) => Numbers(HandedTo(c)) = MeantFor(c)
    BY <2>2 DEF OfferInv, NoGapWhileConnected, Active
  <2>4. Numbers(HandedTo(c)) \subseteq Int BY <2>1 DEF Numbers
  <2>5. Current' = next BY <1>3 DEF Current
  <2>6. ASSUME NEW m PROVE m \in MeantFor(c)' <=>
          m \in MeantFor(c) \/ (m = next /\ Feed[next] = AccountOf[c])
    BY MeantForGrows
  <2>7. CASE c \in targets'
    <3>1. OfferedTo(c)' = HandedTo(c) \o <<next>> BY <1>8, <2>5, <2>7 DEF OfferedTo
    <3>2. Increasing(HandedTo(c) \o <<next>>)
      BY <1>6, <2>1, <2>3, ConcatIncreasing
    <3>3. Numbers(HandedTo(c) \o <<next>>) = Numbers(HandedTo(c)) \cup {next}
      BY <1>6, <2>1, ConcatNumbers
    <3>4. \A m \in Numbers(HandedTo(c) \o <<next>>) : m < next'
      BY <1>1, <1>2, <2>3, <2>4, <3>3
    <3>5. AccountOf[c] = Feed[next] BY <1>1, <2>7
    <3>6. Active(c)' => Numbers(HandedTo(c) \o <<next>>) = MeantFor(c)'
      BY <1>1, <2>3, <2>6, <3>3, <3>5 DEF Active, Done
    <3> QED BY <3>1, <3>2, <3>4, <3>6 DEF Increasing, Numbers
  <2>8. CASE c \notin targets'
    <3>1. OfferedTo(c)' = HandedTo(c)
      BY <1>1, <1>8, <2>1, <2>8, ConcatEmptySeq DEF OfferedTo
    <3>2. \A m \in Numbers(HandedTo(c)) : m < next' BY <1>1, <1>2, <2>3, <2>4
    <3>3. ASSUME Active(c)' PROVE Numbers(HandedTo(c)) = MeantFor(c)'
      <4>1. Active(c) BY <1>1, <3>3 DEF Active, Done
      <4>2. c \in members BY <4>1 DEF ClientInv, Active
      <4>3. Feed[next] # AccountOf[c] BY <1>1, <2>8, <4>2
      <4> QED BY <2>3, <2>6, <4>1, <4>3
    <3> QED BY <2>3, <3>1, <3>2, <3>3 DEF Increasing, Numbers
  <2> QED BY <2>7, <2>8
<1>12. OfferInv' /\ NoGapWhileConnected'
  BY <1>11 DEF OfferInv, NoGapWhileConnected, Active
<1> QED BY <1>4, <1>7, <1>9, <1>10, <1>12

(* Send looks at a client: hands it the message, or passes over it for it  *)
(* is being disconnected, or finds it full and sees to it that it is.      *)
LEMMA SendInvariant ==
  ASSUME IInv, NEW c \in Client, Offer(c) \/ UnregisterSlow(c)
  PROVE  IInv'
<1> USE HubAssumption DEF IInv, client, handler, channel, process
<1>1. /\ UNCHANGED <<since, pc, writing, written, told, next, received, subscriber, shutdown>>
  BY DEF Offer, Hand, PassOver, FindFull, UnregisterSlow, Unregister
<1>2. ReceivedInv' BY <1>1 DEF ReceivedInv, Increasing, Numbers
<1>3. \A d \in Client : OfferedTo(d) \in Seq(Int) BY OfferTypes
<1>4. next' \in Int /\ next <= next' BY <1>1 DEF TypeOK
<1>5. ASSUME c \in targets, received # <<>>
      PROVE  Current \in Message
  BY <1>5, CurrentIsLast
<1>6. CASE slow = {} /\ Hand(c)
  <2>1. /\ c \in targets /\ HasRoom(c)
        /\ buffer' = [buffer EXCEPT ![c] = Append(buffer[c], Current)]
        /\ targets' = targets \ {c} /\ slow' = slow
        /\ UNCHANGED <<members, reason>>
    BY <1>6 DEF Hand
  <2>2. Current \in Message BY <1>5, <2>1 DEF SenderInv
  <2>3. buffer[c] \in Seq(Message) /\ Len(buffer[c]) < BufferSize
    BY <2>1 DEF TypeOK, HasRoom
  <2>4. /\ Append(buffer[c], Current) \in Seq(Message)
        /\ Len(Append(buffer[c], Current)) = Len(buffer[c]) + 1
        /\ Append(buffer[c], Current) = buffer[c] \o <<Current>>
    BY <2>2, <2>3, AppendProperties, AppendIsConcat
  <2>5. TypeOK'
    <3>1. Len(buffer[c]) + 1 <= BufferSize BY <2>3
    <3>2. buffer' \in [Client -> Seq(Message)] /\ \A d \in Client : Len(buffer'[d]) <= BufferSize
      BY <2>1, <2>4, <3>1 DEF TypeOK
    <3> QED BY <1>1, <2>1, <3>2 DEF TypeOK, Message
  <2>6. \A d \in Client \ {c} : HandedTo(d)' = HandedTo(d)
    BY <1>1, <2>1 DEF HandedTo, TypeOK
  <2>7. HandedTo(c)' = HandedTo(c) \o <<Current>>
    <3>1. buffer'[c] = buffer[c] \o <<Current>> BY <2>1, <2>4 DEF TypeOK
    <3>2. HandedTo(c)' = (written[c] \o writing[c]) \o (buffer[c] \o <<Current>>)
      BY <1>1, <3>1 DEF HandedTo
    <3>3. written[c] \o writing[c] \in Seq(Int) /\ buffer[c] \in Seq(Int) BY OfferTypes
    <3>4. <<Current>> \in Seq(Int) BY <2>2, SingleNumbers DEF Message
    <3> QED BY <3>2, <3>3, <3>4, NumbersAssociative DEF HandedTo
  <2>8. ClientInv' BY <1>1, <2>1, <2>6 DEF ClientInv, SenderInv, Done
  <2>9. SenderInv' BY <1>1, <2>1 DEF SenderInv
  <2>10. Current' = Current BY <1>1 DEF Current
  <2>11. OfferedTo(c)' = OfferedTo(c)
    <3>1. c \notin targets' \cup slow' BY <2>1 DEF SenderInv
    <3>2. HandedTo(c) \o <<Current>> \in Seq(Int)
      BY <2>2, OfferTypes, SingleNumbers, ConcatNumbers DEF Message
    <3>3. OfferedTo(c)' = HandedTo(c) \o <<Current>>
      BY <2>7, <3>1, <3>2, ConcatEmptySeq DEF OfferedTo
    <3> QED BY <2>1, <3>3 DEF OfferedTo
  <2>12. \A d \in Client \ {c} : OfferedTo(d)' = OfferedTo(d)
    BY <2>1, <2>6, <2>10 DEF OfferedTo
  <2>13. \A d \in Client : Active(d)' => Active(d) BY <1>1, <2>1 DEF Active, Done
  <2>14. \A d \in Client : OfferKept(d) BY <2>11, <2>12, <2>13 DEF OfferKept
  <2>15. OfferInv' /\ NoGapWhileConnected'
    BY <1>1, <1>3, <1>4, <2>14, OffersPreserved
  <2> QED BY <1>2, <2>5, <2>8, <2>9, <2>15
<1>7. CASE slow = {} /\ PassOver(c)
  <2>1. /\ c \in targets /\ Done(c) /\ targets' = targets \ {c} /\ slow' = slow
        /\ UNCHANGED <<members, reason, buffer>>
    BY <1>7 DEF PassOver
  <2>2. TypeOK' BY <1>1, <2>1 DEF TypeOK, Message
  <2>3. \A d \in Client : HandedTo(d)' = HandedTo(d) BY <1>1, <2>1 DEF HandedTo
  <2>4. ClientInv' BY <1>1, <2>1, <2>3 DEF ClientInv, Done
  <2>5. SenderInv' BY <1>1, <2>1 DEF SenderInv
  <2>6. \A d \in Client \ {c} : OfferKept(d)
    BY <1>1, <2>1, <2>3 DEF OfferKept, OfferedTo, Current, Active, Done
  <2>7. OfferCut(c)
    <3>1. HandedTo(c) \in Seq(Int) BY OfferTypes
    <3>2. c \notin targets' \cup slow' BY <2>1 DEF SenderInv
    <3>3. OfferedTo(c)' = HandedTo(c) BY <2>3, <3>1, <3>2, ConcatEmptySeq DEF OfferedTo
    <3>4. OfferedTo(c) = HandedTo(c) \o Due(c) /\ Due(c) \in Seq(Int) BY OfferTypes
    <3>5. Increasing(OfferedTo(c)) BY DEF OfferInv
    <3>6. Increasing(HandedTo(c)) /\ Numbers(HandedTo(c)) \subseteq Numbers(OfferedTo(c))
      BY <3>1, <3>4, <3>5, ConcatIncreasing, ConcatNumbers
    <3>7. ~Active(c)' BY <1>1, <2>1 DEF Active, Done
    <3> QED BY <3>3, <3>6, <3>7 DEF OfferCut
  <2>8. OfferInv' /\ NoGapWhileConnected'
    BY <1>1, <1>3, <1>4, <2>6, <2>7, OffersPreserved
  <2> QED BY <1>2, <2>2, <2>4, <2>5, <2>8
<1>8. CASE slow = {} /\ FindFull(c)
  <2>1. /\ c \in targets /\ targets' = targets \ {c} /\ slow' = {c}
        /\ UNCHANGED <<members, reason, buffer>>
    BY <1>8 DEF FindFull
  <2>2. Cardinality(slow') = 1 BY <2>1, FS_Singleton
  <2>3. TypeOK' BY <1>1, <2>1, <2>2 DEF TypeOK, Message
  <2>4. \A d \in Client : HandedTo(d)' = HandedTo(d) BY <1>1, <2>1 DEF HandedTo
  <2>5. ClientInv' BY <1>1, <2>1, <2>4 DEF ClientInv, Done
  <2>6. SenderInv' BY <1>1, <1>8, <2>1 DEF SenderInv
  <2>7. targets' \cup slow' = targets \cup slow BY <1>8, <2>1
  <2>8. \A d \in Client : OfferKept(d)
    BY <1>1, <2>1, <2>4, <2>7 DEF OfferKept, OfferedTo, Current, Active, Done
  <2>9. OfferInv' /\ NoGapWhileConnected'
    BY <1>1, <1>3, <1>4, <2>8, OffersPreserved
  <2> QED BY <1>2, <2>3, <2>5, <2>6, <2>9
<1>9. CASE UnregisterSlow(c)
  <2>1. /\ c \in slow /\ slow' = {} /\ targets' = targets
        /\ members' = members \ {c} /\ reason' = Disconnected({c}, "policy")
        /\ buffer' = buffer
    BY <1>9 DEF UnregisterSlow, Unregister
  <2>2. Cardinality(slow') = 0 BY <2>1, FS_EmptySet
  <2>3. /\ reason' \in [Client -> Reason]
        /\ \A d \in Client : Done(d)' <=> Done(d) \/ d = c
    BY <2>1, DisconnectTypes DEF Done
  <2>4. TypeOK'
    <3>1. members' \subseteq Client /\ slow' \subseteq Client /\ Cardinality(slow') <= 1
      BY <2>1, <2>2 DEF TypeOK
    <3> QED BY <1>1, <2>1, <2>3, <3>1 DEF TypeOK, Message
  <2>5. \A d \in Client : HandedTo(d)' = HandedTo(d) BY <1>1, <2>1 DEF HandedTo
  <2>6. ClientInv' BY <1>1, <2>1, <2>3, <2>5 DEF ClientInv
  <2>7. SenderInv' BY <1>1, <2>1 DEF SenderInv
  <2>8. slow = {c} BY <2>1 DEF SenderInv
  <2>9. \A d \in Client \ {c} : OfferKept(d)
    BY <1>1, <2>1, <2>3, <2>5, <2>8 DEF OfferKept, OfferedTo, Current, Active
  <2>10. OfferCut(c)
    <3>1. HandedTo(c) \in Seq(Int) BY OfferTypes
    <3>2. c \notin targets' \cup slow' BY <2>1 DEF SenderInv
    <3>3. OfferedTo(c)' = HandedTo(c) BY <2>5, <3>1, <3>2, ConcatEmptySeq DEF OfferedTo
    <3>4. OfferedTo(c) = HandedTo(c) \o Due(c) /\ Due(c) \in Seq(Int) BY OfferTypes
    <3>5. Increasing(OfferedTo(c)) BY DEF OfferInv
    <3>6. Increasing(HandedTo(c)) /\ Numbers(HandedTo(c)) \subseteq Numbers(OfferedTo(c))
      BY <3>1, <3>4, <3>5, ConcatIncreasing, ConcatNumbers
    <3>7. ~Active(c)' BY <2>3 DEF Active
    <3> QED BY <3>3, <3>6, <3>7 DEF OfferCut
  <2>11. OfferInv' /\ NoGapWhileConnected'
    BY <1>1, <1>3, <1>4, <2>9, <2>10, OffersPreserved
  <2> QED BY <1>2, <2>4, <2>6, <2>7, <2>11
<1> QED BY <1>6, <1>7, <1>8, <1>9 DEF Offer

-----------------------------------------------------------------------------

(* Every reachable state of the hub, its connections and its subscriber    *)
(* satisfies the invariant.                                                *)
THEOREM Invariant == Spec => []IInv
<1>1. IInv /\ [Next]_vars => IInv'
  <2> SUFFICES ASSUME IInv, [Next]_vars PROVE IInv' OBVIOUS
  <2>1. CASE CloseAll \/ Shutdown \/ SubscriberStops \/ Miss \/ UNCHANGED vars
    BY <2>1, ProcessInvariant
  <2>2. CASE Receive BY <2>2, ReceiveInvariant
  <2>3. ASSUME NEW c \in Client, Register(c) PROVE IInv' BY <2>3, RegisterInvariant
  <2>4. ASSUME NEW c \in Client, TakeMessage(c) PROVE IInv' BY <2>4, TakeInvariant
  <2>5. ASSUME NEW c \in Client, Write(c) \/ WriteFails(c) PROVE IInv'
    BY <2>5, WriteInvariant
  <2>6. ASSUME NEW c \in Client, ConnectionEnds(c) \/ SeeDone(c) \/ Leave(c) PROVE IInv'
    BY <2>6, GoInvariant
  <2>7. ASSUME NEW c \in Client, Offer(c) \/ UnregisterSlow(c) PROVE IInv'
    BY <2>7, SendInvariant
  <2> QED BY <2>1, <2>2, <2>3, <2>4, <2>5, <2>6, <2>7 DEF Next, Handle, Sending
<1> QED BY <1>1, InitInvariant, PTL DEF Spec

(* The state of the hub has its types: no buffer is ever over its size.    *)
THEOREM TypeCorrect == Spec => []TypeOK
BY Invariant, PTL DEF IInv

(* Whatever clients come, go, are slow or are being disconnected, one that *)
(* is connected and not being disconnected has every message of its        *)
(* account since it registered, or gets it from Send next (hub.go, Send).  *)
THEOREM NothingMissed == Spec => []NoGapWhileConnected
BY Invariant, PTL DEF IInv

(* A connection is written messages in the order of the channel, each at   *)
(* most once, also one that is being disconnected meanwhile.               *)
THEOREM InOrder == Spec => []WrittenInOrder
<1>1. IInv => WrittenInOrder
  <2> SUFFICES ASSUME IInv, NEW c \in Client PROVE Increasing(written[c])
    BY DEF WrittenInOrder
  <2>1. /\ written[c] \in Seq(Int) /\ writing[c] \in Seq(Int) /\ buffer[c] \in Seq(Int)
        /\ written[c] \o writing[c] \in Seq(Int)
        /\ HandedTo(c) \in Seq(Int) /\ Due(c) \in Seq(Int)
        /\ OfferedTo(c) = HandedTo(c) \o Due(c)
    BY OfferTypes DEF IInv
  <2>2. Increasing(OfferedTo(c)) BY DEF IInv, OfferInv
  <2>3. Increasing(HandedTo(c)) BY <2>1, <2>2, ConcatIncreasing
  <2>4. Increasing(written[c] \o writing[c]) BY <2>1, <2>3, ConcatIncreasing DEF HandedTo
  <2> QED BY <2>1, <2>4, ConcatIncreasing
<1> QED BY <1>1, Invariant, PTL
-----------------------------------------------------------------------------
(* The reasons.                                                            *)

LEMMA ReasonStep ==
  ASSUME IInv, ReasonInv, [Next]_vars
  PROVE  ReasonInv'
<1> USE DEF IInv, vars, client, handler, channel, sender, process
<1>1. /\ reason \in [Client -> Reason] /\ told \in [Client -> Reason]
      /\ pc \in [Client -> {"new", "loop", "writing", "leave", "gone"}]
  BY DEF TypeOK
<1>2. CASE CloseAll
  BY <1>1, <1>2 DEF CloseAll, Disconnected, Done, ReasonInv, ClientInv
<1>3. CASE Shutdown \/ SubscriberStops \/ Miss \/ UNCHANGED vars
  BY <1>3 DEF Shutdown, SubscriberStops, Miss, Done, ReasonInv
<1>4. CASE Receive
  BY <1>4 DEF Receive, Waiting, Done, ReasonInv
<1>5. ASSUME NEW c \in Client, Register(c) PROVE ReasonInv'
  BY <1>1, <1>5 DEF Register, Goto, Done, ReasonInv
<1>6. ASSUME NEW c \in Client, TakeMessage(c) \/ Write(c) \/ WriteFails(c)
      PROVE  ReasonInv'
  BY <1>1, <1>6 DEF TakeMessage, Write, WriteFails, EndWrite, Goto, Done, ReasonInv
<1>7. ASSUME NEW c \in Client, ConnectionEnds(c) \/ SeeDone(c) PROVE ReasonInv'
  BY <1>1, <1>7 DEF ConnectionEnds, SeeDone, Goto, Done, ReasonInv
<1>8. ASSUME NEW c \in Client, Leave(c) PROVE ReasonInv'
  BY <1>1, <1>8 DEF Leave, Unregister, Disconnected, Goto, Done, ReasonInv
<1>9. ASSUME NEW c \in Client, Offer(c) PROVE ReasonInv'
  BY <1>9 DEF Offer, Hand, PassOver, FindFull, Done, ReasonInv
<1>10. ASSUME NEW c \in Client, UnregisterSlow(c) PROVE ReasonInv'
  BY <1>1, <1>10
     DEF UnregisterSlow, Unregister, Disconnected, Done, ReasonInv, SenderInv
<1> QED
  BY <1>2, <1>3, <1>4, <1>5, <1>6, <1>7, <1>8, <1>9, <1>10 DEF Next, Handle, Sending

(* A client that was cut short stays so while nothing is handed to it: the *)
(* messages that come in later are after the one that it lost.             *)
LEMMA StaysCutShort ==
  ASSUME IInv, NEW c \in Client, CutShort(c), HandedTo(c)' = HandedTo(c),
         Receive \/ UNCHANGED <<received, since>>
  PROVE  CutShort(c)'
<1>1. Numbers(HandedTo(c))' = Numbers(HandedTo(c)) BY DEF Numbers
<1>2. PICK lost \in MeantFor(c) : Numbers(HandedTo(c)) = {m \in MeantFor(c) : m < lost}
  BY DEF CutShort
<1>3. CASE UNCHANGED <<received, since>>
  <2>1. MeantFor(c)' = MeantFor(c) BY <1>3 DEF MeantFor
  <2> QED BY <1>1, <1>2, <2>1 DEF CutShort
<1>4. CASE Receive
  <2>1. \A m : m \in MeantFor(c)' <=>
          m \in MeantFor(c) \/ (m = next /\ Feed[next] = AccountOf[c])
    BY <1>4, MeantForGrows
  <2>2. lost < next /\ lost \in Int /\ next \in Int
    <3>1. received \in Seq(Message) /\ since[c] \in Nat /\ next \in Int
      BY DEF IInv, TypeOK
    <3>2. PICK i \in (since[c] + 1)..Len(received) : lost = received[i] BY DEF MeantFor
    <3>3. i \in DOMAIN received BY <3>1, <3>2
    <3>4. lost \in Numbers(received) /\ lost \in Message BY <3>1, <3>2, <3>3 DEF Numbers
    <3> QED BY <3>1, <3>4, HubAssumption DEF IInv, ReceivedInv, Message
  <2>3. ~(next < lost) BY <2>2
  <2>4. lost \in MeantFor(c)' BY <2>1
  <2>5. {m \in MeantFor(c)' : m < lost} = {m \in MeantFor(c) : m < lost} BY <2>1, <2>3
  <2> QED BY <1>1, <1>2, <2>4, <2>5 DEF CutShort
<1> QED BY <1>3, <1>4

(* A client that Send finds full and unregisters misses the message that   *)
(* Send is at, and has been handed all that came before.                   *)
LEMMA SlowIsCutShort ==
  ASSUME IInv, NEW c \in slow, Active(c)
  PROVE  CutShort(c)
<1> USE DEF IInv
<1>1. c \in Client BY DEF TypeOK
<1>2. HandedTo(c) \in Seq(Int) BY <1>1, OfferTypes
<1>3. OfferedTo(c) = HandedTo(c) \o <<Current>> BY DEF OfferedTo
<1>4. Current \in Int
  BY <1>1, CurrentIsLast, HubAssumption DEF SenderInv, Message
<1>5. <<Current>> \in Seq(Int) /\ Numbers(<<Current>>) = {Current} BY <1>4, SingleNumbers
<1>6. Numbers(OfferedTo(c)) = MeantFor(c) /\ Increasing(OfferedTo(c))
  BY <1>1 DEF NoGapWhileConnected, Active
<1>7. MeantFor(c) = Numbers(HandedTo(c)) \cup {Current}
  BY <1>2, <1>3, <1>5, <1>6, ConcatNumbers
<1>8. \A m \in Numbers(HandedTo(c)) : m < Current
  BY <1>2, <1>3, <1>5, <1>6, ConcatIncreasing
<1>9. ~(Current < Current) BY <1>4
<1>10. Numbers(HandedTo(c)) = {m \in MeantFor(c) : m < Current} BY <1>7, <1>8, <1>9
<1> QED BY <1>7, <1>10 DEF CutShort

LEMMA CutStep ==
  ASSUME IInv, ReasonInv, CutInv, [Next]_vars
  PROVE  CutInv'
<1> USE DEF IInv, vars, client, handler, channel, sender, process
<1>1. /\ reason \in [Client -> Reason] /\ told \in [Client -> Reason]
      /\ pc \in [Client -> {"new", "loop", "writing", "leave", "gone"}]
  BY DEF TypeOK
<1>2. ASSUME NEW c \in Client, Slow(c), HandedTo(c)' = HandedTo(c),
             Receive \/ UNCHANGED <<received, since>>
      PROVE  CutShort(c)'
  BY <1>2, StaysCutShort DEF CutInv
<1>3. CASE CloseAll \/ Shutdown \/ SubscriberStops \/ Miss \/ Receive \/ UNCHANGED vars
  <2>1. UNCHANGED <<buffer, writing, written, pc, told>>
        /\ (Receive \/ UNCHANGED <<received, since>>)
    BY <1>3 DEF CloseAll, Shutdown, SubscriberStops, Miss, Receive
  <2>2. reason' = reason \/ reason' = Disconnected(members, "away")
    BY <1>3 DEF CloseAll, Shutdown, SubscriberStops, Miss, Receive
  <2>3. \A c \in Client : HandedTo(c)' = HandedTo(c) BY <2>1 DEF HandedTo
  <2>4. \A c \in Client : Slow(c)' => Slow(c) BY <1>1, <2>1, <2>2 DEF Slow, Disconnected, Done
  <2> QED BY <1>2, <2>1, <2>3, <2>4 DEF CutInv
<1>4. ASSUME NEW c \in Client, Register(c) PROVE CutInv'
  <2>1. ASSUME NEW d \in Client, Slow(d)' PROVE d # c /\ Slow(d)
    BY <1>1, <1>4, <2>1 DEF Register, Goto, Slow, ReasonInv, Done
  <2>2. ASSUME NEW d \in Client, d # c PROVE MeantFor(d)' = MeantFor(d)
    BY <1>4, <2>2 DEF Register, MeantFor, TypeOK
  <2>3. \A d \in Client : HandedTo(d)' = HandedTo(d) BY <1>4 DEF Register, HandedTo
  <2>4. \A d \in Client : Numbers(HandedTo(d))' = Numbers(HandedTo(d))
    BY <2>3 DEF Numbers
  <2> QED BY <2>1, <2>2, <2>4 DEF CutInv, CutShort
<1>5. ASSUME NEW c \in Client, TakeMessage(c) \/ Write(c) PROVE CutInv'
  <2>1. UNCHANGED <<received, since, reason, told>>
        /\ pc' = [pc EXCEPT ![c] = pc'[c]] /\ pc[c] \in {"loop", "writing"}
    BY <1>1, <1>5 DEF TakeMessage, Write, EndWrite, Goto
  <2>2. \A d \in Client : Slow(d)' => Slow(d) BY <1>1, <2>1 DEF Slow
  <2>3. \A d \in Client : HandedTo(d)' = HandedTo(d) BY <1>5, TakeHands, WriteHands
  <2> QED BY <1>2, <2>1, <2>2, <2>3 DEF CutInv
<1>6. ASSUME NEW c \in Client, WriteFails(c) PROVE CutInv'
  <2>1. /\ UNCHANGED <<received, since, reason, told, buffer>> /\ pc[c] = "writing"
        /\ pc' = [pc EXCEPT ![c] = "leave"] /\ writing' = [writing EXCEPT ![c] = <<>>]
        /\ written' = written \/ written' = [written EXCEPT ![c] = written[c] \o writing[c]]
    BY <1>6 DEF WriteFails, EndWrite, WriteTo, Goto
  <2>2. told[c] = "none" BY <2>1 DEF ReasonInv
  <2>3. ASSUME NEW d \in Client, Slow(d)' PROVE d # c /\ Slow(d)
    BY <1>1, <2>1, <2>2, <2>3 DEF Slow
  <2>4. \A d \in Client \ {c} : HandedTo(d)' = HandedTo(d)
    BY <2>1 DEF HandedTo, TypeOK
  <2> QED BY <1>2, <2>1, <2>3, <2>4 DEF CutInv
<1>7. ASSUME NEW c \in Client, ConnectionEnds(c) \/ SeeDone(c) \/ Leave(c) PROVE CutInv'
  <2>1. UNCHANGED <<received, since, buffer, writing, written>>
    BY <1>7 DEF ConnectionEnds, SeeDone, Leave, Unregister
  <2>2. \A d \in Client : HandedTo(d)' = HandedTo(d) BY <2>1 DEF HandedTo
  <2>3. \A d \in Client : Slow(d)' => Slow(d)
    BY <1>1, <1>7
       DEF ConnectionEnds, SeeDone, Leave, Unregister, Disconnected, Done, Goto, Slow
  <2> QED BY <1>2, <2>1, <2>2, <2>3 DEF CutInv
<1>8. ASSUME NEW c \in Client, Offer(c) PROVE CutInv'
  <2>1. UNCHANGED <<received, since, reason, told, pc, writing, written>> /\ c \in targets
    BY <1>8 DEF Offer, Hand, PassOver, FindFull
  <2>2. buffer' = buffer \/ buffer' = [buffer EXCEPT ![c] = Append(buffer[c], Current)]
    BY <1>8 DEF Offer, Hand, PassOver, FindFull
  <2>3. ASSUME NEW d \in Client, Slow(d)' PROVE Slow(d) /\ d # c
    BY <2>1, <2>3 DEF Slow, ReasonInv
  <2>4. \A d \in Client \ {c} : HandedTo(d)' = HandedTo(d)
    BY <2>1, <2>2 DEF HandedTo, TypeOK
  <2> QED BY <1>2, <2>1, <2>3, <2>4 DEF CutInv
<1>9. ASSUME NEW c \in Client, UnregisterSlow(c) PROVE CutInv'
  <2>1. /\ UNCHANGED <<received, since, told, pc, buffer, writing, written>> /\ c \in slow
        /\ reason' = Disconnected({c}, "policy")
    BY <1>9 DEF UnregisterSlow, Unregister
  <2>2. \A d \in Client : HandedTo(d)' = HandedTo(d) BY <2>1 DEF HandedTo
  <2>3. ASSUME NEW d \in Client, Slow(d)', ~Slow(d) PROVE d = c /\ Active(c)
    BY <1>1, <2>1, <2>3 DEF Slow, Disconnected, Done, Active, ReasonInv
  <2>4. ASSUME NEW d \in Client, Slow(d)' PROVE CutShort(d)
    BY <2>1, <2>3, <2>4, SlowIsCutShort DEF CutInv
  <2> QED BY <2>1, <2>2, <2>4, StaysCutShort DEF CutInv
<1> QED
  BY <1>3, <1>4, <1>5, <1>6, <1>7, <1>8, <1>9 DEF Next, Handle, Sending

(* What a client is told when its connection is closed is true of it: the  *)
(* slow one has lost a message and all the later ones but none before, and *)
(* nobody hears that the process stops before it does (hub.go, disconnect, *)
(* and ws.go, ServeHTTP).                                                  *)
THEOREM ReasonsAreTrue == Spec => []CloseReasonIsTrue
<1>1. Init => ReasonInv /\ CutInv
  BY DEF Init, ReasonInv, CutInv, Slow, Done
<1>2. ReasonInv /\ CutInv /\ IInv /\ [Next]_vars => (ReasonInv /\ CutInv)'
  BY ReasonStep, CutStep
<1>3. Spec => [](ReasonInv /\ CutInv)
  BY <1>1, <1>2, Invariant, PTL DEF Spec
<1>4. ReasonInv /\ CutInv => CloseReasonIsTrue
  BY DEF ReasonInv, CutInv, Slow, CloseReasonIsTrue
<1> QED BY <1>3, <1>4, PTL
=============================================================================
