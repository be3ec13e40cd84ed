------------------------- MODULE NotificationProofs --------------------------
(***************************************************************************)
(* Proofs about Notification, for every topic, every number of copies, and *)
(* all bounds on what may go wrong.                                        *)
(***************************************************************************)
EXTENDS NotificationInvariant, FiniteSetTheorems, TLAPS

USE DEF group, copies, redis, vars, Goto, SetKey, Fault, Retry, Record, NoRecord

-----------------------------------------------------------------------------
(* Sets of offsets.                                                        *)

LEMMA Least ==
  ASSUME NEW T \in SUBSET Nat, T # {}
  PROVE  \E m \in T : \A k \in T : m <= k
<1> DEFINE F == {0..k : k \in T}
<1>1. IsWellFoundedOn(StrictSubsetOrdering(Nat), FiniteSubsetsOf(Nat))
  BY FS_StrictSubsetOrderingWellFounded
<1>2. F \subseteq FiniteSubsetsOf(Nat) /\ F # {}
  <2>1. ASSUME NEW k \in T PROVE IsFiniteSet(0..k) /\ 0..k \in SUBSET Nat
    BY FS_Interval
  <2> QED BY <2>1 DEF FiniteSubsetsOf
<1>3. PICK U \in F : \A V \in F : <<V, U>> \notin StrictSubsetOrdering(Nat)
  <2> HIDE DEF F
  <2> QED BY <1>1, <1>2, WFMin
<1>4. PICK m \in T : U = 0..m
  BY <1>3
<1>5. ASSUME NEW k \in T, k < m PROVE FALSE
  <2>1. 0..k \subseteq 0..m /\ m \in 0..m /\ m \notin 0..k
    BY <1>5
  <2>2. 0..k \in F /\ 0..k \in SUBSET Nat /\ 0..m \in SUBSET Nat
    OBVIOUS
  <2>3. <<0..k, 0..m>> \in StrictSubsetOrdering(Nat)
    BY <2>1, <2>2 DEF StrictSubsetOrdering
  <2> QED BY <1>3, <1>4, <2>2, <2>3
<1> QED BY <1>5

LEMMA Greatest ==
  ASSUME NEW n \in Nat, NEW T \in SUBSET (1..n), T # {}
  PROVE  \E m \in T : \A k \in T : k <= m
<1> DEFINE U == {n - k : k \in T}
<1>1. U \in SUBSET Nat /\ U # {}
  <2>1. ASSUME NEW k \in T PROVE n - k \in Nat
    OBVIOUS
  <2> QED BY <2>1
<1>2. PICK u \in U : \A v \in U : u <= v
  BY <1>1, Least
<1>3. PICK m \in T : u = n - m
  OBVIOUS
<1>4. ASSUME NEW k \in T PROVE k <= m
  <2>1. n - m <= n - k
    BY <1>2, <1>3
  <2>2. k \in Nat /\ m \in Nat
    OBVIOUS
  <2> HIDE DEF U
  <2> QED BY <2>1, <2>2
<1> QED BY <1>4

(* Offsets from a on, without a gap, and at most n.                        *)
LEMMA Contiguous ==
  ASSUME NEW n \in Nat, NEW a \in 1..(n + 1), NEW S \in SUBSET (a..n),
         \A k \in S, j \in a..n : j < k => j \in S
  PROVE  /\ IsFiniteSet(S) /\ a + Cardinality(S) \in a..(n + 1)
         /\ S = a..(a + Cardinality(S) - 1)
<1> DEFINE T == (a..(n + 1)) \ S
<1>1. n + 1 \in T /\ T \in SUBSET Nat
  OBVIOUS
<1>2. PICK m \in T : \A k \in T : m <= k
  BY <1>1, Least
<1>3. S = a..(m - 1)
  <2>1. ASSUME NEW k \in S, k >= m PROVE FALSE
    <3>1. m \in a..n /\ m < k
      BY <2>1
    <3> QED BY <3>1
  <2>2. ASSUME NEW k \in a..(m - 1) PROVE k \in S
    BY <1>2, <2>2
  <2>3. S \subseteq a..(m - 1)
    BY <2>1
  <2> QED BY <2>2, <2>3
<1>4. IsFiniteSet(S) /\ Cardinality(S) = m - a
  BY <1>3, FS_Interval
<1> QED BY <1>3, <1>4

LEMMA RecordFacts ==
  ASSUME NEW r \in Record
  PROVE  /\ r[1] \in Partition /\ r[2] \in 1..Len(Topic[r[1]]) /\ r = <<r[1], r[2]>>
         /\ Len(Topic[r[1]]) \in Nat /\ EventOf(r) \in Event
BY TopicAssumption DEF EventOf

LEMMA IsRecord == \A r \in Record : r # NoRecord
<1> SUFFICES ASSUME NEW r \in Record, r = NoRecord PROVE FALSE
  OBVIOUS
<1>1. r = <<r[1], r[2]>>
  BY RecordFacts
<1>2. Len(r) = 2
  BY <1>1
<1>3. Len(r) = 0
  OBVIOUS
<1> QED BY <1>2, <1>3

LEMMA TopicLength == \A p \in Partition : Len(Topic[p]) \in Nat /\ DOMAIN Topic[p] = 1..Len(Topic[p])
BY TopicAssumption

(* The records of a partition that a copy polls at once.                   *)
LEMMA PolledOffsets ==
  ASSUME NEW p \in Partition, NEW a \in Offset(p), NEW polled \in SUBSET Record,
         \A r \in polled : r[1] = p => a <= r[2],
         \A r \in polled, s \in Record :
           s[1] = p /\ r[1] = p /\ a <= s[2] /\ s[2] < r[2] => s \in polled
  PROVE  LET n == Cardinality({r \in polled : r[1] = p}) IN
         /\ n \in Nat /\ a + n \in Offset(p)
         /\ \A k \in a..(a + n - 1) : <<p, k>> \in polled
<1> DEFINE P == {r \in polled : r[1] = p}
           S == {k \in a..Len(Topic[p]) : <<p, k>> \in polled}
           f == [k \in S |-> <<p, k>>]
<1>1. Len(Topic[p]) \in Nat /\ a \in 1..(Len(Topic[p]) + 1)
  BY TopicLength DEF Offset
<1>2. \A k \in 1..Len(Topic[p]) : <<p, k>> \in Record
  BY TopicLength
<1>3. \A k \in S, j \in a..Len(Topic[p]) : j < k => j \in S
  BY <1>1, <1>2
<1>4. IsFiniteSet(S) /\ a + Cardinality(S) \in a..(Len(Topic[p]) + 1)
      /\ S = a..(a + Cardinality(S) - 1)
  <2> HIDE DEF S
  <2>1. S \in SUBSET (a..Len(Topic[p]))
    BY DEF S
  <2> QED BY <1>1, <1>3, <2>1, Contiguous
<1>5. f \in Bijection(S, P)
  <2>1. f \in [S -> P]
    OBVIOUS
  <2>2. \A k, j \in S : f[k] = f[j] => k = j
    OBVIOUS
  <2>3. ASSUME NEW r \in P PROVE \E k \in S : f[k] = r
    <3>1. r = <<p, r[2]>> /\ r[2] \in S
      BY <1>1, RecordFacts
    <3> QED BY <3>1
  <2> QED BY <2>1, <2>2, <2>3 DEF Bijection, Injection, Surjection, IsInjective
<1>6. Cardinality(P) = Cardinality(S) /\ Cardinality(S) \in Nat
  BY <1>4, <1>5, FS_Bijection, FS_CardinalityType DEF ExistsBijection
<1>7. \A k \in S : <<p, k>> \in polled
  OBVIOUS
<1> HIDE DEF P, S
<1>8. LET n == Cardinality(P) IN
      /\ n \in Nat /\ a + n \in Offset(p)
      /\ \A k \in a..(a + n - 1) : <<p, k>> \in polled
  BY <1>1, <1>4, <1>6, <1>7 DEF Offset
<1> QED BY <1>8 DEF P

-----------------------------------------------------------------------------
(* The type invariant, in three parts.                                     *)

AtRecord == {"claim", "look", "publish", "mark", "skip"}

GroupOK ==
  /\ owner \in [Partition -> Copy]
  /\ position \in [Partition -> Nat] /\ committed \in [Partition -> Nat]
  /\ \A p \in Partition : position[p] \in Offset(p) /\ committed[p] \in Offset(p)
  /\ rebalances \in 0..MaxRebalances

CopiesOK ==
  /\ pc \in [Copy -> Label]
  /\ fetched \in [Copy -> SUBSET Record] /\ handled \in [Copy -> SUBSET Record]
  /\ current \in [Copy -> Record \cup {NoRecord}]
  /\ \A c \in Copy :
       IF pc[c] \in AtRecord THEN current[c] \in fetched[c] ELSE current[c] = NoRecord

RedisOK ==
  /\ key \in [Event -> {"none", "processing", "done"}]
  /\ channel \in Seq(Event)
  /\ faults \in 0..MaxFaults

LEMMA TypeParts == TypeOK <=> GroupOK /\ CopiesOK /\ RedisOK
BY DEF TypeOK, GroupOK, CopiesOK, RedisOK, AtRecord

LEMMA TypePartsNext == TypeOK' <=> GroupOK' /\ CopiesOK' /\ RedisOK'
BY TypeParts DEF TypeOK, GroupOK, CopiesOK, RedisOK, AtRecord

LEMMA NowTyped ==
  ASSUME CopiesOK, NEW c \in Copy, pc[c] \in AtRecord
  PROVE  /\ current[c] \in Record /\ current[c] \in fetched[c]
         /\ Now(c) \in Event
<1>1. current[c] \in Record /\ current[c] \in fetched[c]
  BY DEF CopiesOK
<1> QED BY <1>1, RecordFacts DEF Now

LEMMA InitTyped == Init => TypeOK
<1> SUFFICES ASSUME Init PROVE GroupOK /\ CopiesOK /\ RedisOK
  BY TypeParts
<1>1. GroupOK
  BY BoundAssumption, TopicLength DEF Init, GroupOK, Offset
<1>2. CopiesOK
  BY DEF Init, CopiesOK, AtRecord, Label
<1>3. RedisOK
  BY BoundAssumption DEF Init, RedisOK
<1> QED BY <1>1, <1>2, <1>3

LEMMA GroupKept == GroupOK /\ UNCHANGED group => GroupOK'
BY DEF GroupOK, Offset

LEMMA CopiesKept == CopiesOK /\ UNCHANGED copies => CopiesOK'
BY DEF CopiesOK

LEMMA FinishTyped ==
  ASSUME CopiesOK, NEW c \in Copy, pc[c] \in AtRecord, Finish(c)
  PROVE  CopiesOK'
<1> USE DEF CopiesOK, Finish
<1>1. current[c] \in Record
  BY DEF AtRecord
<1>2. pc' \in [Copy -> Label] /\ pc'[c] = "next"
  BY DEF Label
<1>3. fetched' \in [Copy -> SUBSET Record] /\ handled' \in [Copy -> SUBSET Record]
      /\ current' \in [Copy -> Record \cup {NoRecord}] /\ current'[c] = NoRecord
  BY <1>1
<1>4. \A d \in Copy : d # c => pc'[d] = pc[d] /\ current'[d] = current[d] /\ fetched'[d] = fetched[d]
  OBVIOUS
<1> QED BY <1>2, <1>3, <1>4 DEF AtRecord

(* A copy goes on with the record it has.                                  *)
LEMMA GotoTyped ==
  ASSUME CopiesOK, NEW c \in Copy, pc[c] \in AtRecord, NEW l \in AtRecord,
         Goto(c, l), UNCHANGED <<fetched, current, handled>>
  PROVE  CopiesOK'
BY DEF CopiesOK, AtRecord, Label

LEMMA SetKeyTyped ==
  ASSUME RedisOK, NEW e \in Event, NEW value \in {"none", "processing", "done"},
         SetKey(e, value) \/ UNCHANGED key, UNCHANGED channel, Fault \/ UNCHANGED faults
  PROVE  RedisOK'
BY BoundAssumption DEF RedisOK

LEMMA PublishTyped ==
  ASSUME RedisOK, NEW e \in Event, channel' = Append(channel, e) \/ UNCHANGED channel,
         UNCHANGED key, Fault \/ UNCHANGED faults
  PROVE  RedisOK'
<1>1. channel' \in Seq(Event)
  BY DEF RedisOK
<1> QED BY <1>1, BoundAssumption DEF RedisOK

-----------------------------------------------------------------------------
(* The offsets a copy commits.                                             *)

LEMMA OffsetCommitted ==
  ASSUME GroupOK, CopiesOK, NEW c \in Copy, NEW p \in Partition
  PROVE  \/ HandledOffsets(c)[p] = committed[p]
         \/ \E r \in handled[c] : r[1] = p /\ HandledOffsets(c)[p] = r[2] + 1
<1> DEFINE of == {r[2] : r \in {s \in handled[c] : s[1] = p}}
           top == CHOOSE o \in of : \A q \in of : q <= o
<1>1. HandledOffsets(c)[p] = IF of = {} THEN committed[p] ELSE 1 + top
  BY DEF HandledOffsets, OffsetsOf
<1>2. ASSUME of # {} PROVE \E r \in handled[c] : r[1] = p /\ 1 + top = r[2] + 1
  <2>1. handled[c] \subseteq Record /\ Len(Topic[p]) \in Nat
    BY TopicLength DEF CopiesOK
  <2>2. of \subseteq 1..Len(Topic[p])
    BY <2>1, RecordFacts
  <2>3. \E o \in of : \A q \in of : q <= o
    <3> HIDE DEF of
    <3> QED BY <1>2, <2>1, <2>2, Greatest
  <2>4. top \in of
    <3> HIDE DEF of
    <3> QED BY <2>3
  <2>5. PICK r \in handled[c] : r[1] = p /\ top = r[2]
    BY <2>4
  <2> HIDE DEF top
  <2>6. r[2] \in Nat
    BY <2>1, RecordFacts
  <2> QED BY <2>5, <2>6
<1> QED BY <1>1, <1>2

LEMMA OffsetsTyped ==
  ASSUME GroupOK, CopiesOK, NEW c \in Copy
  PROVE  /\ HandledOffsets(c) \in [Partition -> Nat]
         /\ \A p \in Partition : HandledOffsets(c)[p] \in Offset(p)
<1>1. ASSUME NEW p \in Partition PROVE HandledOffsets(c)[p] \in Offset(p)
  <2>1. CASE HandledOffsets(c)[p] = committed[p]
    BY <2>1 DEF GroupOK
  <2>2. ASSUME NEW r \in handled[c], r[1] = p, HandledOffsets(c)[p] = r[2] + 1
        PROVE  HandledOffsets(c)[p] \in Offset(p)
    <3>1. r \in Record
      BY DEF CopiesOK
    <3> QED BY <2>2, <3>1, RecordFacts DEF Offset
  <2> QED BY <2>1, <2>2, OffsetCommitted
<1>2. \A p \in Partition : Offset(p) \subseteq Nat
  BY TopicLength DEF Offset
<1>3. DOMAIN HandledOffsets(c) = Partition
      /\ HandledOffsets(c) = [p \in Partition |-> HandledOffsets(c)[p]]
  BY DEF HandledOffsets, OffsetsOf
<1> QED BY <1>1, <1>2, <1>3

-----------------------------------------------------------------------------
(* Every step keeps the types.                                             *)

(* What a copy polls, and where it polls next.                             *)
LEMMA PollResult ==
  ASSUME TypeOK, NEW c \in Copy, Poll(c)
  PROVE  /\ fetched' \in [Copy -> SUBSET Record] /\ fetched'[c] # {}
         /\ \A d \in Copy : d # c => fetched'[d] = fetched[d]
         /\ position' \in [Partition -> Nat]
         /\ \A p \in Partition :
              /\ position'[p] \in Offset(p) /\ position[p] <= position'[p]
              /\ \A k \in position[p]..(position'[p] - 1) : <<p, k>> \in fetched'[c]
         /\ \A p \in Partition : owner[p] # c => position'[p] = position[p]
         /\ \A r \in fetched'[c] :
              /\ owner[r[1]] = c
              /\ \A q \in 1..(r[2] - 1) :
                   q < position[r[1]] \/ <<r[1], q>> \in fetched'[c]
<1> DEFINE ready == {r \in Record : owner[r[1]] = c /\ position[r[1]] <= r[2]}
<1>1. PICK polled \in (SUBSET ready) \ {{}} :
         /\ \A r \in polled, s \in ready : s[1] = r[1] /\ s[2] < r[2] => s \in polled
         /\ fetched' = [fetched EXCEPT ![c] = polled]
         /\ position' = [p \in Partition |->
              position[p] + Cardinality({r \in polled : r[1] = p})]
  BY DEF Poll
<1> DEFINE n(p) == Cardinality({r \in polled : r[1] = p})
<1>2. ASSUME NEW p \in Partition
      PROVE  /\ n(p) \in Nat /\ position[p] + n(p) \in Offset(p)
             /\ \A k \in position[p]..(position[p] + n(p) - 1) : <<p, k>> \in polled
  <2>1. position[p] \in Offset(p)
    BY TypeParts DEF GroupOK
  <2>2. polled \in SUBSET Record /\ \A r \in polled : r[1] = p => position[p] <= r[2]
    OBVIOUS
  <2>3. \A r \in polled, s \in Record :
          s[1] = p /\ r[1] = p /\ position[p] <= s[2] /\ s[2] < r[2] => s \in polled
    BY <1>1
  <2> HIDE DEF ready
  <2> QED BY <2>1, <2>2, <2>3, PolledOffsets
<1>3. \A p \in Partition : position[p] \in Nat
  BY TypeParts DEF GroupOK
<1>4. ASSUME NEW p \in Partition, owner[p] # c PROVE n(p) = 0
  <2>1. {r \in polled : r[1] = p} = {}
    BY <1>4
  <2> QED BY <2>1, FS_EmptySet
<1>5. ASSUME NEW r \in polled, NEW q \in 1..(r[2] - 1), ~(q < position[r[1]])
      PROVE  <<r[1], q>> \in polled
  <2>1. r \in Record /\ owner[r[1]] = c
    OBVIOUS
  <2>2. r[1] \in Partition /\ r[2] \in 1..Len(Topic[r[1]]) /\ Len(Topic[r[1]]) \in Nat
    BY <2>1, RecordFacts
  <2>3. q \in 1..Len(Topic[r[1]]) /\ q < r[2] /\ position[r[1]] <= q
    BY <1>3, <1>5, <2>2
  <2>4. <<r[1], q>> \in ready
    BY <2>1, <2>2, <2>3, TopicLength
  <2> QED BY <1>1, <2>3, <2>4
<1>6. fetched' \in [Copy -> SUBSET Record] /\ fetched'[c] = polled
      /\ \A d \in Copy : d # c => fetched'[d] = fetched[d]
  BY <1>1, TypeParts DEF CopiesOK
<1>7. \A p \in Partition : position'[p] = position[p] + n(p)
  BY <1>1
<1>8. position' \in [Partition -> Nat]
  <2>1. position' = [p \in Partition |-> position[p] + n(p)]
    BY <1>1
  <2> HIDE DEF n
  <2> QED BY <1>2, <1>3, <2>1
<1> HIDE DEF n, ready
<1>9. polled # {} /\ \A r \in polled : owner[r[1]] = c
  BY DEF ready
<1>10. \A p \in Partition :
         /\ position'[p] \in Offset(p) /\ position[p] <= position'[p]
         /\ \A k \in position[p]..(position'[p] - 1) : <<p, k>> \in polled
  BY <1>2, <1>3, <1>7
<1>11. \A p \in Partition : owner[p] # c => position'[p] = position[p]
  BY <1>3, <1>4, <1>7
<1> QED BY <1>5, <1>6, <1>8, <1>9, <1>10, <1>11

LEMMA ConsumingTyped ==
  ASSUME TypeOK, NEW c \in Copy, Consuming(c)
  PROVE  TypeOK'
<1> USE TypeParts, TypePartsNext
<1>1. CASE Poll(c)
  <2>1. GroupOK'
    BY <1>1, PollResult DEF Poll, GroupOK, Offset
  <2>2. CopiesOK'
    BY <1>1, PollResult DEF Poll, CopiesOK, AtRecord, Label
  <2>3. RedisOK'
    BY <1>1 DEF Poll, RedisOK
  <2> QED BY <2>1, <2>2, <2>3
<1>2. CASE Take(c)
  <2>1. PICK r \in fetched[c] : current' = [current EXCEPT ![c] = r]
    BY <1>2 DEF Take
  <2>2. CopiesOK'
    BY <1>2, <2>1 DEF Take, CopiesOK, AtRecord, Label
  <2>3. GroupOK' /\ RedisOK'
    BY <1>2, GroupKept DEF Take, RedisOK
  <2> QED BY <2>2, <2>3
<1>3. CASE Commit(c) \/ CommitFails(c)
  <2>1. EndOfBatch(c)
    BY <1>3 DEF Commit, CommitFails
  <2>2. CopiesOK'
    BY <2>1 DEF EndOfBatch, CopiesOK, AtRecord, Label
  <2>3. RedisOK'
    BY <2>1 DEF EndOfBatch, RedisOK
  <2>4. committed' \in [Partition -> Nat] /\ \A p \in Partition : committed'[p] \in Offset(p)
    BY <1>3, OffsetsTyped DEF Commit, CommitFails, GroupOK
  <2>5. GroupOK'
    BY <2>1, <2>4 DEF EndOfBatch, GroupOK, Offset
  <2> QED BY <2>2, <2>3, <2>5
<1> QED BY <1>1, <1>2, <1>3 DEF Consuming

LEMMA HandlingTyped ==
  ASSUME TypeOK, NEW c \in Copy, Handling(c)
  PROVE  TypeOK'
<1> USE TypeParts, TypePartsNext
<1>1. pc[c] \in AtRecord /\ Now(c) \in Event
  <2>1. pc[c] \in AtRecord
    BY DEF Handling, NoId, Claim, Look, Publish, Mark, Skip, AtRecord
  <2> QED BY <2>1, NowTyped
<1>2. GroupOK'
  BY GroupKept DEF Handling, NoId, Claim, Look, Publish, Mark, Skip
<1>3. CASE NoId(c)
  BY <1>1, <1>2, <1>3, FinishTyped DEF NoId, RedisOK
<1>4. CASE Claim(c)
  <2>1. PICK l \in AtRecord : Goto(c, l)
    BY <1>4 DEF Claim, AtRecord
  <2>2. CopiesOK'
    BY <1>1, <1>4, <2>1, GotoTyped DEF Claim
  <2>3. RedisOK'
    BY <1>1, <1>4, SetKeyTyped DEF Claim
  <2> QED BY <1>2, <2>2, <2>3
<1>5. CASE Look(c)
  <2>1. CopiesOK'
    BY <1>1, <1>5, FinishTyped, GotoTyped DEF Look, AtRecord
  <2> QED BY <1>2, <1>5, <2>1 DEF Look, RedisOK
<1>6. CASE Publish(c)
  <2>1. CopiesOK'
    BY <1>1, <1>6, GotoTyped DEF Publish, AtRecord
  <2> QED BY <1>1, <1>2, <1>6, <2>1, PublishTyped DEF Publish
<1>7. CASE Mark(c) \/ Skip(c)
  <2>1. CopiesOK'
    BY <1>1, <1>7, FinishTyped DEF Mark, Skip
  <2> QED BY <1>1, <1>2, <1>7, <2>1, SetKeyTyped DEF Mark, Skip
<1> QED BY <1>3, <1>4, <1>5, <1>6, <1>7 DEF Handling

LEMMA CallFailsTyped ==
  ASSUME TypeOK, NEW c \in Copy, CallFails(c)
  PROVE  TypeOK'
<1> USE TypeParts, TypePartsNext
<1>1. pc[c] \in AtRecord /\ Now(c) \in Event
  <2>1. pc[c] \in AtRecord
    BY DEF CallFails, ClaimFails, PublishFails, MarkFails, SkipFails, AtRecord
  <2> QED BY <2>1, NowTyped
<1>2. GroupOK'
  BY GroupKept DEF CallFails, ClaimFails, PublishFails, MarkFails, SkipFails
<1>3. CopiesOK'
  <2>1. Retry(c) => CopiesOK'
    BY <1>1, GotoTyped DEF AtRecord
  <2> QED BY <1>1, <2>1, FinishTyped
          DEF CallFails, ClaimFails, PublishFails, MarkFails, SkipFails
<1>4. RedisOK'
  <2>1. CASE PublishFails(c)
    BY <1>1, <2>1, PublishTyped DEF PublishFails
  <2>2. CASE ClaimFails(c) \/ MarkFails(c) \/ SkipFails(c)
    BY <1>1, <2>2, SetKeyTyped DEF ClaimFails, MarkFails, SkipFails
  <2> QED BY <2>1, <2>2 DEF CallFails
<1> QED BY <1>2, <1>3, <1>4

LEMMA TypeStep == TypeOK /\ [Next]_vars => TypeOK'
<1> SUFFICES ASSUME TypeOK, [Next]_vars PROVE TypeOK'
  OBVIOUS
<1> USE TypeParts, TypePartsNext
<1>1. CASE UNCHANGED vars
  BY <1>1, GroupKept, CopiesKept DEF RedisOK
<1>2. ASSUME NEW c \in Copy, Cancel(c) \/ Crash(c) PROVE TypeOK'
  <2>1. GroupOK'
    BY <1>2, GroupKept DEF Cancel, Crash
  <2>2. pc' \in [Copy -> Label] /\ pc'[c] \notin AtRecord
        /\ \A d \in Copy : d # c => pc'[d] = pc[d]
    BY <1>2 DEF Cancel, Crash, CopiesOK, AtRecord, Label
  <2>3. CopiesOK'
    BY <1>2, <2>2 DEF Cancel, Crash, CopiesOK
  <2>4. RedisOK'
    BY <1>2, BoundAssumption DEF Cancel, Crash, RedisOK
  <2> QED BY <2>1, <2>3, <2>4
<1>3. ASSUME NEW e \in Event, LeaseExpires(e) \/ DoneExpires(e) PROVE TypeOK'
  <2>1. GroupOK' /\ CopiesOK'
    BY <1>3, GroupKept, CopiesKept DEF LeaseExpires, DoneExpires
  <2>2. RedisOK'
    BY <1>3, SetKeyTyped DEF LeaseExpires, DoneExpires
  <2> QED BY <2>1, <2>2
<1>4. ASSUME NEW p \in Partition, NEW c \in Copy, Rebalance(p, c) PROVE TypeOK'
  <2>1. committed[p] \in Nat /\ committed[p] \in Offset(p)
    BY DEF GroupOK
  <2>2. GroupOK'
    BY <1>4, <2>1, BoundAssumption DEF Rebalance, GroupOK, Offset, LatestCommit
  <2>3. CopiesOK' /\ RedisOK'
    BY <1>4, CopiesKept DEF Rebalance, RedisOK
  <2> QED BY <2>2, <2>3
<1> QED BY <1>1, <1>2, <1>3, <1>4, ConsumingTyped, HandlingTyped, CallFailsTyped DEF Next

-----------------------------------------------------------------------------
(* What is finished stays finished.                                        *)

LEMMA PublishedAppend ==
  ASSUME channel \in Seq(Event), NEW e \in Event, channel' = Append(channel, e)
  PROVE  /\ \A x : Published(x)' <=> Published(x) \/ x = e
         /\ DOMAIN channel' = 1..(Len(channel) + 1) /\ channel'[Len(channel) + 1] = e
         /\ DOMAIN channel = 1..Len(channel) /\ Len(channel) \in Nat
         /\ \A i \in 1..Len(channel) : channel'[i] = channel[i]
<1>1. /\ DOMAIN channel' = 1..(Len(channel) + 1) /\ channel'[Len(channel) + 1] = e
      /\ DOMAIN channel = 1..Len(channel) /\ Len(channel) \in Nat
      /\ \A i \in 1..Len(channel) : channel'[i] = channel[i]
  OBVIOUS
<1>2. ASSUME NEW x, Published(x)' PROVE Published(x) \/ x = e
  BY <1>1, <1>2 DEF Published
<1>3. ASSUME NEW x, Published(x) PROVE Published(x)'
  BY <1>1, <1>3 DEF Published
<1>4. Published(e)'
  BY <1>1 DEF Published
<1> QED BY <1>1, <1>2, <1>3, <1>4

Grows == \A x : Published(x) => Published(x)'

LEMMA ChannelKept == UNCHANGED channel => Grows /\ \A x : Published(x)' <=> Published(x)
BY DEF Grows, Published

LEMMA PublicationGrows ==
  ASSUME TypeOK, NEW c \in Copy, pc[c] \in AtRecord,
         channel' = Append(channel, Now(c)) \/ UNCHANGED channel
  PROVE  Grows
BY PublishedAppend, NowTyped, ChannelKept, TypeParts DEF Grows, RedisOK

LEMMA DoneGrows ==
  ASSUME Grows
  PROVE  /\ \A p, q : Done(p, q) => Done(p, q)'
         /\ \A p, n : DoneUpTo(p, n) => DoneUpTo(p, n)'
BY DEF Grows, Done, DoneUpTo

(* A copy that does not take part.                                         *)
LEMMA CopyFrame ==
  ASSUME Grows, NEW d \in Copy, BatchOf(d), WorkOf(d),
         pc'[d] = pc[d], fetched'[d] = fetched[d], handled'[d] = handled[d],
         current'[d] = current[d]
  PROVE  BatchOf(d)' /\ WorkOf(d)'
<1>1. BatchOf(d)'
  BY DoneGrows DEF BatchOf, NoGapBefore
<1>2. Now(d)' = Now(d)
  BY DEF Now, EventOf
<1>3. WorkOf(d)'
  BY <1>2, DoneGrows DEF WorkOf, Grows
<1> QED BY <1>1, <1>3

LEMMA OthersFrame ==
  ASSUME TypeOK, BatchInv, WorkInv, Grows, NEW c \in Copy, BatchOf(c)' /\ WorkOf(c)',
         \A d \in Copy : d # c =>
           /\ pc'[d] = pc[d] /\ fetched'[d] = fetched[d] /\ handled'[d] = handled[d]
           /\ current'[d] = current[d]
  PROVE  BatchInv' /\ WorkInv'
BY CopyFrame DEF BatchInv, WorkInv

LEMMA NothingMoved ==
  ASSUME BatchInv, WorkInv, Grows, UNCHANGED copies
  PROVE  BatchInv' /\ WorkInv'
BY CopyFrame DEF BatchInv, WorkInv

(* No record disappears from what a copy has polled before it is finished, *)
(* or else the copy has stopped.                                           *)
LEMMA PositionFrame ==
  ASSUME PositionInv, Grows, UNCHANGED <<owner, position>>,
         \A d \in Copy : Running(d)' =>
           Running(d) /\ \A r \in fetched[d] : r \in fetched'[d] \/ Done(r[1], r[2])',
         owner \in [Partition -> Copy]
  PROVE  PositionInv'
<1> SUFFICES ASSUME NEW p \in Partition, Running(owner[p])',
                    NEW q \in 1..(position[p] - 1)
             PROVE  Done(p, q)' \/ <<p, q>> \in fetched'[owner[p]]
  BY DEF PositionInv, NoGapBefore
<1> DEFINE d == owner[p]
<1>1. d \in Copy /\ Running(d)'
  BY DEF Running
<1>2. Done(p, q) \/ <<p, q>> \in fetched[d]
  BY <1>1 DEF PositionInv, NoGapBefore, Running
<1>3. CASE Done(p, q)
  BY <1>3, DoneGrows
<1>4. CASE <<p, q>> \in fetched[d]
  <2>1. <<p, q>> \in fetched'[d] \/ Done(<<p, q>>[1], <<p, q>>[2])'
    BY <1>1, <1>4
  <2> QED BY <2>1
<1> QED BY <1>2, <1>3, <1>4

LEMMA CommittedFrame ==
  CommittedIsNotified /\ Grows /\ UNCHANGED committed => CommittedIsNotified'
BY DEF CommittedIsNotified, Grows

LEMMA OrderFrame == NotifiedInOrder /\ UNCHANGED channel => NotifiedInOrder'
BY DEF NotifiedInOrder

LEMMA DoneFrame == DoneInv /\ Grows /\ UNCHANGED key => DoneInv'
BY DEF DoneInv, Grows

LEMMA SetKeyDone ==
  ASSUME TypeOK, DoneInv, Grows, NEW e \in Event, NEW value, SetKey(e, value),
         value = "done" => e \in Unreadable \/ Published(e)'
  PROVE  DoneInv'
<1>1. \A x \in Event : key'[x] = IF x = e THEN value ELSE key[x]
  BY TypeParts DEF RedisOK
<1> QED BY <1>1 DEF DoneInv, Grows

-----------------------------------------------------------------------------
(* The steps of a copy, as far as its own state goes.                      *)

(* A record is finished: it was the first of its partition that was not.   *)
LEMMA FinishStep ==
  ASSUME IInv, NEW c \in Copy, pc[c] \in AtRecord, Finish(c), Grows,
         UNCHANGED <<owner, position>>, NEW cur, cur = current[c], Done(cur[1], cur[2])'
  PROVE  BatchInv' /\ WorkInv' /\ PositionInv'
<1> USE TypeParts DEF IInv, ProgressInv
<1>1. cur \in Record /\ cur \in fetched[c] /\ cur # NoRecord
  BY NowTyped, IsRecord
<1>2. /\ pc'[c] = "next" /\ current'[c] = NoRecord
      /\ fetched'[c] = fetched[c] \ {cur} /\ handled'[c] = handled[c] \cup {cur}
  BY DEF Finish, CopiesOK
<1>3. \A d \in Copy : d # c =>
        /\ pc'[d] = pc[d] /\ fetched'[d] = fetched[d] /\ handled'[d] = handled[d]
        /\ current'[d] = current[d]
  BY DEF Finish, CopiesOK
<1>4. DoneUpTo(cur[1], cur[2])'
  <2>1. DoneUpTo(cur[1], cur[2] - 1)'
    BY <1>1, DoneGrows DEF WorkInv, WorkOf
  <2>2. cur[2] \in Nat
    BY <1>1, RecordFacts
  <2>3. \A q \in 1..cur[2] : q \in 1..(cur[2] - 1) \/ q = cur[2]
    BY <2>2
  <2> QED BY <2>1, <2>3 DEF DoneUpTo
<1>5. BatchOf(c) /\ fetched[c] \subseteq Record
  BY DEF BatchInv, CopiesOK
<1>6. BatchOf(c)'
  <2>1. ASSUME NEW r \in fetched'[c], NEW q \in 1..(r[2] - 1)
        PROVE  Done(r[1], q)' \/ <<r[1], q>> \in fetched'[c]
    <3>1. Done(r[1], q) \/ <<r[1], q>> \in fetched[c]
      BY <1>2, <1>5 DEF BatchOf, NoGapBefore
    <3>2. <<r[1], q>> = cur => Done(r[1], q)'
      OBVIOUS
    <3> QED BY <1>2, <3>1, <3>2, DoneGrows
  <2>2. \A r \in fetched'[c] : NoGapBefore(c, r[1], r[2])'
    BY <2>1 DEF NoGapBefore
  <2>3. \A r \in handled'[c] : DoneUpTo(r[1], r[2])'
    BY <1>2, <1>4, <1>5, DoneGrows DEF BatchOf
  <2> QED BY <1>2, <2>2, <2>3 DEF BatchOf
<1>7. WorkOf(c)'
  BY <1>2 DEF WorkOf
<1>8. PositionInv'
  <2>1. \A d \in Copy : \A r \in fetched[d] : r \in fetched'[d] \/ Done(r[1], r[2])'
    BY <1>2, <1>3
  <2>2. \A d \in Copy : Running(d)' => Running(d)
    BY <1>3 DEF Running, AtRecord
  <2> QED BY <2>1, <2>2, PositionFrame DEF GroupOK
<1> QED BY <1>3, <1>6, <1>7, <1>8, OthersFrame

(* A copy goes on with its record.                                         *)
LEMMA GotoStep ==
  ASSUME IInv, NEW c \in Copy, pc[c] \in AtRecord, NEW l \in AtRecord, Goto(c, l),
         UNCHANGED <<owner, position, fetched, current, handled>>, Grows,
         l = "publish" => Now(c) \notin Unreadable,
         l = "mark" => Published(Now(c))',
         l = "skip" => Now(c) \in Unreadable
  PROVE  BatchInv' /\ WorkInv' /\ PositionInv'
<1> USE TypeParts DEF IInv, ProgressInv
<1>1. pc'[c] = l /\ \A d \in Copy : d # c => pc'[d] = pc[d]
  BY DEF CopiesOK
<1>2. BatchOf(c)'
  BY <1>1, DoneGrows DEF BatchInv, BatchOf, NoGapBefore, AtRecord
<1>3. Now(c)' = Now(c)
  BY DEF Now, EventOf
<1>4. WorkOf(c)'
  BY <1>1, <1>3, DoneGrows DEF WorkInv, WorkOf
<1>5. \A d \in Copy : Running(d)' => Running(d)
  BY <1>1 DEF Running, AtRecord
<1>6. PositionInv'
  BY <1>5, PositionFrame DEF GroupOK
<1> QED BY <1>1, <1>2, <1>4, <1>6, OthersFrame

(* The next event of its partition is published.                           *)
LEMMA OrderStep ==
  ASSUME IInv, NEW c \in Copy, pc[c] = "publish", channel' = Append(channel, Now(c))
  PROVE  NotifiedInOrder'
<1> USE TypeParts DEF IInv, ProgressInv
<1> DEFINE cur == current[c]
<1>1. cur \in Record /\ cur \in fetched[c] /\ Now(c) \in Event
  BY NowTyped DEF AtRecord
<1>2. channel \in Seq(Event)
  BY DEF RedisOK
<1>3. /\ DOMAIN channel' = 1..(Len(channel) + 1) /\ channel'[Len(channel) + 1] = Now(c)
      /\ DOMAIN channel = 1..Len(channel) /\ Len(channel) \in Nat
      /\ \A i \in 1..Len(channel) : channel'[i] = channel[i]
  BY <1>1, <1>2, PublishedAppend
<1>4. DoneUpTo(cur[1], cur[2] - 1)
  BY <1>1, IsRecord DEF WorkInv, WorkOf
<1> SUFFICES ASSUME NEW p \in Partition, NEW o \in DOMAIN Topic[p], NEW i \in DOMAIN channel',
                    channel'[i] = Topic[p][o],
                    \A q \in 1..(o - 1) : Topic[p][q] # Topic[p][o],
                    NEW q \in 1..(o - 1), Topic[p][q] \notin Unreadable
             PROVE  \E j \in 1..(i - 1) : channel'[j] = Topic[p][q]
  BY DEF NotifiedInOrder
<1>5. CASE i \in DOMAIN channel
  <2>1. channel[i] = Topic[p][o] /\ i \in 1..Len(channel)
    BY <1>3, <1>5
  <2>2. PICK j \in 1..(i - 1) : channel[j] = Topic[p][q]
    BY <1>5, <2>1 DEF NotifiedInOrder
  <2>3. j \in 1..Len(channel)
    BY <1>3, <2>1
  <2> QED BY <1>3, <2>2, <2>3
<1>6. CASE i = Len(channel) + 1
  <2>1. Topic[p][o] = Topic[cur[1]][cur[2]]
    BY <1>3, <1>6 DEF Now, EventOf
  <2>2. cur[1] \in Partition /\ cur[2] \in DOMAIN Topic[cur[1]] /\ cur[2] \in Nat
    BY <1>1, RecordFacts, TopicLength
  <2>3. p = cur[1]
    BY <2>1, <2>2, KeyAssumption
  <2>4. o \in Nat /\ o <= cur[2]
    <3>1. o \in Nat
      BY TopicLength
    <3>2. ASSUME cur[2] < o PROVE FALSE
      <4>1. cur[2] \in 1..(o - 1)
        BY <2>2, <2>3, <3>1, <3>2, TopicLength
      <4> QED BY <2>1, <2>3, <4>1
    <3> QED BY <2>2, <3>1, <3>2
  <2>5. Done(p, q)
    BY <1>4, <2>2, <2>3, <2>4 DEF DoneUpTo
  <2>6. PICK j \in DOMAIN channel : channel[j] = Topic[p][q]
    BY <2>5 DEF Done, Published
  <2> QED BY <1>3, <1>6, <2>6
<1> QED BY <1>3, <1>5, <1>6

-----------------------------------------------------------------------------
(* Every step keeps the invariant.                                         *)

LEMMA NoRecordAtHand ==
  ASSUME CopiesOK, NEW c \in Copy, pc[c] \notin AtRecord
  PROVE  current[c] = NoRecord
BY DEF CopiesOK

(* What a copy polls next continues what was finished.                     *)
LEMMA PollInvariant ==
  ASSUME IInv, NEW c \in Copy, Poll(c)
  PROVE  ProgressInv'
<1> USE TypeParts DEF IInv, ProgressInv
<1>1. pc[c] = "poll" /\ UNCHANGED <<owner, committed, current, handled, redis>>
  BY DEF Poll
<1>2. Grows
  BY <1>1, ChannelKept
<1>3. pc'[c] = "next" /\ \A d \in Copy : d # c => pc'[d] = pc[d]
  BY DEF Poll, CopiesOK
<1>4. fetched[c] = {} /\ current[c] = NoRecord /\ BatchOf(c) /\ Running(c)
  BY <1>1, NoRecordAtHand DEF BatchInv, BatchOf, AtRecord, Running
<1>5. ASSUME NEW p \in Partition, owner[p] = c, NEW q \in 1..(position[p] - 1)
      PROVE  Done(p, q)'
  BY <1>2, <1>4, <1>5, DoneGrows DEF PositionInv, NoGapBefore
<1>6. /\ fetched' \in [Copy -> SUBSET Record]
      /\ \A d \in Copy : d # c => fetched'[d] = fetched[d]
      /\ \A p \in Partition :
           /\ position'[p] \in Offset(p) /\ position[p] <= position'[p]
           /\ \A k \in position[p]..(position'[p] - 1) : <<p, k>> \in fetched'[c]
      /\ \A p \in Partition : owner[p] # c => position'[p] = position[p]
      /\ \A r \in fetched'[c] :
           /\ owner[r[1]] = c
           /\ \A q \in 1..(r[2] - 1) :
                q < position[r[1]] \/ <<r[1], q>> \in fetched'[c]
  BY PollResult
<1>7. \A p \in Partition : position[p] \in Nat /\ position'[p] \in Nat
  BY <1>6, TopicLength DEF GroupOK, Offset
<1>8. BatchOf(c)'
  <2>1. ASSUME NEW r \in fetched'[c], NEW q \in 1..(r[2] - 1)
        PROVE  Done(r[1], q)' \/ <<r[1], q>> \in fetched'[c]
    <3>1. r \in Record
      BY <1>6
    <3>2. r[1] \in Partition /\ q \in Nat /\ q >= 1
      BY <3>1, RecordFacts
    <3>3. CASE q < position[r[1]]
      BY <1>5, <1>6, <1>7, <3>2, <3>3
    <3> QED BY <1>6, <3>3
  <2> QED BY <1>1, <1>2, <1>3, <1>4, <2>1, DoneGrows DEF BatchOf, NoGapBefore
<1>9. WorkOf(c)'
  BY <1>1, <1>3, <1>4 DEF WorkOf
<1>10. PositionInv'
  <2> SUFFICES ASSUME NEW p \in Partition, Running(owner[p])',
                      NEW q \in 1..(position'[p] - 1)
               PROVE  Done(p, q)' \/ <<p, q>> \in fetched'[owner[p]]
    BY <1>1 DEF PositionInv, NoGapBefore
  <2>1. CASE owner[p] = c
    <3>1. q \in 1..(position[p] - 1) \/ q \in position[p]..(position'[p] - 1)
      BY <1>7
    <3> QED BY <1>5, <1>6, <2>1, <3>1
  <2>2. CASE owner[p] # c
    <3>1. owner[p] \in Copy /\ position'[p] = position[p]
      BY <1>6, <2>2 DEF GroupOK
    <3>2. Running(owner[p]) /\ fetched'[owner[p]] = fetched[owner[p]]
      BY <1>1, <1>3, <1>6, <2>2, <3>1 DEF Running
    <3> QED BY <1>2, <3>1, <3>2, DoneGrows DEF PositionInv, NoGapBefore
  <2> QED BY <2>1, <2>2
<1>11. BatchInv' /\ WorkInv'
  BY <1>1, <1>2, <1>3, <1>6, <1>8, <1>9, OthersFrame
<1>12. DoneInv' /\ CommittedIsNotified' /\ NotifiedInOrder'
  BY <1>1, <1>2, DoneFrame, CommittedFrame, OrderFrame
<1> QED BY <1>10, <1>11, <1>12

LEMMA TakeInvariant ==
  ASSUME IInv, NEW c \in Copy, Take(c)
  PROVE  ProgressInv'
<1> USE TypeParts DEF IInv, ProgressInv
<1>1. UNCHANGED <<owner, position, committed, fetched, handled, redis>>
  BY DEF Take
<1>2. Grows
  BY <1>1, ChannelKept
<1>3. PICK r \in fetched[c] :
         /\ \A s \in fetched[c] : s[1] = r[1] => r[2] <= s[2]
         /\ current' = [current EXCEPT ![c] = r]
  BY DEF Take
<1>4. pc'[c] = "claim" /\ current'[c] = r
      /\ \A d \in Copy : d # c => pc'[d] = pc[d] /\ current'[d] = current[d]
  BY <1>3 DEF Take, CopiesOK
<1>5. BatchOf(c) /\ r \in Record
  BY DEF BatchInv, CopiesOK
<1>6. DoneUpTo(r[1], r[2] - 1)
  <2> SUFFICES ASSUME NEW q \in 1..(r[2] - 1) PROVE Done(r[1], q)
    BY DEF DoneUpTo
  <2>1. r[2] \in Nat /\ ~(r[2] <= q)
    BY <1>5, RecordFacts
  <2>2. ASSUME <<r[1], q>> \in fetched[c] PROVE FALSE
    BY <1>3, <2>1, <2>2
  <2> QED BY <1>5, <2>2 DEF BatchOf, NoGapBefore
<1>7. WorkOf(c)'
  BY <1>2, <1>4, <1>6, DoneGrows DEF WorkOf
<1>8. BatchOf(c)'
  BY <1>1, <1>2, <1>4, <1>5, DoneGrows DEF BatchOf, NoGapBefore
<1>9. \A d \in Copy : Running(d)' => Running(d)
  BY <1>4 DEF Running, Take
<1>10. PositionInv'
  BY <1>1, <1>2, <1>9, PositionFrame DEF GroupOK
<1>11. BatchInv' /\ WorkInv'
  BY <1>1, <1>2, <1>4, <1>7, <1>8, OthersFrame
<1> QED BY <1>1, <1>2, <1>10, <1>11, DoneFrame, CommittedFrame, OrderFrame

(* What is committed was handled, and all that comes before it.            *)
LEMMA CommitInvariant ==
  ASSUME IInv, NEW c \in Copy, Commit(c) \/ CommitFails(c)
  PROVE  ProgressInv'
<1> USE TypeParts DEF IInv, ProgressInv
<1>1. EndOfBatch(c)
  BY DEF Commit, CommitFails
<1>2. UNCHANGED <<owner, position, current, redis>> /\ Grows
  BY <1>1, ChannelKept DEF EndOfBatch
<1>3. /\ pc'[c] \in {"poll", "stopped"} /\ (pc[c] = "leave" => pc'[c] = "stopped")
      /\ fetched'[c] = {} /\ handled'[c] = {} /\ current[c] = NoRecord
      /\ pc[c] = "leave" \/ fetched[c] = {}
  BY <1>1, NoRecordAtHand DEF EndOfBatch, CopiesOK, AtRecord
<1>4. \A d \in Copy : d # c =>
        pc'[d] = pc[d] /\ fetched'[d] = fetched[d] /\ handled'[d] = handled[d]
  BY <1>1 DEF EndOfBatch, CopiesOK
<1>5. BatchOf(c)' /\ WorkOf(c)'
  BY <1>2, <1>3 DEF BatchOf, WorkOf
<1>6. BatchInv' /\ WorkInv'
  BY <1>2, <1>4, <1>5, OthersFrame
<1>7. PositionInv'
  <2>1. \A d \in Copy : Running(d)' =>
          Running(d) /\ \A r \in fetched[d] : r \in fetched'[d] \/ Done(r[1], r[2])'
    BY <1>1, <1>3, <1>4 DEF Running, EndOfBatch
  <2> QED BY <1>2, <2>1, PositionFrame DEF GroupOK
<1>8. CommittedIsNotified'
  <2>1. CASE UNCHANGED committed
    BY <1>2, <2>1, CommittedFrame
  <2>2. CASE committed' = HandledOffsets(c)
    <3> SUFFICES ASSUME NEW p \in Partition, NEW o \in 1..(committed'[p] - 1)
                 PROVE  Done(p, o)'
      BY DEF CommittedIsNotified, Done
    <3>1. CASE committed'[p] = committed[p]
      BY <1>2, <3>1, DoneGrows DEF CommittedIsNotified, Done
    <3>2. ASSUME NEW r \in handled[c], r[1] = p, committed'[p] = r[2] + 1
          PROVE  Done(p, o)'
      <4>1. r[2] \in Nat
        <5>1. r \in Record
          BY DEF CopiesOK
        <5> QED BY <5>1, RecordFacts
      <4>2. o \in 1..r[2]
        BY <3>2, <4>1
      <4>3. Done(p, o)
        BY <3>2, <4>2 DEF BatchInv, BatchOf, DoneUpTo
      <4> QED BY <1>2, <4>3, DoneGrows
    <3> QED BY <2>2, <3>1, <3>2, OffsetCommitted
  <2> QED BY <2>1, <2>2 DEF Commit, CommitFails
<1> QED BY <1>2, <1>6, <1>7, <1>8, DoneFrame, OrderFrame

LEMMA HandlingInvariant ==
  ASSUME IInv, NEW c \in Copy, Handling(c)
  PROVE  ProgressInv'
<1> USE TypeParts DEF IInv, ProgressInv
<1>1. pc[c] \in AtRecord /\ Now(c) \in Event /\ Now(c) = Topic[current[c][1]][current[c][2]]
  <2>1. pc[c] \in AtRecord
    BY DEF Handling, NoId, Claim, Look, Publish, Mark, Skip, AtRecord
  <2> QED BY <2>1, NowTyped DEF Now, EventOf
<1>2. UNCHANGED <<owner, position, committed>>
  BY DEF Handling, NoId, Claim, Look, Publish, Mark, Skip
<1>3. Grows
  BY <1>1, PublicationGrows DEF Handling, NoId, Claim, Look, Publish, Mark, Skip
<1>4. PICK cur : cur = current[c]
  OBVIOUS
<1>5. ASSUME Finish(c), Now(c) \in Unreadable \/ Published(Now(c))
      PROVE  BatchInv' /\ WorkInv' /\ PositionInv'
  <2>1. Done(cur[1], cur[2])
    BY <1>1, <1>4, <1>5 DEF Done
  <2> QED BY <1>1, <1>2, <1>3, <1>4, <1>5, <2>1, DoneGrows, FinishStep
<1>6. CASE NoId(c)
  BY <1>2, <1>3, <1>5, <1>6, DoneFrame, CommittedFrame, OrderFrame DEF NoId, Unreadable
<1>7. CASE Claim(c)
  <2>1. PICK l \in {"skip", "publish", "look"} :
          /\ Goto(c, l)
          /\ l = "publish" => Now(c) \notin Unreadable
          /\ l = "skip" => Now(c) \in Unreadable
    BY <1>7 DEF Claim, Unreadable
  <2>2. BatchInv' /\ WorkInv' /\ PositionInv'
    BY <1>1, <1>2, <1>3, <1>7, <2>1, GotoStep DEF Claim, AtRecord
  <2>3. DoneInv'
    BY <1>1, <1>3, <1>7, SetKeyDone, DoneFrame DEF Claim
  <2> QED BY <1>2, <1>3, <1>7, <2>2, <2>3, CommittedFrame, OrderFrame DEF Claim
<1>8. CASE Look(c)
  <2>1. IsDone(key[Now(c)]) => Now(c) \in Unreadable \/ Published(Now(c))
    BY <1>1 DEF DoneInv, IsDone
  <2>2. Goto(c, "claim") /\ UNCHANGED <<fetched, current, handled>>
          => BatchInv' /\ WorkInv' /\ PositionInv'
    BY <1>1, <1>2, <1>3, GotoStep DEF AtRecord
  <2>3. BatchInv' /\ WorkInv' /\ PositionInv'
    BY <1>5, <1>8, <2>1, <2>2 DEF Look
  <2> QED BY <1>2, <1>3, <1>8, <2>3, DoneFrame, CommittedFrame, OrderFrame DEF Look
<1>9. CASE Publish(c)
  <2>1. Published(Now(c))'
    <3>1. PICK e : e = Now(c)
      OBVIOUS
    <3>2. Published(e)'
      BY <1>1, <1>9, <3>1, PublishedAppend DEF Publish, RedisOK
    <3>3. Now(c)' = Now(c)
      BY <1>9 DEF Publish, Now, EventOf
    <3> QED BY <3>1, <3>2, <3>3
  <2>2. BatchInv' /\ WorkInv' /\ PositionInv'
    BY <1>1, <1>2, <1>3, <1>9, <2>1, GotoStep DEF Publish, AtRecord
  <2>3. NotifiedInOrder'
    BY <1>9, OrderStep DEF Publish
  <2> QED BY <1>2, <1>3, <1>9, <2>2, <2>3, DoneFrame, CommittedFrame DEF Publish
<1>10. CASE Mark(c) \/ Skip(c)
  <2>1. Finish(c) /\ SetKey(Now(c), "done") /\ UNCHANGED channel
    BY <1>10 DEF Mark, Skip
  <2>2. Now(c) \in Unreadable \/ Published(Now(c))
    BY <1>10 DEF Mark, Skip, WorkInv, WorkOf
  <2>3. PICK e \in Event : e = Now(c)
    BY <1>1
  <2>4. SetKey(e, "done") /\ (e \in Unreadable \/ Published(e)')
    BY <1>3, <2>1, <2>2, <2>3 DEF Grows
  <2>5. DoneInv'
    BY <1>3, <2>4, SetKeyDone
  <2> QED BY <1>2, <1>3, <1>5, <2>1, <2>2, <2>5, CommittedFrame, OrderFrame
<1> QED BY <1>6, <1>7, <1>8, <1>9, <1>10 DEF Handling

LEMMA CallFailsInvariant ==
  ASSUME IInv, NEW c \in Copy, CallFails(c)
  PROVE  ProgressInv'
<1> USE TypeParts DEF IInv, ProgressInv
<1>1. pc[c] \in AtRecord /\ Now(c) \in Event /\ Now(c) = Topic[current[c][1]][current[c][2]]
  <2>1. pc[c] \in AtRecord
    BY DEF CallFails, ClaimFails, PublishFails, MarkFails, SkipFails, AtRecord
  <2> QED BY <2>1, NowTyped DEF Now, EventOf
<1>2. UNCHANGED <<owner, position, committed>>
  BY DEF CallFails, ClaimFails, PublishFails, MarkFails, SkipFails
<1>3. Grows
  BY <1>1, PublicationGrows DEF CallFails, ClaimFails, PublishFails, MarkFails, SkipFails
<1>4. PICK e \in Event : e = Now(c)
  BY <1>1
<1>5. Retry(c) => BatchInv' /\ WorkInv' /\ PositionInv'
  BY <1>1, <1>2, <1>3, GotoStep DEF AtRecord
<1>6. ASSUME SetKey(Now(c), "done") \/ UNCHANGED key, e \in Unreadable \/ Published(e)
      PROVE  DoneInv'
  <2>1. e \in Unreadable \/ Published(e)'
    BY <1>3, <1>6 DEF Grows
  <2> QED BY <1>3, <1>4, <1>6, <2>1, SetKeyDone, DoneFrame
<1>7. CASE ClaimFails(c)
  <2>1. DoneInv'
    BY <1>1, <1>3, <1>7, SetKeyDone, DoneFrame DEF ClaimFails
  <2> QED BY <1>2, <1>3, <1>5, <1>7, <2>1, CommittedFrame, OrderFrame DEF ClaimFails
<1>8. CASE PublishFails(c)
  <2>1. NotifiedInOrder'
    BY <1>8, OrderStep, OrderFrame DEF PublishFails
  <2> QED BY <1>2, <1>3, <1>5, <1>8, <2>1, DoneFrame, CommittedFrame DEF PublishFails
<1>9. CASE MarkFails(c)
  <2>1. Published(e)
    BY <1>4, <1>9 DEF MarkFails, WorkInv, WorkOf
  <2>2. PICK cur : cur = current[c]
    OBVIOUS
  <2>3. Done(cur[1], cur[2])
    BY <1>1, <1>4, <2>1, <2>2 DEF Done
  <2>4. BatchInv' /\ WorkInv' /\ PositionInv'
    BY <1>1, <1>2, <1>3, <1>9, <2>2, <2>3, DoneGrows, FinishStep DEF MarkFails
  <2> QED BY <1>2, <1>3, <1>6, <1>9, <2>1, <2>4, CommittedFrame, OrderFrame DEF MarkFails
<1>10. CASE SkipFails(c)
  <2>1. e \in Unreadable
    BY <1>4, <1>10 DEF SkipFails, WorkInv, WorkOf
  <2> QED BY <1>2, <1>3, <1>5, <1>6, <1>10, <2>1, CommittedFrame, OrderFrame DEF SkipFails
<1> QED BY <1>7, <1>8, <1>9, <1>10 DEF CallFails

(* A copy stops; what it was at is not handled.                            *)
LEMMA StopInvariant ==
  ASSUME IInv, NEW c \in Copy, Cancel(c) \/ Crash(c)
  PROVE  ProgressInv'
<1> USE TypeParts DEF IInv, ProgressInv
<1>1. UNCHANGED <<owner, position, committed, redis>> /\ Grows
  BY ChannelKept DEF Cancel, Crash
<1>2. /\ pc'[c] \in {"leave", "stopped"} /\ current'[c] = NoRecord
      /\ fetched'[c] = fetched[c] \/ (fetched'[c] = {} /\ pc'[c] = "stopped")
      /\ handled'[c] = handled[c] \/ handled'[c] = {}
  BY DEF Cancel, Crash, CopiesOK
<1>3. \A d \in Copy : d # c =>
        /\ pc'[d] = pc[d] /\ fetched'[d] = fetched[d] /\ handled'[d] = handled[d]
        /\ current'[d] = current[d]
  BY DEF Cancel, Crash, CopiesOK
<1>4. BatchOf(c)' /\ WorkOf(c)'
  BY <1>1, <1>2, DoneGrows DEF BatchInv, BatchOf, WorkOf, NoGapBefore
<1>5. BatchInv' /\ WorkInv'
  BY <1>1, <1>3, <1>4, OthersFrame
<1>6. PositionInv'
  <2>1. \A d \in Copy : Running(d)' =>
          Running(d) /\ \A r \in fetched[d] : r \in fetched'[d] \/ Done(r[1], r[2])'
    BY <1>2, <1>3 DEF Running, Cancel, Crash
  <2> QED BY <1>1, <2>1, PositionFrame DEF GroupOK
<1> QED BY <1>1, <1>5, <1>6, DoneFrame, CommittedFrame, OrderFrame

LEMMA ExpireInvariant ==
  ASSUME IInv, NEW e \in Event, LeaseExpires(e) \/ DoneExpires(e)
  PROVE  ProgressInv'
<1> USE TypeParts DEF IInv, ProgressInv
<1>1. UNCHANGED <<group, copies, channel>> /\ Grows
  BY ChannelKept DEF LeaseExpires, DoneExpires
<1>2. DoneInv'
  BY <1>1, SetKeyDone DEF LeaseExpires, DoneExpires
<1>3. PositionInv'
  BY <1>1, PositionFrame DEF GroupOK, Running
<1> QED BY <1>1, <1>2, <1>3, NothingMoved, CommittedFrame, OrderFrame

(* The new owner polls from where everything before was committed.         *)
LEMMA RebalanceInvariant ==
  ASSUME IInv, NEW p \in Partition, NEW c \in Copy, Rebalance(p, c)
  PROVE  ProgressInv'
<1> USE TypeParts DEF IInv, ProgressInv
<1>1. UNCHANGED <<committed, copies, redis>> /\ Grows
  BY ChannelKept DEF Rebalance
<1>2. /\ owner'[p] = c /\ position'[p] = committed[p]
      /\ \A q \in Partition : q # p => owner'[q] = owner[q] /\ position'[q] = position[q]
  BY DEF Rebalance, GroupOK, LatestCommit
<1>3. PositionInv'
  <2> SUFFICES ASSUME NEW q \in Partition, Running(owner[q])',
                      NEW o \in 1..(position'[q] - 1)
               PROVE  Done(q, o)' \/ <<q, o>> \in fetched'[owner'[q]]
    BY DEF PositionInv, NoGapBefore
  <2>1. CASE q = p
    <3>1. Done(q, o)
      BY <1>2, <2>1 DEF CommittedIsNotified, Done
    <3> QED BY <1>1, <3>1, DoneGrows
  <2>2. CASE q # p
    BY <1>1, <1>2, <2>2, DoneGrows DEF PositionInv, NoGapBefore, Running
  <2> QED BY <2>1, <2>2
<1> QED BY <1>1, <1>3, NothingMoved, DoneFrame, CommittedFrame, OrderFrame

LEMMA InitInvariant == Init => IInv
<1> SUFFICES ASSUME Init PROVE TypeOK /\ ProgressInv
  BY DEF IInv
<1>1. TypeOK
  BY InitTyped
<1>2. BatchInv
  BY DEF Init, BatchInv, BatchOf
<1>3. WorkInv
  BY DEF Init, WorkInv, WorkOf
<1>4. PositionInv /\ DoneInv /\ CommittedIsNotified
  BY DEF Init, PositionInv, NoGapBefore, DoneInv, CommittedIsNotified
<1>5. NotifiedInOrder
  BY DEF Init, NotifiedInOrder
<1> QED BY <1>1, <1>2, <1>3, <1>4, <1>5 DEF ProgressInv

LEMMA StutterInvariant ==
  ASSUME IInv, UNCHANGED vars
  PROVE  ProgressInv'
<1> USE TypeParts DEF IInv, ProgressInv
<1>1. Grows /\ UNCHANGED <<group, copies, redis>>
  BY ChannelKept
<1>2. PositionInv'
  BY <1>1, PositionFrame DEF GroupOK, Running
<1> QED BY <1>1, <1>2, NothingMoved, DoneFrame, CommittedFrame, OrderFrame

LEMMA InvStep == IInv /\ [Next]_vars => IInv'
<1> SUFFICES ASSUME IInv, [Next]_vars PROVE ProgressInv'
  BY TypeStep DEF IInv
<1>1. CASE UNCHANGED vars
  BY <1>1, StutterInvariant
<1>2. ASSUME NEW c \in Copy, Consuming(c) PROVE ProgressInv'
  BY <1>2, PollInvariant, TakeInvariant, CommitInvariant DEF Consuming
<1>3. ASSUME NEW c \in Copy, Handling(c) \/ CallFails(c) PROVE ProgressInv'
  BY <1>3, HandlingInvariant, CallFailsInvariant
<1>4. ASSUME NEW c \in Copy, Cancel(c) \/ Crash(c) PROVE ProgressInv'
  BY <1>4, StopInvariant
<1>5. ASSUME NEW e \in Event, LeaseExpires(e) \/ DoneExpires(e) PROVE ProgressInv'
  BY <1>5, ExpireInvariant
<1>6. ASSUME NEW p \in Partition, NEW c \in Copy, Rebalance(p, c) PROVE ProgressInv'
  BY <1>6, RebalanceInvariant
<1> QED BY <1>1, <1>2, <1>3, <1>4, <1>5, <1>6 DEF Next

(* The invariant of the records that are polled, handled and committed.    *)
THEOREM Invariant == Spec => []IInv
BY InitInvariant, InvStep, PTL DEF Spec

(* The type invariant, for every topic and any number of copies.           *)
THEOREM TypeCorrect == Spec => []TypeOK
<1>1. IInv => TypeOK
  BY DEF IInv
<1> QED BY <1>1, Invariant, PTL

(* Nothing that the group has committed was skipped, whichever copies were *)
(* given a partition, stopped, or committed late (consumer.go, Run).       *)
THEOREM CommittedWasNotified == Spec => []CommittedIsNotified
<1>1. IInv => CommittedIsNotified
  BY DEF IInv, ProgressInv
<1> QED BY <1>1, Invariant, PTL

(* The first notifications of a partition keep the order of its records    *)
(* (consumer.go, handle: the same record is tried until it is finished).   *)
THEOREM InOrder == Spec => []NotifiedInOrder
<1>1. IInv => NotifiedInOrder
  BY DEF IInv, ProgressInv
<1> QED BY <1>1, Invariant, PTL

-----------------------------------------------------------------------------
(* The copies together implement Delivery.                                 *)

LEMMA FinishedIsDone ==
  ASSUME NEW p \in Partition, NEW q \in DOMAIN Topic[p]
  PROVE  FirstNotifications!Finished(p, q) <=> Done(p, q)
<1>1. Topic[p][q] \in Event
  BY TopicAssumption
<1> QED BY <1>1 DEF FirstNotifications!Finished, Done

(* A publication is the first one of the next event, or changes nothing.   *)
LEMMA PublicationDelivers ==
  ASSUME IInv, NEW c \in Copy, pc[c] = "publish", channel' = Append(channel, Now(c)),
         UNCHANGED committed
  PROVE  [FirstNotifications!Next]_FirstNotifications!vars
<1> USE TypeParts DEF IInv, ProgressInv
<1>1. PICK cur \in Record : cur = current[c] /\ Now(c) = Topic[cur[1]][cur[2]] /\ Now(c) \in Event
  BY NowTyped DEF AtRecord, Now, EventOf
<1>2. PICK e \in Event : e = Now(c)
  BY <1>1
<1>3. \A x : Published(x)' <=> Published(x) \/ x = e
  BY <1>2, PublishedAppend DEF RedisOK
<1>4. {x \in Event : Published(x)}' = {x \in Event : Published(x)} \cup {e}
  BY <1>2, <1>3
<1>5. CASE Published(e)
  <2>1. {x \in Event : Published(x)}' = {x \in Event : Published(x)}
    BY <1>4, <1>5
  <2> QED BY <2>1 DEF FirstNotifications!vars
<1>6. CASE ~Published(e)
  <2> DEFINE p == cur[1]  o == cur[2]
  <2>1. /\ p \in Partition /\ o \in DOMAIN Topic[p] /\ o \in Nat /\ e = Topic[p][o]
        /\ DOMAIN Topic[p] = 1..Len(Topic[p]) /\ Len(Topic[p]) \in Nat /\ cur = <<p, o>>
    BY <1>1, <1>2, RecordFacts, TopicLength
  <2>2. DoneUpTo(p, o - 1) /\ e \notin Unreadable
    BY <1>1, <1>2, IsRecord DEF WorkInv, WorkOf
  <2>3. ~FirstNotifications!Finished(p, o)
    BY <1>6, <2>1, <2>2, FinishedIsDone DEF Done
  <2>4. \A q \in 1..(o - 1) : FirstNotifications!Finished(p, q)
    BY <2>1, <2>2, FinishedIsDone DEF DoneUpTo
  <2>5. FirstNotifications!Notify(p)
    BY <1>4, <2>1, <2>3, <2>4 DEF FirstNotifications!Notify
  <2> QED BY <2>1, <2>5 DEF FirstNotifications!Next
<1> QED BY <1>5, <1>6

LEMMA QuietStep ==
  UNCHANGED <<channel, committed>> => UNCHANGED FirstNotifications!vars
BY ChannelKept DEF FirstNotifications!vars

LEMMA CommitDelivers ==
  ASSUME IInv, IInv', NEW c \in Copy, Commit(c)
  PROVE  [FirstNotifications!Next]_FirstNotifications!vars
<1> USE TypeParts, TypePartsNext DEF IInv, ProgressInv
<1>1. UNCHANGED channel
  BY DEF Commit, EndOfBatch
<1>2. {x \in Event : Published(x)}' = {x \in Event : Published(x)}
  BY <1>1, ChannelKept
<1>3. committed' \in [Partition -> Nat] /\ \A p \in Partition : committed'[p] \in Offset(p)
  BY DEF GroupOK
<1>4. committed' \in [Partition -> Nat \ {0}]
  BY <1>3, TopicLength DEF Offset
<1>5. ASSUME NEW p \in Partition, NEW o \in 1..(committed'[p] - 1)
      PROVE  FirstNotifications!Finished(p, o)
  <2>1. o \in DOMAIN Topic[p]
    BY <1>3, TopicLength DEF Offset
  <2>2. Done(p, o)
    BY <1>1, <1>5, ChannelKept DEF CommittedIsNotified, Done
  <2> QED BY <2>1, <2>2, FinishedIsDone
<1> QED BY <1>2, <1>4, <1>5 DEF FirstNotifications!Next, FirstNotifications!Commit

LEMMA DeliveryStep ==
  ASSUME IInv, IInv', [Next]_vars
  PROVE  [FirstNotifications!Next]_FirstNotifications!vars
<1>1. CASE UNCHANGED <<channel, committed>>
  BY <1>1, QuietStep
<1>2. ASSUME NEW c \in Copy, Consuming(c)
      PROVE  [FirstNotifications!Next]_FirstNotifications!vars
  BY <1>1, <1>2, CommitDelivers DEF Consuming, Poll, Take, CommitFails, EndOfBatch
<1>3. ASSUME NEW c \in Copy, Handling(c)
      PROVE  [FirstNotifications!Next]_FirstNotifications!vars
  BY <1>1, <1>3, PublicationDelivers DEF Handling, NoId, Claim, Look, Publish, Mark, Skip
<1>4. ASSUME NEW c \in Copy, CallFails(c)
      PROVE  [FirstNotifications!Next]_FirstNotifications!vars
  BY <1>1, <1>4, PublicationDelivers
     DEF CallFails, ClaimFails, PublishFails, MarkFails, SkipFails
<1>5. ASSUME NEW c \in Copy, Cancel(c) \/ Crash(c)
      PROVE  [FirstNotifications!Next]_FirstNotifications!vars
  BY <1>1, <1>5 DEF Cancel, Crash
<1>6. ASSUME NEW e \in Event, LeaseExpires(e) \/ DoneExpires(e)
      PROVE  [FirstNotifications!Next]_FirstNotifications!vars
  BY <1>1, <1>6 DEF LeaseExpires, DoneExpires
<1>7. ASSUME NEW p \in Partition, NEW c \in Copy, Rebalance(p, c)
      PROVE  [FirstNotifications!Next]_FirstNotifications!vars
  BY <1>1, <1>7 DEF Rebalance
<1> QED BY <1>1, <1>2, <1>3, <1>4, <1>5, <1>6, <1>7 DEF Next

(* All copies together implement Delivery: one process that notifies event *)
(* after event of a partition, and commits what it has done (Consumer.Run, *)
(* Processor.Handle and RedisDeduper.Claim of all copies).                 *)
THEOREM Refinement == Spec => ImplementsDelivery
<1>1. Init => FirstNotifications!Init
  <2> SUFFICES ASSUME Init PROVE {e \in Event : Published(e)} = {}
    BY DEF Init, FirstNotifications!Init
  <2> QED BY DEF Init, Published
<1>2. IInv /\ IInv' /\ [Next]_vars => [FirstNotifications!Next]_FirstNotifications!vars
  BY DeliveryStep
<1> QED BY Invariant, <1>1, <1>2, PTL DEF Spec, ImplementsDelivery, FirstNotifications!Spec

-----------------------------------------------------------------------------
(* The lease: how often an event is published.                             *)

LEMMA AddOne ==
  ASSUME NEW S, IsFiniteSet(S), NEW x
  PROVE  /\ IsFiniteSet(S \cup {x}) /\ Cardinality(S \cup {x}) \in Nat
         /\ Cardinality(S \cup {x}) <= Cardinality(S) + 1
<1>1. Cardinality(S) \in Nat
  BY FS_CardinalityType
<1>2. IsFiniteSet(S \cup {x})
      /\ Cardinality(S \cup {x}) = IF x \in S THEN Cardinality(S) ELSE Cardinality(S) + 1
  BY FS_AddElement
<1> QED BY <1>1, <1>2

LEMMA PublicationsFinite ==
  ASSUME RedisOK, NEW e
  PROVE  IsFiniteSet(Publications(e)) /\ Cardinality(Publications(e)) \in Nat
<1>1. Publications(e) \in SUBSET (1..Len(channel)) /\ Len(channel) \in Nat
  BY DEF RedisOK, Publications
<1>2. IsFiniteSet(1..Len(channel))
  BY <1>1, FS_Interval
<1> QED BY <1>1, <1>2, FS_Subset, FS_CardinalityType

LEMMA PublicationsKept ==
  ASSUME NEW e, UNCHANGED channel
  PROVE  Publications(e)' = Publications(e)
BY DEF Publications

(* Nobody becomes a publisher of e, and the lease of e is not given up, or *)
(* a fault pays for it, or one who would have published.                   *)
LEMMA LeaseKept ==
  ASSUME RedisOK, NEW e \in Event, LeaseOf(e), UNCHANGED channel,
         Publishers(e)' \subseteq Publishers(e), faults' = faults \/ faults' = faults + 1,
         Taken(e) => Taken(e)' \/ faults' = faults + 1 \/ Publishers(e)' # Publishers(e)
  PROVE  LeaseOf(e)'
<1> DEFINE A == Publishers(e)  B == Publishers(e)'  n == Cardinality(Publications(e))
<1>1. Publications(e)' = Publications(e)
  BY PublicationsKept
<1>2. n \in Nat /\ faults \in Nat
  BY PublicationsFinite, BoundAssumption DEF RedisOK
<1>3. IsFiniteSet(A) /\ n + Cardinality(A) <= faults + (IF Taken(e) THEN 1 ELSE 0)
      /\ (e \in Unreadable => Publications(e) = {})
  BY DEF LeaseOf
<1> HIDE DEF A, B, n
<1>4. B \in SUBSET A
  BY DEF A, B
<1>5. /\ IsFiniteSet(B) /\ Cardinality(B) \in Nat /\ Cardinality(A) \in Nat
      /\ Cardinality(B) <= Cardinality(A) /\ (B # A => Cardinality(B) # Cardinality(A))
  BY <1>3, <1>4, FS_Subset, FS_CardinalityType
<1>6. n + Cardinality(B) <= faults' + (IF Taken(e)' THEN 1 ELSE 0)
  <2>1. B # A => Cardinality(B) + 1 <= Cardinality(A)
    BY <1>5
  <2>2. CASE ~Taken(e) \/ Taken(e)'
    BY <1>2, <1>3, <1>5, <2>2
  <2>3. CASE faults' = faults + 1
    BY <1>2, <1>3, <1>5, <2>3
  <2>4. CASE B # A
    BY <1>2, <1>3, <1>5, <2>1, <2>4
  <2> QED BY <2>2, <2>3, <2>4 DEF A, B
<1> QED BY <1>1, <1>3, <1>5, <1>6 DEF LeaseOf, B, n

OthersStay(c) ==
  \A d \in Copy : d # c => pc'[d] = pc[d] /\ current'[d] = current[d]

(* A step of copy c after which it is not going to publish e.              *)
LEMMA CopyLease ==
  ASSUME IInv, NEW e \in Event, e \notin Unreadable, LeaseOf(e), UNCHANGED channel,
         NEW c \in Copy, OthersStay(c), pc'[c] = "publish" => Now(c)' # e,
         faults' = faults \/ faults' = faults + 1,
         \/ faults' = faults + 1
         \/ key'[e] = "done"
         \/ /\ key'[e] = key[e]
            /\ pc[c] = "mark" => Now(c) # e
            /\ pc[c] = "publish" /\ Now(c) = e => pc'[c] # "publish"
  PROVE  LeaseOf(e)'
<1> USE TypeParts DEF IInv
<1>1. \A d \in Copy : d # c => Now(d)' = Now(d) /\ pc'[d] = pc[d]
  BY DEF OthersStay, Now, EventOf
<1>2. Publishers(e)' \subseteq Publishers(e)
  BY <1>1 DEF Publishers
<1>3. ASSUME Taken(e), faults' # faults + 1, key'[e] # "done"
      PROVE  Taken(e)' \/ Publishers(e)' # Publishers(e)
  <2>1. key[e] = "processing" /\ key'[e] = "processing"
    BY <1>3 DEF Taken
  <2>2. PICK d \in Copy : pc[d] \in {"publish", "mark", "skip"} /\ Now(d) = e
    BY <1>3, <2>1 DEF Taken, AtWork
  <2>3. pc[d] # "skip"
    BY <2>2 DEF ProgressInv, WorkInv, WorkOf
  <2>4. CASE d = c
    <3>1. pc[c] = "publish" /\ Now(c) = e /\ pc'[c] # "publish"
      BY <1>3, <2>2, <2>3, <2>4
    <3>2. c \in Publishers(e) /\ c \notin Publishers(e)'
      BY <3>1 DEF Publishers
    <3> QED BY <3>2
  <2>5. CASE d # c
    BY <1>1, <2>1, <2>2, <2>5 DEF Taken, AtWork
  <2> QED BY <2>4, <2>5
<1>4. Taken(e) => Taken(e)' \/ faults' = faults + 1 \/ Publishers(e)' # Publishers(e)
  BY <1>3 DEF Taken
<1> QED BY <1>2, <1>4, LeaseKept

(* The copies stay where they are.                                         *)
LEMMA KeyLease ==
  ASSUME IInv, NEW e \in Event, LeaseOf(e), UNCHANGED <<channel, copies>>,
         faults' = faults \/ faults' = faults + 1,
         faults' = faults + 1 \/ key'[e] = key[e] \/ (key[e] = "processing" /\ ~AtWork(e))
  PROVE  LeaseOf(e)'
<1>1. \A d \in Copy : Now(d)' = Now(d) /\ pc'[d] = pc[d]
  BY DEF Now, EventOf
<1>2. Publishers(e)' = Publishers(e) /\ (AtWork(e)' <=> AtWork(e))
  BY <1>1 DEF Publishers, AtWork
<1>3. Taken(e) => Taken(e)' \/ faults' = faults + 1
  BY <1>2 DEF Taken
<1> QED BY <1>2, <1>3, LeaseKept, TypeParts DEF IInv

(* Who takes the lease is one more who may publish.                        *)
LEMMA ClaimLease ==
  ASSUME IInv, NEW e \in Event, LeaseOf(e), NEW c \in Copy, OthersStay(c),
         pc[c] = "claim", pc'[c] = "publish", Now(c) = e, UNCHANGED <<current, channel, faults>>,
         key[e] = "none", key'[e] = "processing"
  PROVE  LeaseOf(e)'
<1>1. \A d \in Copy : Now(d)' = Now(d) /\ (d # c => pc'[d] = pc[d])
  BY DEF OthersStay, Now, EventOf
<1>2. Publishers(e)' = Publishers(e) \cup {c} /\ Taken(e)' /\ ~Taken(e)
  BY <1>1 DEF Publishers, Taken, AtWork
<1>3. Publications(e)' = Publications(e) /\ Cardinality(Publications(e)) \in Nat
  BY PublicationsKept, PublicationsFinite, TypeParts DEF IInv
<1> DEFINE A == Publishers(e)
<1>4. IsFiniteSet(A) /\ Cardinality(A) \in Nat
  BY FS_CardinalityType DEF LeaseOf
<1>5. IsFiniteSet(A \cup {c}) /\ Cardinality(A \cup {c}) \in Nat
      /\ Cardinality(A \cup {c}) <= Cardinality(A) + 1
  BY <1>4, AddOne
<1>6. faults \in Nat
  BY TypeParts, BoundAssumption DEF IInv, RedisOK
<1> QED BY <1>2, <1>3, <1>4, <1>5, <1>6 DEF LeaseOf

(* A publisher publishes: it is one less who may, and keeps its lease, or  *)
(* a fault pays for its return to the claim.                               *)
LEMMA PublishLease ==
  ASSUME IInv, NEW e \in Event, LeaseOf(e), NEW c \in Copy, OthersStay(c),
         pc[c] = "publish", Now(c) = e, UNCHANGED <<current, key>>,
         channel' = Append(channel, e),
         \/ pc'[c] = "mark" /\ UNCHANGED faults
         \/ pc'[c] = "claim" /\ faults' = faults + 1
  PROVE  LeaseOf(e)'
<1> USE TypeParts DEF IInv
<1>1. \A d \in Copy : Now(d)' = Now(d) /\ (d # c => pc'[d] = pc[d])
  BY DEF OthersStay, Now, EventOf
<1>2. Publishers(e)' = Publishers(e) \ {c} /\ c \in Publishers(e)
  BY <1>1 DEF Publishers
<1>3. Taken(e) => Taken(e)' \/ faults' = faults + 1
  <2>1. pc'[c] = "mark" => AtWork(e)'
    BY <1>1 DEF AtWork
  <2> QED BY <2>1 DEF Taken
<1>4. Publications(e)' = Publications(e) \cup {Len(channel) + 1}
      /\ e \notin Unreadable
  <2>1. channel \in Seq(Event)
    BY DEF RedisOK
  <2>2. DOMAIN channel' = (DOMAIN channel) \cup {Len(channel) + 1}
        /\ channel'[Len(channel) + 1] = e
        /\ \A i \in DOMAIN channel : channel'[i] = channel[i]
    BY <2>1, PublishedAppend
  <2>3. Publications(e)' = Publications(e) \cup {Len(channel) + 1}
    BY <2>2 DEF Publications
  <2> QED BY <2>3 DEF ProgressInv, WorkInv, WorkOf
<1> DEFINE A == Publishers(e)  P == Publications(e)  i == Len(channel) + 1
<1>5. IsFiniteSet(A) /\ IsFiniteSet(P) /\ Cardinality(A) \in Nat /\ Cardinality(P) \in Nat
      /\ faults \in Nat /\ Cardinality(P) + Cardinality(A) <= faults + (IF Taken(e) THEN 1 ELSE 0)
  BY PublicationsFinite, FS_CardinalityType, BoundAssumption DEF LeaseOf, RedisOK
<1>6. IsFiniteSet(A \ {c}) /\ Cardinality(A \ {c}) = Cardinality(A) - 1
      /\ Cardinality(P \cup {i}) <= Cardinality(P) + 1 /\ Cardinality(P \cup {i}) \in Nat
  <2> HIDE DEF A, P, i
  <2>1. c \in A
    BY <1>2 DEF A
  <2>2. IsFiniteSet(A \ {c}) /\ Cardinality(A \ {c}) = Cardinality(A) - 1
    BY <1>5, <2>1, FS_RemoveElement
  <2> QED BY <1>5, <2>2, AddOne
<1> HIDE DEF A, P, i
<1>7. Cardinality(P \cup {i}) + Cardinality(A \ {c}) <= faults' + (IF Taken(e)' THEN 1 ELSE 0)
  BY <1>3, <1>5, <1>6
<1> QED BY <1>2, <1>4, <1>6, <1>7 DEF LeaseOf, A, P, i

(* A copy publishes another event than e.                                  *)
LEMMA OtherPublished ==
  ASSUME IInv, NEW e \in Event, LeaseOf(e), NEW c \in Copy, OthersStay(c),
         pc[c] = "publish", pc'[c] # "publish", Now(c) \in Event, Now(c) # e,
         UNCHANGED <<current, key>>, channel' = Append(channel, Now(c)),
         faults' = faults \/ faults' = faults + 1
  PROVE  LeaseOf(e)'
<1> USE TypeParts DEF IInv
<1>1. \A d \in Copy : Now(d)' = Now(d) /\ (d # c => pc'[d] = pc[d])
  BY DEF OthersStay, Now, EventOf
<1>2. Publishers(e)' = Publishers(e) /\ (AtWork(e) => AtWork(e)')
  BY <1>1 DEF Publishers, AtWork
<1>3. Publications(e)' = Publications(e)
  <2>1. channel \in Seq(Event)
    BY DEF RedisOK
  <2>2. /\ DOMAIN channel' = (DOMAIN channel) \cup {Len(channel) + 1}
        /\ channel'[Len(channel) + 1] # e
        /\ \A i \in DOMAIN channel : channel'[i] = channel[i]
    BY <2>1, PublishedAppend
  <2> QED BY <2>2 DEF Publications
<1>4. Taken(e) => Taken(e)'
  BY <1>2 DEF Taken
<1>5. Cardinality(Publications(e)) \in Nat /\ Cardinality(Publishers(e)) \in Nat /\ faults \in Nat
  BY PublicationsFinite, FS_CardinalityType, BoundAssumption DEF LeaseOf, RedisOK
<1> QED BY <1>2, <1>3, <1>4, <1>5 DEF LeaseOf

(* What cannot be read is never published.                                 *)
LEMMA UnreadableLease ==
  ASSUME IInv, IInv', [Next]_vars, NEW e \in Unreadable, e \in Event, LeaseOf(e)
  PROVE  LeaseOf(e)'
<1> USE TypeParts, TypePartsNext DEF IInv
<1>1. Publishers(e)' = {}
  BY DEF Publishers, ProgressInv, WorkInv, WorkOf
<1>2. \/ UNCHANGED channel
      \/ \E c \in Copy : pc[c] = "publish" /\ channel' = Append(channel, Now(c))
  BY DEF Next, Consuming, Handling, CallFails, Poll, Take, Commit, CommitFails, EndOfBatch,
         NoId, Claim, Look, Publish, Mark, Skip, ClaimFails, PublishFails, MarkFails, SkipFails,
         Cancel, Crash, LeaseExpires, DoneExpires, Rebalance
<1>3. ASSUME NEW c \in Copy, pc[c] = "publish", channel' = Append(channel, Now(c))
      PROVE  Publications(e)' = Publications(e)
  <2>1. Now(c) \in Event /\ Now(c) # e
    BY <1>3, NowTyped DEF ProgressInv, WorkInv, WorkOf, AtRecord
  <2>2. channel \in Seq(Event)
    BY DEF RedisOK
  <2>3. /\ DOMAIN channel' = (DOMAIN channel) \cup {Len(channel) + 1}
        /\ channel'[Len(channel) + 1] # e
        /\ \A i \in DOMAIN channel : channel'[i] = channel[i]
    BY <1>3, <2>1, <2>2, PublishedAppend
  <2> QED BY <2>3 DEF Publications
<1>4. Publications(e)' = {}
  BY <1>2, <1>3, PublicationsKept DEF LeaseOf
<1>5. faults' \in Nat
  BY BoundAssumption DEF RedisOK
<1> QED BY <1>1, <1>4, <1>5, FS_EmptySet DEF LeaseOf

LEMMA HandlingLease ==
  ASSUME IInv, NEW c \in Copy, Handling(c), NEW e \in Event, e \notin Unreadable, LeaseOf(e)
  PROVE  LeaseOf(e)'
<1> USE TypeParts DEF IInv
<1>1. pc[c] \in AtRecord /\ Now(c) \in Event
  <2>1. pc[c] \in AtRecord
    BY DEF Handling, NoId, Claim, Look, Publish, Mark, Skip, AtRecord
  <2> QED BY <2>1, NowTyped
<1>2. OthersStay(c) /\ UNCHANGED faults
  BY DEF Handling, NoId, Claim, Look, Publish, Mark, Skip, Finish, OthersStay, CopiesOK
<1>3. pc'[c] \in Label /\ (Finish(c) => pc'[c] = "next")
      /\ \A l : Goto(c, l) => pc'[c] = l
  <2>1. CopiesOK'
    BY HandlingTyped, TypePartsNext
  <2> QED BY <2>1 DEF Finish, CopiesOK
<1>4. \A x \in Event : \A v : SetKey(x, v) =>
        key'[x] = v /\ \A y \in Event : y # x => key'[y] = key[y]
  BY DEF RedisOK
<1>5. UNCHANGED current => Now(c)' = Now(c)
  BY DEF Now, EventOf
<1>6. CASE NoId(c) \/ Look(c)
  <2>1. pc'[c] # "publish" /\ UNCHANGED <<key, channel>> /\ pc[c] \in {"claim", "look"}
    BY <1>3, <1>6 DEF NoId, Look
  <2> QED BY <1>2, <2>1, CopyLease
<1>7. CASE Claim(c)
  <2>1. UNCHANGED <<current, channel>> /\ pc[c] = "claim"
    BY <1>7 DEF Claim
  <2>2. CASE Free(Now(c)) /\ Now(c) = e
    <3>1. key[e] = "none" /\ key'[e] = "processing" /\ pc'[c] = "publish"
      BY <1>1, <1>3, <1>4, <1>7, <2>2 DEF Claim, Free, Unreadable
    <3> QED BY <1>2, <2>1, <2>2, <3>1, ClaimLease
  <2>3. CASE Free(Now(c)) /\ Now(c) # e
    <3>1. key'[e] = key[e]
      BY <1>1, <1>4, <1>7, <2>3 DEF Claim
    <3> QED BY <1>2, <1>5, <2>1, <2>3, <3>1, CopyLease
  <2>4. CASE ~Free(Now(c))
    <3>1. UNCHANGED key /\ pc'[c] = "look"
      BY <1>3, <1>7, <2>4 DEF Claim
    <3> QED BY <1>2, <2>1, <3>1, CopyLease
  <2> QED BY <2>2, <2>3, <2>4
<1>8. CASE Publish(c)
  <2>1. UNCHANGED <<current, key>> /\ pc[c] = "publish" /\ pc'[c] = "mark"
        /\ channel' = Append(channel, Now(c))
    BY <1>3, <1>8 DEF Publish
  <2>2. CASE Now(c) = e
    BY <1>2, <2>1, <2>2, PublishLease
  <2>3. CASE Now(c) # e
    BY <1>1, <1>2, <2>1, <2>3, OtherPublished
  <2> QED BY <2>2, <2>3
<1>9. CASE Mark(c) \/ Skip(c)
  <2>1. pc'[c] = "next" /\ UNCHANGED channel /\ SetKey(Now(c), "done")
        /\ pc[c] \in {"mark", "skip"}
    BY <1>3, <1>9 DEF Mark, Skip
  <2>2. key'[e] = "done" \/ (key'[e] = key[e] /\ Now(c) # e)
    BY <1>1, <1>4, <2>1
  <2> QED BY <1>2, <2>1, <2>2, CopyLease
<1> QED BY <1>6, <1>7, <1>8, <1>9 DEF Handling

LEMMA CallFailsLease ==
  ASSUME IInv, NEW c \in Copy, CallFails(c), NEW e \in Event, e \notin Unreadable, LeaseOf(e)
  PROVE  LeaseOf(e)'
<1> USE TypeParts DEF IInv
<1>1. pc[c] \in AtRecord /\ Now(c) \in Event
  <2>1. pc[c] \in AtRecord
    BY DEF CallFails, ClaimFails, PublishFails, MarkFails, SkipFails, AtRecord
  <2> QED BY <2>1, NowTyped
<1>2. OthersStay(c) /\ faults' = faults + 1 /\ pc'[c] \in {"claim", "next"}
  BY DEF CallFails, ClaimFails, PublishFails, MarkFails, SkipFails, Finish, OthersStay, CopiesOK
<1>3. CASE UNCHANGED channel
  BY <1>2, <1>3, CopyLease
<1>4. CASE PublishFails(c) /\ channel' = Append(channel, Now(c))
  <2>1. UNCHANGED <<current, key>> /\ pc[c] = "publish" /\ pc'[c] = "claim"
    BY <1>4 DEF PublishFails, CopiesOK
  <2>2. CASE Now(c) = e
    BY <1>2, <1>4, <2>1, <2>2, PublishLease
  <2>3. CASE Now(c) # e
    BY <1>1, <1>2, <1>4, <2>1, <2>3, OtherPublished
  <2> QED BY <2>2, <2>3
<1> QED BY <1>3, <1>4 DEF CallFails, ClaimFails, PublishFails, MarkFails, SkipFails

LEMMA LeaseStep ==
  ASSUME IInv, IInv', LeaseInv, [Next]_vars
  PROVE  LeaseInv'
<1> USE TypeParts DEF IInv
<1> SUFFICES ASSUME NEW e \in Event, LeaseOf(e) PROVE LeaseOf(e)'
  BY DEF LeaseInv
<1>1. CASE e \in Unreadable
  BY <1>1, UnreadableLease
<1> SUFFICES ASSUME e \notin Unreadable PROVE LeaseOf(e)'
  BY <1>1
<1>2. CASE UNCHANGED vars
  BY <1>2, KeyLease
<1>3. ASSUME NEW c \in Copy, Consuming(c) PROVE LeaseOf(e)'
  <2>1. OthersStay(c) /\ pc[c] \in {"poll", "next", "leave"}
        /\ pc'[c] \in {"poll", "next", "claim", "stopped"}
    BY <1>3 DEF Consuming, Poll, Take, Commit, CommitFails, EndOfBatch, OthersStay, CopiesOK
  <2>2. UNCHANGED <<key, channel, faults>>
    BY <1>3 DEF Consuming, Poll, Take, Commit, CommitFails, EndOfBatch
  <2> QED BY <2>1, <2>2, CopyLease
<1>4. ASSUME NEW c \in Copy, Handling(c) \/ CallFails(c) PROVE LeaseOf(e)'
  BY <1>4, HandlingLease, CallFailsLease
<1>5. ASSUME NEW c \in Copy, Cancel(c) PROVE LeaseOf(e)'
  <2>1. OthersStay(c) /\ pc[c] # "mark" /\ pc'[c] \in {"leave", "stopped"}
        /\ UNCHANGED <<key, channel, faults>>
    BY <1>5 DEF Cancel, OthersStay, CopiesOK
  <2> QED BY <2>1, CopyLease
<1>6. ASSUME NEW c \in Copy, Crash(c) PROVE LeaseOf(e)'
  <2>1. OthersStay(c) /\ pc'[c] = "stopped" /\ UNCHANGED channel /\ faults' = faults + 1
    BY <1>6 DEF Crash, OthersStay, CopiesOK
  <2> QED BY <2>1, CopyLease
<1>7. ASSUME NEW x \in Event, LeaseExpires(x) \/ DoneExpires(x) PROVE LeaseOf(e)'
  <2>1. UNCHANGED <<channel, copies>> /\ (faults' = faults \/ faults' = faults + 1)
    BY <1>7 DEF LeaseExpires, DoneExpires
  <2>2. \/ faults' = faults + 1 \/ key'[e] = key[e]
        \/ (key[e] = "processing" /\ ~AtWork(e))
    BY <1>7 DEF LeaseExpires, DoneExpires, LeaseMayExpire, RedisOK
  <2> QED BY <2>1, <2>2, KeyLease
<1>8. ASSUME NEW p \in Partition, NEW c \in Copy, Rebalance(p, c) PROVE LeaseOf(e)'
  BY <1>8, KeyLease DEF Rebalance
<1> QED BY <1>2, <1>3, <1>4, <1>5, <1>6, <1>7, <1>8 DEF Next

(* Every notification of an event but the first is owed to a fault: the    *)
(* lease is not claimed again before it is over, and it is over too early  *)
(* only by one (dedup.go: Claim, Done and leaseTTL).                       *)
THEOREM NoRepeatWithoutFault == Spec => []RepeatsNeedFaults
<1>1. Init => LeaseInv
  <2> SUFFICES ASSUME Init, NEW e \in Event PROVE LeaseOf(e)
    BY DEF LeaseInv
  <2>1. Publishers(e) = {} /\ Publications(e) = {} /\ faults = 0
    BY DEF Init, Publishers, Publications
  <2> QED BY <2>1, FS_EmptySet DEF LeaseOf
<1>2. IInv /\ LeaseInv => RepeatsNeedFaults
  <2> SUFFICES ASSUME IInv, NEW e \in Event, LeaseOf(e)
               PROVE  Cardinality({i \in DOMAIN channel : channel[i] = e}) <= 1 + faults
    BY DEF LeaseInv, RepeatsNeedFaults
  <2>1. Cardinality(Publications(e)) \in Nat /\ Cardinality(Publishers(e)) \in Nat /\ faults \in Nat
    BY PublicationsFinite, FS_CardinalityType, TypeParts, BoundAssumption
       DEF IInv, LeaseOf, RedisOK
  <2>2. Cardinality(Publications(e)) <= 1 + faults
    BY <2>1 DEF LeaseOf
  <2> QED BY <2>2 DEF Publications
<1>3. IInv /\ IInv' /\ LeaseInv /\ [Next]_vars => LeaseInv'
  BY LeaseStep
<1> QED BY <1>1, <1>2, <1>3, Invariant, PTL DEF Spec
=============================================================================
