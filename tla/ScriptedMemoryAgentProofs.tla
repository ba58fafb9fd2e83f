--------------------- MODULE ScriptedMemoryAgentProofs ---------------------
(***************************************************************************)
(* The scripted memory agent for every size of line, pattern of            *)
(* backpressure, stream of requests and latencies, and number of cycles.   *)
(***************************************************************************)
EXTENDS ScriptedMemoryAgent, FiniteSetTheorems, SequenceTheorems, TLAPS

Bytes == [0 .. Size - 1 -> Byte \cup {0}]
Answer == [txn_id : Nat, data : Bytes, cycle : Nat]
Waiting == [txn_id : Nat, data : Bytes, ready_cycle : Nat]
Acceptance == [request : Requests, ready_cycle : Nat]

AgentTyped ==
    /\ cycle \in Nat
    /\ pending \in Seq(Waiting)
    /\ memory \in [Lines -> Bytes]
    /\ offer \in Requests \cup {None}
    /\ drain \in Nat \cup {None}
    /\ collected \in Seq(Answer) /\ delivered \in Seq(Answer)
    /\ accepted \in Seq(Acceptance)
    /\ drain = None => collected = <<>>

\* How many have left pending: the ids of the others follow.
Gone == Len(accepted) - Len(pending)

\* How many have left the agent for good, delivered or lost.
Settled == Gone - Len(collected)

\* Of those, the ones not lost are delivered, each once and in their order.
SettledInOrder ==
    /\ lost \subseteq 1 .. Settled
    /\ \A i \in 1 .. Len(delivered) :
          delivered[i].txn_id \in 1 .. Settled /\ delivered[i].txn_id \notin lost
    /\ \A i, j \in 1 .. Len(delivered) : i < j => delivered[i].txn_id < delivered[j].txn_id
    /\ \A n \in 1 .. Settled :
          n \in lost \/ \E i \in 1 .. Len(delivered) : delivered[i].txn_id = n

\* The ids run on from the responses settled to those collected and those pending.
IdsRunOn ==
    /\ Len(collected) + Len(pending) <= Len(accepted)
    /\ \A i \in 1 .. Len(pending) :
          /\ pending[i].txn_id = Gone + i
          /\ pending[i].ready_cycle = accepted[Gone + i].ready_cycle
    /\ \A i \in 1 .. Len(collected) : collected[i].txn_id = Settled + i
    /\ SettledInOrder

\* The response n comes in the cycle c in which it and all before it are due.
WhenDue(n, c) ==
    /\ \E j \in 1 .. n : accepted[j].ready_cycle = c
    /\ \A j \in 1 .. n : accepted[j].ready_cycle <= c

\* Nothing leaves before its cycle, and nothing at the head has missed it.
OnTime ==
    /\ \A j \in 1 .. Gone : accepted[j].ready_cycle <= cycle
    /\ pending # <<>> => pending[1].ready_cycle >= cycle
    /\ \A r \in Range(collected) \cup Range(delivered) : WhenDue(r.txn_id, r.cycle)

\* v is what the acceptances before the n-th left in byte b of line l.
LeftBefore(n, l, b, v) ==
    IF LastWrite(n, l, b) = {} THEN v = 0
    ELSE \A w \in LastWrite(n, l, b) : v = accepted[w].request.data[b]

\* data answers the n-th acceptance.
Answers(n, data) ==
    LET r == accepted[n].request
    IN  ~r.write => \A b \in 0 .. Size - 1 : LeftBefore(n, r.addr, b, data[b])

DataAnswers ==
    /\ \A l \in Lines, b \in 0 .. Size - 1 :
          LeftBefore(Len(accepted) + 1, l, b, memory[l][b])
    /\ \A r \in Range(pending) \cup Range(collected) \cup Range(delivered) :
          Answers(r.txn_id, r.data)

AgentInv == AgentTyped /\ IdsRunOn /\ OnTime /\ DataAnswers

-----------------------------------------------------------------------------
(***************************************************************************)
(* What a tick pops.                                                       *)
(***************************************************************************)
LEMMA DueIsPrefix ==
    ASSUME AgentTyped
    PROVE  /\ DueCount \in 0 .. Len(pending)
           /\ \A i \in 1 .. DueCount : pending[i].ready_cycle <= cycle
           /\ DueCount < Len(pending) => pending[DueCount + 1].ready_cycle > cycle
  <1> DEFINE Due == {i \in 1 .. Len(pending) :
                        \A j \in 1 .. i : pending[j].ready_cycle <= cycle}
  <1>1. /\ cycle \in Nat /\ Len(pending) \in Nat
        /\ DOMAIN pending = 1 .. Len(pending)
        /\ \A i \in 1 .. Len(pending) : pending[i].ready_cycle \in Nat
    <2>1. cycle \in Nat /\ pending \in Seq(Waiting)
      BY DEF AgentTyped
    <2>2. /\ Len(pending) \in Nat /\ DOMAIN pending = 1 .. Len(pending)
          /\ pending \in [1 .. Len(pending) -> Waiting]
      BY <2>1, LenProperties
    <2> QED
      BY <2>1, <2>2 DEF Waiting
  <1>2. DueCount = Cardinality(Due)
    BY <1>1 DEF DueCount
  <1> HIDE DEF Due
  <1>3. /\ Due \subseteq 1 .. Len(pending)
        /\ \A i \in Due : 1 .. i \subseteq Due
    BY <1>1 DEF Due
  <1>4. /\ IsFiniteSet(1 .. Len(pending)) /\ Cardinality(1 .. Len(pending)) = Len(pending)
    <2> DEFINE n == Len(pending)
    <2>1. n \in Nat
      BY <1>1
    <2> HIDE DEF n
    <2>2. IsFiniteSet(1 .. n) /\ Cardinality(1 .. n) = n
      BY <2>1, FS_Interval
    <2> QED
      BY <2>2 DEF n
  <1>5. /\ IsFiniteSet(Due) /\ Cardinality(Due) <= Len(pending) /\ Cardinality(Due) \in Nat
    BY <1>3, <1>4, FS_Subset, FS_CardinalityType
  <1>6. \A i \in Due : i \in 1 .. Cardinality(Due)
    <2> TAKE i \in Due
    <2>1. i \in Nat /\ i >= 1
      BY <1>1, <1>3
    <2>2. Cardinality(1 .. i) = i
      BY <2>1, FS_Interval
    <2>3. Cardinality(1 .. i) <= Cardinality(Due)
      BY <1>3, <1>5, FS_Subset
    <2> QED
      BY <2>1, <2>2, <2>3, <1>5
  <1>7. IsFiniteSet(1 .. Cardinality(Due)) /\ Cardinality(1 .. Cardinality(Due)) = Cardinality(Due)
    BY <1>5, FS_Interval
  <1>8. Due = 1 .. Cardinality(Due)
    BY <1>6, <1>7, FS_Subset
  <1>9. ASSUME Cardinality(Due) < Len(pending)
        PROVE  pending[Cardinality(Due) + 1].ready_cycle > cycle
    <2> DEFINE k == Cardinality(Due)
    <2>1. k \in Nat /\ k + 1 \in 1 .. Len(pending) /\ k + 1 \notin Due
      BY <1>1, <1>5, <1>8, <1>9
    <2> HIDE DEF k
    <2>2. ~ \A j \in 1 .. k + 1 : pending[j].ready_cycle <= cycle
      BY <2>1 DEF Due
    <2>3. \A j \in 1 .. k : j \in Due
      BY <1>8 DEF k
    <2>4. \A j \in 1 .. k : pending[j].ready_cycle <= cycle
      BY <2>3, <2>1 DEF Due
    <2>5. ~(pending[k + 1].ready_cycle <= cycle)
      BY <2>1, <2>2, <2>4
    <2> QED
      BY <1>1, <2>1, <2>5 DEF k
  <1>10. \A i \in 1 .. Cardinality(Due) : pending[i].ready_cycle <= cycle
    <2>1. \A i \in Due : pending[i].ready_cycle <= cycle
      BY <1>1 DEF Due
    <2> QED
      BY <2>1, <1>8
  <1> QED
    BY <1>2, <1>5, <1>9, <1>10, <1>1

LEMMA TickSplits ==
    ASSUME AgentTyped
    PROVE  /\ Popped \in Seq(Answer) /\ Len(Popped) = DueCount
           /\ \A i \in 1 .. DueCount :
                 Popped[i] = [txn_id |-> pending[i].txn_id, data |-> pending[i].data,
                              cycle |-> cycle]
           /\ Left \in Seq(Waiting) /\ Len(Left) = Len(pending) - DueCount
           /\ \A i \in 1 .. Len(Left) : Left[i] = pending[DueCount + i]
  <1>0. /\ cycle \in Nat /\ pending \in Seq(Waiting)
    BY DEF AgentTyped
  <1>1. DueCount \in Nat /\ DueCount <= Len(pending) /\ Len(pending) \in Nat
    <2>1. Len(pending) \in Nat
      BY <1>0, LenProperties
    <2> QED
      BY <2>1, DueIsPrefix
  <1>2. \A i \in 1 .. Len(pending) : pending[i] \in Waiting
    BY <1>0, ElementOfSeq
  <1>3. \A i \in 1 .. DueCount : [txn_id |-> pending[i].txn_id, data |-> pending[i].data,
                              cycle |-> cycle] \in Answer
    <2> TAKE i \in 1 .. DueCount
    <2>1. pending[i] \in Waiting
      BY <1>1, <1>2
    <2> QED
      BY <2>1, <1>0 DEF Waiting, Answer
  <1>4. Popped \in [1 .. DueCount -> Answer]
    BY <1>3 DEF Popped
  <1>5. Popped \in Seq(Answer)
    BY <1>1, <1>4, SeqDef
  <1>6. Len(Popped) = DueCount
    BY <1>1, <1>4, <1>5, LenProperties
  <1>7. \A i \in DueCount + 1 .. Len(pending) : pending[i] \in Waiting
    BY <1>1, <1>2
  <1>8. /\ Left \in Seq(Waiting)
        /\ Len(Left) = IF DueCount + 1 <= Len(pending) THEN Len(pending) - (DueCount + 1) + 1 ELSE 0
        /\ \A i \in 1 .. Len(pending) - (DueCount + 1) + 1 : Left[i] = pending[DueCount + 1 + i - 1]
    <2> DEFINE m == DueCount + 1
               n == Len(pending)
    <2>1. m \in Int /\ n \in Int
      BY <1>1
    <2>2. \A i \in m .. n : pending[i] \in Waiting
      BY <1>7
    <2> HIDE DEF m, n
    <2>3. /\ SubSeq(pending, m, n) \in Seq(Waiting)
          /\ Len(SubSeq(pending, m, n)) = IF m <= n THEN n - m + 1 ELSE 0
          /\ \A i \in 1 .. n - m + 1 : SubSeq(pending, m, n)[i] = pending[m + i - 1]
      BY <2>1, <2>2, SubSeqProperties
    <2> QED
      BY <2>3 DEF m, n, Left
  <1> QED
    BY <1>1, <1>5, <1>6, <1>8 DEF Popped

LEMMA RangeOfConcat ==
    ASSUME NEW S, NEW s \in Seq(S), NEW t \in Seq(S)
    PROVE  Range(s \o t) = Range(s) \cup Range(t)
  <1>1. /\ s \o t \in Seq(S) /\ Len(s \o t) = Len(s) + Len(t)
        /\ Len(s) \in Nat /\ Len(t) \in Nat
        /\ DOMAIN s = 1 .. Len(s) /\ DOMAIN t = 1 .. Len(t)
        /\ DOMAIN (s \o t) = 1 .. Len(s) + Len(t)
        /\ \A i \in 1 .. Len(s) + Len(t) :
              (s \o t)[i] = IF i <= Len(s) THEN s[i] ELSE t[i - Len(s)]
    BY ConcatProperties, LenProperties
  <1>2. \A x \in Range(s \o t) : x \in Range(s) \cup Range(t)
    <2> TAKE x \in Range(s \o t)
    <2>1. PICK i \in 1 .. Len(s) + Len(t) : x = (s \o t)[i]
      BY <1>1 DEF Range
    <2>2. CASE i <= Len(s)
      BY <1>1, <2>1, <2>2 DEF Range
    <2>3. CASE ~(i <= Len(s))
      <3>1. i - Len(s) \in 1 .. Len(t) /\ x = t[i - Len(s)]
        BY <1>1, <2>1, <2>3
      <3> QED
        BY <1>1, <3>1 DEF Range
    <2> QED
      BY <2>2, <2>3
  <1>3. \A x \in Range(s) : x \in Range(s \o t)
    <2> TAKE x \in Range(s)
    <2>1. PICK i \in 1 .. Len(s) : x = s[i]
      BY <1>1 DEF Range
    <2>2. i \in 1 .. Len(s) + Len(t) /\ (s \o t)[i] = x
      BY <1>1, <2>1
    <2> QED
      BY <1>1, <2>2 DEF Range
  <1>4. \A x \in Range(t) : x \in Range(s \o t)
    <2> TAKE x \in Range(t)
    <2>1. PICK i \in 1 .. Len(t) : x = t[i]
      BY <1>1 DEF Range
    <2>2. Len(s) + i \in 1 .. Len(s) + Len(t) /\ (s \o t)[Len(s) + i] = x
      BY <1>1, <2>1
    <2> QED
      BY <1>1, <2>2 DEF Range
  <1> QED
    BY <1>2, <1>3, <1>4

\* The lengths, and what the elements are.
LEMMA Lengths ==
    ASSUME AgentTyped
    PROVE  /\ Len(pending) \in Nat /\ DOMAIN pending = 1 .. Len(pending)
           /\ Len(collected) \in Nat /\ DOMAIN collected = 1 .. Len(collected)
           /\ Len(delivered) \in Nat /\ DOMAIN delivered = 1 .. Len(delivered)
           /\ Len(accepted) \in Nat /\ DOMAIN accepted = 1 .. Len(accepted)
           /\ \A i \in 1 .. Len(pending) : pending[i] \in Waiting
           /\ \A i \in 1 .. Len(accepted) : accepted[i] \in Acceptance
  <1>1. /\ pending \in Seq(Waiting) /\ accepted \in Seq(Acceptance)
        /\ collected \in Seq(Answer) /\ delivered \in Seq(Answer)
    BY DEF AgentTyped
  <1> QED
    BY <1>1, LenProperties, ElementOfSeq

-----------------------------------------------------------------------------
(***************************************************************************)
(* A response depends on acceptances up to its own only.                   *)
(***************************************************************************)
LEMMA PastIsPast ==
    ASSUME AgentTyped, NEW n \in Nat, n <= Len(accepted) + 1,
           \A i \in 1 .. Len(accepted) : accepted'[i] = accepted[i]
    PROVE  \A l, b, v : LeftBefore(n, l, b, v)' <=> LeftBefore(n, l, b, v)
  <1>1. \A i \in 1 .. n - 1 : accepted'[i] = accepted[i]
    BY Lengths
  <1> TAKE l, b, v
  <1>2. \A i \in 1 .. n - 1 : \A j \in i + 1 .. n - 1 : j \in 1 .. n - 1
    OBVIOUS
  <1>3. LastWrite(n, l, b)' = LastWrite(n, l, b)
    BY <1>1, <1>2 DEF LastWrite, EffectiveMask
  <1>4. LastWrite(n, l, b) \subseteq 1 .. n - 1
    BY DEF LastWrite
  <1> QED
    BY <1>1, <1>3, <1>4 DEF LeftBefore

LEMMA ResponseStays ==
    ASSUME AgentTyped, NEW n \in 1 .. Len(accepted),
           \A i \in 1 .. Len(accepted) : accepted'[i] = accepted[i]
    PROVE  /\ \A d : Answers(n, d)' <=> Answers(n, d)
           /\ \A c : WhenDue(n, c)' <=> WhenDue(n, c)
  <1>1. n \in Nat /\ n <= Len(accepted) + 1 /\ accepted'[n] = accepted[n]
    BY Lengths
  <1>2. \A l, b, v : LeftBefore(n, l, b, v)' <=> LeftBefore(n, l, b, v)
    BY <1>1, PastIsPast
  <1>3. \A d : Answers(n, d)' <=> Answers(n, d)
    BY <1>1, <1>2 DEF Answers
  <1>4. \A j \in 1 .. n : accepted'[j] = accepted[j]
    BY Lengths
  <1>5. \A c : WhenDue(n, c)' <=> WhenDue(n, c)
    BY <1>4 DEF WhenDue
  <1> QED
    BY <1>3, <1>5

LEMMA IdsKnown ==
    ASSUME AgentInv
    PROVE  /\ Gone \in 0 .. Len(accepted)
           /\ Len(collected) <= Gone
           /\ Gone + Len(pending) = Len(accepted)
           /\ \A r \in Range(pending) \cup Range(collected) \cup Range(delivered) :
                 r.txn_id \in 1 .. Len(accepted)
  <1>1. AgentTyped /\ IdsRunOn
    BY DEF AgentInv
  <1>2. /\ Gone \in 0 .. Len(accepted) /\ Len(collected) <= Gone
        /\ Gone + Len(pending) = Len(accepted)
    <2> DEFINE a == Len(accepted)
               p == Len(pending)
               c == Len(collected)
    <2>1. a \in Nat /\ p \in Nat /\ c \in Nat /\ c + p <= a
      BY <1>1, Lengths DEF IdsRunOn
    <2> HIDE DEF a, p, c
    <2>2. a - p \in 0 .. a /\ c <= a - p /\ (a - p) + p = a
      BY <2>1
    <2> QED
      BY <2>2 DEF Gone, a, p, c
  <1>3. \A r \in Range(pending) : r.txn_id \in 1 .. Len(accepted)
    <2> TAKE r \in Range(pending)
    <2>1. PICK i \in 1 .. Len(pending) : r = pending[i]
      BY <1>1, Lengths DEF Range
    <2>2. r.txn_id = Gone + i
      BY <1>1, <2>1 DEF IdsRunOn
    <2> QED
      BY <1>1, <1>2, <2>1, <2>2, Lengths
  <1>4. \A r \in Range(collected) : r.txn_id \in 1 .. Len(accepted)
    <2> TAKE r \in Range(collected)
    <2>1. PICK i \in 1 .. Len(collected) : r = collected[i]
      BY <1>1, Lengths DEF Range
    <2>2. r.txn_id = Gone - Len(collected) + i
      BY <1>1, <2>1 DEF IdsRunOn, Settled
    <2> QED
      BY <1>1, <1>2, <2>1, <2>2, Lengths
  <1>5. \A r \in Range(delivered) : r.txn_id \in 1 .. Len(accepted)
    <2> TAKE r \in Range(delivered)
    <2>1. PICK i \in 1 .. Len(delivered) : r = delivered[i]
      BY <1>1, Lengths DEF Range
    <2>2. r.txn_id \in 1 .. Gone - Len(collected)
      BY <1>1, <2>1 DEF IdsRunOn, SettledInOrder, Settled
    <2> QED
      BY <1>1, <1>2, <2>2, Lengths
  <1> QED
    BY <1>2, <1>3, <1>4, <1>5

LEMMA ResponsesStay ==
    ASSUME AgentInv, \A i \in 1 .. Len(accepted) : accepted'[i] = accepted[i]
    PROVE  /\ \A r \in Range(pending) \cup Range(collected) \cup Range(delivered) :
                 Answers(r.txn_id, r.data)'
           /\ \A r \in Range(collected) \cup Range(delivered) : WhenDue(r.txn_id, r.cycle)'
  <1>1. AgentTyped
    BY DEF AgentInv
  <1>2. ASSUME NEW r \in Range(pending) \cup Range(collected) \cup Range(delivered)
        PROVE  Answers(r.txn_id, r.data)'
    <2>1. r.txn_id \in 1 .. Len(accepted)
      BY <1>2, IdsKnown
    <2>2. Answers(r.txn_id, r.data)
      BY <1>2 DEF AgentInv, DataAnswers
    <2> DEFINE n == r.txn_id
               d == r.data
    <2> HIDE DEF n, d
    <2>3. Answers(n, d)' <=> Answers(n, d)
      BY <1>1, <2>1, ResponseStays DEF n
    <2> QED
      BY <2>2, <2>3 DEF n, d
  <1>3. ASSUME NEW r \in Range(collected) \cup Range(delivered)
        PROVE  WhenDue(r.txn_id, r.cycle)'
    <2>1. r.txn_id \in 1 .. Len(accepted)
      BY <1>3, IdsKnown
    <2>2. WhenDue(r.txn_id, r.cycle)
      BY <1>3 DEF AgentInv, OnTime
    <2> DEFINE n == r.txn_id
               c == r.cycle
    <2> HIDE DEF n, c
    <2>3. WhenDue(n, c)' <=> WhenDue(n, c)
      BY <1>1, <2>1, ResponseStays DEF n
    <2> QED
      BY <2>2, <2>3 DEF n, c
  <1> QED
    BY <1>2, <1>3

LEMMA PopsInTime ==
    ASSUME AgentInv
    PROVE  /\ \A i \in 1 .. DueCount : Popped[i].txn_id = Gone + i
           /\ \A r \in Range(Popped) :
                 /\ r.txn_id \in 1 .. Len(accepted)
                 /\ Answers(r.txn_id, r.data) /\ WhenDue(r.txn_id, r.cycle)
  <1>1. AgentTyped /\ IdsRunOn /\ OnTime /\ DataAnswers
    BY DEF AgentInv
  <1>2. /\ DueCount \in Nat /\ DueCount <= Len(pending) /\ Len(pending) \in Nat
        /\ Gone \in Nat /\ Gone + Len(pending) = Len(accepted) /\ Len(accepted) \in Nat
        /\ DOMAIN pending = 1 .. Len(pending) /\ cycle \in Nat
    BY <1>1, DueIsPrefix, IdsKnown, Lengths DEF AgentTyped
  <1>3. \A i \in 1 .. DueCount : pending[i].ready_cycle <= cycle
    BY <1>1, DueIsPrefix
  <1>4. \A i \in 1 .. DueCount :
           /\ i \in 1 .. Len(pending)
           /\ Popped[i] = [txn_id |-> Gone + i, data |-> pending[i].data, cycle |-> cycle]
           /\ pending[i].txn_id = Gone + i
           /\ accepted[Gone + i].ready_cycle = pending[i].ready_cycle
    BY <1>1, <1>2, TickSplits DEF IdsRunOn
  <1>5. ASSUME NEW r \in Range(Popped)
        PROVE  /\ r.txn_id \in 1 .. Len(accepted)
               /\ Answers(r.txn_id, r.data) /\ WhenDue(r.txn_id, r.cycle)
    <2>1. PICK i \in 1 .. DueCount : r = Popped[i]
      BY <1>5 DEF Range, Popped
    <2>2. /\ i \in 1 .. Len(pending) /\ r.txn_id = Gone + i
          /\ r.data = pending[i].data /\ r.cycle = cycle
      <3>1. r = [txn_id |-> Gone + i, data |-> pending[i].data, cycle |-> cycle]
        BY <1>4, <2>1
      <3>2. i \in 1 .. Len(pending)
        BY <1>4
      <3> QED
        BY <3>1, <3>2
    <2>3. Answers(Gone + i, pending[i].data)
      BY <1>1, <1>2, <1>4, <2>2 DEF DataAnswers, Range
    <2>4. \A j \in 1 .. Gone + i : accepted[j].ready_cycle <= cycle
      <3> TAKE j \in 1 .. Gone + i
      <3>1. CASE j \in 1 .. Gone
        BY <1>1, <3>1 DEF OnTime
      <3>2. CASE j \notin 1 .. Gone
        <4> DEFINE m == j - Gone
        <4>1. m \in 1 .. DueCount /\ j = Gone + m
          BY <1>2, <3>2, <2>1
        <4> HIDE DEF m
        <4> QED
          BY <4>1, <1>3, <1>4
      <3> QED
        BY <3>1, <3>2
    <2>5. /\ Gone + 1 \in 1 .. Gone + i
          /\ accepted[Gone + 1].ready_cycle = cycle
      <3>1. 1 \in 1 .. DueCount /\ 1 \in 1 .. Len(pending)
        BY <1>2, <2>1
      <3>2. pending # <<>>
        BY <1>2, <3>1
      <3>3. pending[1].ready_cycle >= cycle /\ pending[1].ready_cycle <= cycle
        BY <1>1, <1>3, <3>1, <3>2 DEF OnTime
      <3>4. pending[1].ready_cycle \in Nat
        BY <1>1, <3>1, Lengths DEF Waiting
      <3>5. accepted[Gone + 1].ready_cycle = pending[1].ready_cycle
        BY <1>4, <3>1
      <3>6. Gone + 1 \in 1 .. Gone + i
        BY <1>2, <2>1
      <3> QED
        BY <1>2, <3>3, <3>4, <3>5, <3>6
    <2>6. WhenDue(Gone + i, cycle)
      BY <2>4, <2>5 DEF WhenDue
    <2> QED
      BY <1>2, <2>2, <2>3, <2>6
  <1>6. \A i \in 1 .. DueCount : Popped[i].txn_id = Gone + i
    <2> TAKE i \in 1 .. DueCount
    <2>1. Popped[i] = [txn_id |-> Gone + i, data |-> pending[i].data, cycle |-> cycle]
      BY <1>4
    <2> QED
      BY <2>1
  <1> QED
    BY <1>5, <1>6

LEMMA TickKeepsPending ==
    ASSUME AgentInv, cycle' = cycle + 1, pending' = Left, accepted' = accepted
    PROVE  /\ Gone' = Gone + DueCount /\ Len(pending') = Len(pending) - DueCount
           /\ \A i \in 1 .. Len(pending') :
                 /\ pending'[i].txn_id = Gone' + i
                 /\ pending'[i].ready_cycle = accepted'[Gone' + i].ready_cycle
           /\ \A j \in 1 .. Gone' : accepted'[j].ready_cycle <= cycle'
           /\ pending' # <<>> => pending'[1].ready_cycle >= cycle'
           /\ \A r \in Range(pending') : r \in Range(pending)
  <1>1. AgentTyped /\ IdsRunOn /\ OnTime
    BY DEF AgentInv
  <1>2. /\ DueCount \in Nat /\ DueCount <= Len(pending) /\ Len(pending) \in Nat
        /\ Gone \in Nat /\ Gone + Len(pending) = Len(accepted) /\ Len(accepted) \in Nat
        /\ DOMAIN pending = 1 .. Len(pending) /\ cycle \in Nat
    BY <1>1, DueIsPrefix, IdsKnown, Lengths DEF AgentTyped
  <1>3. /\ pending' \in Seq(Waiting) /\ Len(pending') = Len(pending) - DueCount
        /\ \A i \in 1 .. Len(pending') : pending'[i] = pending[DueCount + i]
    BY <1>1, TickSplits
  <1>4. DOMAIN pending' = 1 .. Len(pending')
    BY <1>3, LenProperties
  <1>5. Gone' = Gone + DueCount
    BY <1>2, <1>3 DEF Gone
  <1>6. \A i \in 1 .. Len(pending) :
           /\ pending[i].txn_id = Gone + i
           /\ pending[i].ready_cycle = accepted[Gone + i].ready_cycle
    BY <1>1 DEF IdsRunOn
  <1>7. ASSUME NEW i \in 1 .. Len(pending')
        PROVE  /\ DueCount + i \in 1 .. Len(pending)
               /\ pending'[i] = pending[DueCount + i]
               /\ pending'[i].txn_id = Gone' + i
               /\ pending'[i].ready_cycle = accepted'[Gone' + i].ready_cycle
    <2>1. DueCount + i \in 1 .. Len(pending) /\ Gone + (DueCount + i) = Gone' + i
      BY <1>2, <1>3, <1>5, <1>7
    <2>2. pending'[i] = pending[DueCount + i]
      BY <1>3, <1>7
    <2> QED
      BY <1>6, <2>1, <2>2
  <1>8. ASSUME NEW j \in 1 .. Gone'
        PROVE  accepted'[j].ready_cycle <= cycle'
    <2>1. j \in 1 .. Len(accepted) /\ accepted[j].ready_cycle \in Nat
      BY <1>1, <1>2, <1>5, <1>8, Lengths DEF Acceptance
    <2>2. CASE j \in 1 .. Gone
      <3>1. accepted[j].ready_cycle <= cycle
        BY <1>1, <2>2 DEF OnTime
      <3> QED
        BY <1>2, <2>1, <3>1
    <2>3. CASE j \notin 1 .. Gone
      <3> DEFINE m == j - Gone
      <3>1. m \in 1 .. DueCount /\ m \in 1 .. Len(pending) /\ j = Gone + m
        BY <1>2, <1>5, <1>8, <2>3
      <3> HIDE DEF m
      <3>2. pending[m].ready_cycle <= cycle
        BY <1>1, <3>1, DueIsPrefix
      <3>3. accepted[j].ready_cycle = pending[m].ready_cycle
        BY <1>6, <3>1
      <3> QED
        BY <1>2, <2>1, <3>2, <3>3
    <2> QED
      BY <2>2, <2>3
  <1>9. ASSUME pending' # <<>>
        PROVE  pending'[1].ready_cycle >= cycle'
    <2>1. Len(pending') >= 1 /\ DueCount < Len(pending)
      <3>1. Len(pending') \in Nat \ {0}
        BY <1>3, <1>9, EmptySeq
      <3>2. Len(pending) - DueCount \in Nat \ {0}
        BY <1>3, <3>1
      <3>3. Len(pending) - DueCount >= 1 /\ DueCount < Len(pending)
        <4> DEFINE p == Len(pending)
                   k == DueCount
        <4>1. p \in Nat /\ k \in Nat /\ p - k \in Nat \ {0}
          BY <1>2, <3>2
        <4> HIDE DEF p, k
        <4>2. p - k >= 1 /\ k < p
          BY <4>1
        <4> QED
          BY <4>2 DEF p, k
      <3> QED
        BY <1>3, <3>3
    <2>2. pending'[1] = pending[DueCount + 1]
      BY <1>2, <1>3, <2>1
    <2>3. pending[DueCount + 1].ready_cycle > cycle
      BY <1>1, <2>1, DueIsPrefix
    <2>4. pending[DueCount + 1].ready_cycle \in Nat
      BY <1>1, <1>2, <2>1, Lengths DEF Waiting
    <2> QED
      BY <1>2, <2>2, <2>3, <2>4
  <1>10. ASSUME NEW r \in Range(pending')
         PROVE  r \in Range(pending)
    <2>1. PICK i \in 1 .. Len(pending') : r = pending'[i]
      BY <1>4, <1>10 DEF Range
    <2> QED
      BY <1>2, <1>7, <2>1 DEF Range
  <1> QED
    BY <1>3, <1>5, <1>7, <1>8, <1>9, <1>10

-----------------------------------------------------------------------------
(***************************************************************************)
(* An acceptance.                                                          *)
(***************************************************************************)
LEMMA AcceptAppends ==
    ASSUME AgentTyped, Accept
    PROVE  LET n == Len(accepted)
               p == Len(pending)
           IN  /\ offer \in Requests /\ offer.latency \in Nat
               /\ accepted' \in Seq(Acceptance) /\ Len(accepted') = n + 1
               /\ \A i \in 1 .. n : accepted'[i] = accepted[i]
               /\ accepted'[n + 1] = [request |-> offer, ready_cycle |-> cycle + offer.latency]
               /\ pending' \in Seq(Waiting) /\ Len(pending') = p + 1
               /\ \A i \in 1 .. p : pending'[i] = pending[i]
               /\ pending'[p + 1] =
                     [txn_id |-> n + 1,
                      data |-> IF offer.write THEN Zero ELSE memory[offer.addr],
                      ready_cycle |-> cycle + offer.latency]
               /\ memory' \in [Lines -> Bytes]
  <1>1. /\ offer \in Requests
        /\ offer.latency \in Nat /\ offer.addr \in Lines /\ offer.data \in Data
    BY AgentRequestsAssumption DEF AgentTyped, Accept
  <1>2. /\ cycle \in Nat /\ Len(accepted) \in Nat
        /\ pending \in Seq(Waiting) /\ accepted \in Seq(Acceptance)
        /\ memory \in [Lines -> Bytes]
    BY Lengths DEF AgentTyped
  <1> DEFINE e == [request |-> offer, ready_cycle |-> cycle + offer.latency]
             d == IF offer.write THEN Zero ELSE memory[offer.addr]
             w == [txn_id |-> Len(accepted) + 1, data |-> d,
                   ready_cycle |-> cycle + offer.latency]
  <1>3. e \in Acceptance
    BY <1>1, <1>2 DEF Acceptance
  <1>4. d \in Bytes
    BY <1>1, <1>2 DEF Bytes, Zero
  <1> HIDE DEF d
  <1>5. w \in Waiting
    BY <1>1, <1>2, <1>4 DEF Waiting
  <1>6. Stored(offer) \in Bytes
    BY <1>1, <1>2 DEF Stored, Bytes, Data
  <1>7. memory' \in [Lines -> Bytes]
    BY <1>1, <1>2, <1>6 DEF Accept
  <1>8. accepted' = Append(accepted, e) /\ pending' = Append(pending, w)
    BY DEF Accept, d
  <1> HIDE DEF e, w
  <1>9. /\ accepted' \in Seq(Acceptance) /\ Len(accepted') = Len(accepted) + 1
        /\ \A i \in 1 .. Len(accepted) : accepted'[i] = accepted[i]
        /\ accepted'[Len(accepted) + 1] = e
    BY <1>2, <1>3, <1>8, AppendProperties
  <1>10. /\ pending' \in Seq(Waiting) /\ Len(pending') = Len(pending) + 1
         /\ \A i \in 1 .. Len(pending) : pending'[i] = pending[i]
         /\ pending'[Len(pending) + 1] = w
    BY <1>2, <1>5, <1>8, AppendProperties
  <1> QED
    BY <1>1, <1>7, <1>9, <1>10 DEF e, w, d

\* A byte the new request wrote is its own, any other was left by an earlier one.
LEMMA AcceptUpdatesMemory ==
    ASSUME AgentInv, Accept, NEW l \in Lines, NEW b \in 0 .. Size - 1
    PROVE  LeftBefore(Len(accepted) + 1, l, b, memory[l][b])'
  <1> DEFINE Hits == offer.write /\ offer.addr = l /\ b \in EffectiveMask(offer)
  <1>1. AgentTyped /\ Len(accepted) \in Nat /\ memory \in [Lines -> Bytes]
    BY Lengths DEF AgentInv, AgentTyped
  <1>2. PICK n \in Nat : n = Len(accepted)
    BY <1>1
  <1>3. PICK v : v = memory[l][b]
    OBVIOUS
  <1>4. PICK u : u = memory'[l][b]
    OBVIOUS
  <1>5. /\ Len(accepted') = n + 1
        /\ \A i \in 1 .. n : accepted'[i] = accepted[i]
        /\ accepted'[n + 1].request = offer
        /\ offer \in Requests /\ offer.addr \in Lines
    <2>1. accepted'[n + 1] = [request |-> offer, ready_cycle |-> cycle + offer.latency]
      BY <1>1, <1>2, AcceptAppends
    <2> QED
      BY <1>1, <1>2, <2>1, AcceptAppends, AgentRequestsAssumption
  <1>6. u = IF Hits THEN offer.data[b] ELSE v
    <2>1. memory' = IF offer.write THEN [memory EXCEPT ![offer.addr] = Stored(offer)] ELSE memory
      BY DEF Accept
    <2> QED
      BY <1>1, <1>3, <1>4, <1>5, <2>1 DEF Stored
  <1>7. LeftBefore(n + 1, l, b, v)'
    <2>1. LeftBefore(Len(accepted) + 1, l, b, memory[l][b])
      BY DEF AgentInv, DataAnswers
    <2>2. LeftBefore(n + 1, l, b, v)
      BY <1>2, <1>3, <2>1
    <2>3. PICK m \in Nat : m = n + 1
      OBVIOUS
    <2>4. LeftBefore(m, l, b, v)' <=> LeftBefore(m, l, b, v)
      BY <1>1, <1>2, <1>5, <2>3, PastIsPast
    <2> QED
      BY <2>2, <2>3, <2>4
  <1>8. CASE Hits
    <2>1. LastWrite(n + 2, l, b)' = {n + 1}
      BY <1>5, <1>8 DEF LastWrite, EffectiveMask
    <2>2. u = accepted'[n + 1].request.data[b]
      BY <1>5, <1>6, <1>8
    <2>3. LeftBefore(n + 2, l, b, u)'
      BY <2>1, <2>2 DEF LeftBefore
    <2> QED
      BY <1>4, <1>5, <2>3
  <1>9. CASE ~Hits
    <2>1. LastWrite(n + 2, l, b)' = LastWrite(n + 1, l, b)'
      BY <1>5, <1>9 DEF LastWrite, EffectiveMask
    <2>2. LeftBefore(n + 2, l, b, u)'
      BY <1>6, <1>7, <1>9, <2>1 DEF LeftBefore
    <2> QED
      BY <1>4, <1>5, <2>2
  <1> QED
    BY <1>8, <1>9

LEMMA AcceptKeepsInv ==
    ASSUME AgentInv, Accept
    PROVE  AgentInv'
  <1> DEFINE n == Len(accepted)
             p == Len(pending)
  <1>1. AgentTyped /\ IdsRunOn /\ OnTime /\ DataAnswers
    BY DEF AgentInv
  <1>2. /\ n \in Nat /\ p \in Nat /\ Gone \in Nat /\ Gone + p = n /\ cycle \in Nat
        /\ Len(collected) <= Gone
        /\ DOMAIN pending = 1 .. p
        /\ \A r \in Range(pending) \cup Range(collected) \cup Range(delivered) :
              r.txn_id \in 1 .. n
    BY <1>1, IdsKnown, Lengths DEF AgentTyped
  <1>3. /\ collected = <<>> /\ collected' = <<>> /\ drain' = drain /\ cycle' = cycle
        /\ delivered' = delivered /\ lost' = lost /\ offer' = None
    BY <1>1 DEF Accept, AgentTyped
  <1>4. /\ offer \in Requests /\ offer.latency \in Nat
        /\ accepted' \in Seq(Acceptance) /\ Len(accepted') = n + 1
        /\ \A i \in 1 .. n : accepted'[i] = accepted[i]
        /\ accepted'[n + 1].request = offer
        /\ accepted'[n + 1].ready_cycle = cycle + offer.latency
        /\ pending' \in Seq(Waiting) /\ Len(pending') = p + 1
        /\ \A i \in 1 .. p : pending'[i] = pending[i]
        /\ pending'[p + 1].txn_id = n + 1
        /\ pending'[p + 1].data = IF offer.write THEN Zero ELSE memory[offer.addr]
        /\ pending'[p + 1].ready_cycle = cycle + offer.latency
        /\ memory' \in [Lines -> Bytes]
    BY <1>1, AcceptAppends
  <1> HIDE DEF n, p
  <1>5. AgentTyped'
    BY <1>1, <1>3, <1>4 DEF AgentTyped
  <1>6. Gone' = Gone
    BY <1>2, <1>4 DEF Gone, n, p
  <1>7. IdsRunOn'
    <2>1. Len(collected') + Len(pending') <= Len(accepted')
      BY <1>2, <1>3, <1>4
    <2>2. ASSUME NEW i \in 1 .. Len(pending')
          PROVE  /\ pending'[i].txn_id = Gone' + i
                 /\ pending'[i].ready_cycle = accepted'[Gone' + i].ready_cycle
      <3>1. CASE i \in 1 .. p
        <4>1. Gone + i \in 1 .. n
          BY <1>2, <3>1
        <4>2. /\ pending[i].txn_id = Gone + i
              /\ pending[i].ready_cycle = accepted[Gone + i].ready_cycle
          BY <1>1, <3>1 DEF IdsRunOn, p
        <4> QED
          BY <1>4, <1>6, <3>1, <4>1, <4>2
      <3>2. CASE i \notin 1 .. p
        <4>1. i = p + 1 /\ Gone + i = n + 1
          BY <1>2, <1>4, <2>2, <3>2
        <4> QED
          BY <1>4, <1>6, <4>1
      <3> QED
        BY <3>1, <3>2
    <2>3. Settled' = Settled
      BY <1>3, <1>6 DEF Settled
    <2>4. /\ \A i \in 1 .. Len(collected') : collected'[i].txn_id = Settled' + i
          /\ SettledInOrder'
      BY <1>1, <1>3, <2>3 DEF IdsRunOn, SettledInOrder
    <2> QED
      BY <2>1, <2>2, <2>4 DEF IdsRunOn
  <1>8. OnTime'
    <2>1. \A j \in 1 .. Gone' : accepted'[j].ready_cycle <= cycle'
      <3>1. \A j \in 1 .. Gone : j \in 1 .. n /\ accepted[j].ready_cycle <= cycle
        BY <1>1, <1>2 DEF OnTime
      <3> QED
        BY <1>3, <1>4, <1>6, <3>1
    <2>2. pending'[1].ready_cycle >= cycle'
      <3>1. CASE p = 0
        BY <1>2, <1>3, <1>4, <3>1
      <3>2. CASE p # 0
        <4>1. 1 \in 1 .. p /\ pending # <<>>
          BY <1>1, <1>2, <3>2, EmptySeq DEF p
        <4>2. pending[1].ready_cycle >= cycle
          BY <1>1, <4>1 DEF OnTime
        <4> QED
          BY <1>3, <1>4, <4>1, <4>2
      <3> QED
        BY <3>1, <3>2
    <2>3. \A r \in Range(collected') \cup Range(delivered') : WhenDue(r.txn_id, r.cycle)'
      BY <1>3, <1>4, ResponsesStay DEF n
    <2> QED
      BY <2>1, <2>2, <2>3 DEF OnTime
  <1>9. DataAnswers'
    <2>1. \A l \in Lines, b \in 0 .. Size - 1 : LeftBefore(Len(accepted) + 1, l, b, memory[l][b])'
      BY AcceptUpdatesMemory
    <2>2. ASSUME NEW r \in Range(collected') \cup Range(delivered')
          PROVE  Answers(r.txn_id, r.data)'
      BY <1>3, <1>4, <2>2, ResponsesStay DEF n
    <2>3. ASSUME NEW r \in Range(pending')
          PROVE  Answers(r.txn_id, r.data)'
      <3>1. PICK i \in 1 .. p + 1 : r = pending'[i]
        <4>1. DOMAIN pending' = 1 .. p + 1
          BY <1>4, LenProperties
        <4> QED
          BY <2>3, <4>1 DEF Range
      <3>2. CASE i \in 1 .. p
        <4>1. r \in Range(pending)
          BY <1>2, <1>4, <3>1, <3>2 DEF Range
        <4> QED
          BY <1>4, <4>1, ResponsesStay DEF n
      <3>3. CASE i = p + 1
        <4>1. PICK m \in Nat : m = n + 1
          BY <1>2
        <4>2. r.txn_id = m /\ accepted'[m].request = offer
          BY <1>4, <3>1, <3>3, <4>1
        <4>3. PICK l \in Lines : l = offer.addr
          BY <1>4, AgentRequestsAssumption
        <4>4. ASSUME ~offer.write
              PROVE  \A b \in 0 .. Size - 1 : LeftBefore(m, l, b, r.data[b])'
          <5> TAKE b \in 0 .. Size - 1
          <5>2. r.data = memory[l]
            BY <1>4, <3>1, <3>3, <4>4, <4>3
          <5>3. LeftBefore(Len(accepted) + 1, l, b, memory[l][b])
            BY <1>1 DEF DataAnswers
          <5>4. PICK v : v = r.data[b]
            OBVIOUS
          <5>5. LeftBefore(m, l, b, v)
            BY <4>1, <5>2, <5>3, <5>4 DEF n
          <5>6. LeftBefore(m, l, b, v)' <=> LeftBefore(m, l, b, v)
            <6>1. m <= Len(accepted) + 1
              BY <1>2, <4>1 DEF n
            <6> QED
              BY <1>1, <1>4, <6>1, PastIsPast DEF n
          <5>7. LeftBefore(m, l, b, v)'
            BY <5>5, <5>6
          <5> QED
            BY <5>4, <5>7
        <4>5. Answers(m, r.data)'
          BY <4>2, <4>4, <4>3 DEF Answers
        <4> QED
          BY <4>2, <4>5
      <3> QED
        BY <1>2, <3>1, <3>2, <3>3
    <2> QED
      BY <2>1, <2>2, <2>3 DEF DataAnswers
  <1> QED
    BY <1>5, <1>7, <1>8, <1>9 DEF AgentInv

-----------------------------------------------------------------------------
(***************************************************************************)
(* The other steps.                                                        *)
(***************************************************************************)
LEMMA TickKeepsAnswers ==
    ASSUME AgentInv, cycle' = cycle + 1, pending' = Left,
           UNCHANGED <<memory, accepted>>,
           \A r \in Range(collected') \cup Range(delivered') :
              r \in Range(collected) \cup Range(delivered) \cup Range(Popped)
    PROVE  OnTime' /\ DataAnswers'
  <1>1. accepted' = accepted /\ memory' = memory
    OBVIOUS
  <1>2. AgentTyped
    BY DEF AgentInv
  <1>3. ASSUME NEW r \in Range(Popped)
        PROVE  Answers(r.txn_id, r.data)' /\ WhenDue(r.txn_id, r.cycle)'
    <2>1. PICK n : n = r.txn_id
      OBVIOUS
    <2>2. n \in 1 .. Len(accepted) /\ Answers(n, r.data) /\ WhenDue(n, r.cycle)
      BY <1>3, <2>1, PopsInTime
    <2>3. /\ \A d : Answers(n, d)' <=> Answers(n, d)
          /\ \A c : WhenDue(n, c)' <=> WhenDue(n, c)
      BY <1>1, <1>2, <2>2, ResponseStays
    <2> QED
      BY <2>1, <2>2, <2>3
  <1>4. \A r \in Range(collected') \cup Range(delivered') :
           Answers(r.txn_id, r.data)' /\ WhenDue(r.txn_id, r.cycle)'
    BY <1>1, <1>3, ResponsesStay
  <1>5. \A r \in Range(pending') : Answers(r.txn_id, r.data)'
    BY <1>1, ResponsesStay, TickKeepsPending
  <1>6. \A l \in Lines, b \in 0 .. Size - 1 :
           LeftBefore(Len(accepted) + 1, l, b, memory[l][b])'
    <2> TAKE l \in Lines, b \in 0 .. Size - 1
    <2>1. LeftBefore(Len(accepted) + 1, l, b, memory[l][b])
      BY DEF AgentInv, DataAnswers
    <2>2. PICK n \in Nat : n = Len(accepted) + 1
      BY <1>2, Lengths
    <2>3. PICK v : v = memory[l][b]
      OBVIOUS
    <2>4. LeftBefore(n, l, b, v)
      BY <2>1, <2>2, <2>3
    <2>5. LeftBefore(n, l, b, v)' <=> LeftBefore(n, l, b, v)
      BY <1>1, <1>2, <2>2, PastIsPast
    <2>6. v = memory'[l][b] /\ n = Len(accepted') + 1
      BY <1>1, <2>2, <2>3
    <2> QED
      BY <2>4, <2>5, <2>6
  <1>7. DataAnswers'
    BY <1>4, <1>5, <1>6 DEF DataAnswers
  <1>8. OnTime'
    BY <1>1, <1>4, TickKeepsPending DEF OnTime
  <1> QED
    BY <1>7, <1>8

\* The next responses are delivered behind the others.
LEMMA SettlingInOrder ==
    ASSUME AgentInv, NEW m \in Nat, lost' = lost, Settled' = Settled + m,
           Len(delivered') = Len(delivered) + m,
           \A i \in 1 .. Len(delivered) : delivered'[i] = delivered[i],
           \A j \in 1 .. m : delivered'[Len(delivered) + j].txn_id = Settled + j
    PROVE  SettledInOrder'
  <1> DEFINE d == Len(delivered)
             s == Settled
             id(i) == delivered'[i].txn_id
  <1>1. AgentTyped /\ SettledInOrder
    BY DEF AgentInv, IdsRunOn
  <1>2. d \in Nat /\ s \in Nat
    <2>1. Gone \in Nat /\ Len(collected) <= Gone /\ Len(collected) \in Nat
      BY <1>1, IdsKnown, Lengths
    <2> QED
      BY <1>1, <2>1, Lengths DEF Settled
  <1>3. /\ lost \subseteq 1 .. s
        /\ \A i \in 1 .. d : id(i) \in 1 .. s /\ id(i) \notin lost
        /\ \A i, j \in 1 .. d : i < j => id(i) < id(j)
        /\ \A n \in 1 .. s : n \in lost \/ \E i \in 1 .. d : id(i) = n
    BY <1>1 DEF SettledInOrder
  <1>4. ASSUME NEW i \in 1 .. d + m, i \notin 1 .. d
        PROVE  i - d \in 1 .. m /\ id(i) = s + (i - d)
    <2>1. i - d \in 1 .. m /\ i = d + (i - d)
      BY <1>2, <1>4
    <2> QED
      BY <2>1
  <1>5. Settled' = s + m /\ Len(delivered') = d + m
    OBVIOUS
  <1> HIDE DEF d, s, id
  <1>6. lost' \subseteq 1 .. s + m
    BY <1>2, <1>3
  <1>7. ASSUME NEW i \in 1 .. d + m
        PROVE  id(i) \in 1 .. s + m /\ id(i) \notin lost'
    <2>1. CASE i \in 1 .. d
      BY <1>2, <1>3, <2>1
    <2>2. CASE i \notin 1 .. d
      BY <1>2, <1>3, <1>4, <2>2
    <2> QED
      BY <2>1, <2>2
  <1>8. ASSUME NEW i \in 1 .. d + m, NEW j \in 1 .. d + m, i < j
        PROVE  id(i) < id(j)
    <2>1. CASE j \in 1 .. d
      BY <1>2, <1>3, <1>8, <2>1
    <2>2. CASE i \in 1 .. d /\ j \notin 1 .. d
      BY <1>2, <1>3, <1>4, <2>2
    <2>3. CASE i \notin 1 .. d /\ j \notin 1 .. d
      BY <1>2, <1>4, <1>8, <2>3
    <2> QED
      BY <1>2, <1>8, <2>1, <2>2, <2>3
  <1>9. ASSUME NEW n \in 1 .. s + m
        PROVE  n \in lost' \/ \E i \in 1 .. d + m : id(i) = n
    <2>1. CASE n \in 1 .. s
      BY <1>2, <1>3, <2>1
    <2>2. CASE n \notin 1 .. s
      <3>1. /\ d + (n - s) \in 1 .. d + m /\ d + (n - s) \notin 1 .. d
            /\ s + ((d + (n - s)) - d) = n
        BY <1>2, <1>9, <2>2
      <3>2. id(d + (n - s)) = n
        BY <1>4, <3>1
      <3> QED
        BY <3>1, <3>2
    <2> QED
      BY <2>1, <2>2
  <1> QED
    BY <1>5, <1>6, <1>7, <1>8, <1>9 DEF SettledInOrder, id

LEMMA TickKeepsInv ==
    ASSUME AgentInv, Tick
    PROVE  AgentInv'
  <1> DEFINE k == DueCount
             d == Len(delivered)
  <1>1. AgentTyped /\ IdsRunOn
    BY DEF AgentInv
  <1>2. /\ cycle' = cycle + 1 /\ pending' = Left /\ delivered' = delivered \o Popped
        /\ memory' = memory /\ offer' = offer /\ drain' = drain /\ lost' = lost
        /\ accepted' = accepted /\ collected = <<>> /\ collected' = <<>>
    BY <1>1 DEF Tick, MayTick, AgentTyped
  <1>3. /\ Popped \in Seq(Answer) /\ Len(Popped) = k /\ k \in Nat
        /\ Left \in Seq(Waiting) /\ k <= Len(pending)
        /\ \A i \in 1 .. k : Popped[i].txn_id = Gone + i
    BY <1>1, TickSplits, DueIsPrefix, PopsInTime
  <1>4. delivered \in Seq(Answer) /\ d \in Nat
    BY <1>1, Lengths DEF AgentTyped
  <1>5. /\ Gone' = Gone + k /\ Gone \in Nat
        /\ Len(pending') = Len(pending) - k /\ Len(pending) \in Nat
        /\ Gone + Len(pending) = Len(accepted)
        /\ \A i \in 1 .. Len(pending') :
                 /\ pending'[i].txn_id = Gone' + i
                 /\ pending'[i].ready_cycle = accepted'[Gone' + i].ready_cycle
    BY <1>1, <1>2, TickKeepsPending, IdsKnown, Lengths
  <1> HIDE DEF k, d
  <1>6. /\ delivered' \in Seq(Answer) /\ Len(delivered') = d + k
        /\ \A i \in 1 .. d + k :
              delivered'[i] = IF i <= d THEN delivered[i] ELSE Popped[i - d]
    BY <1>2, <1>3, <1>4, ConcatProperties DEF d
  <1>7. AgentTyped'
    BY <1>1, <1>2, <1>3, <1>6 DEF AgentTyped
  <1>8. ASSUME NEW i \in 1 .. d + k
        PROVE  /\ i \in 1 .. d => delivered'[i] = delivered[i]
               /\ i \notin 1 .. d => i - d \in 1 .. k /\ delivered'[i].txn_id = Gone + (i - d)
    <2>1. CASE i \in 1 .. d
      BY <1>6, <2>1
    <2>2. CASE i \notin 1 .. d
      <3>1. i - d \in 1 .. k /\ ~(i <= d)
        BY <1>3, <1>4, <2>2
      <3> QED
        BY <1>3, <1>6, <2>2, <3>1
    <2> QED
      BY <2>1, <2>2
  <1>9. IdsRunOn'
    <2>1. Len(collected') = 0 /\ Len(collected) = 0
      BY <1>2
    <2>2. Len(collected') + Len(pending') <= Len(accepted')
      BY <1>2, <1>3, <1>5, <2>1
    <2>3. Settled' = Settled + k /\ Settled = Gone
      BY <1>3, <1>5, <2>1 DEF Settled
    <2>4. SettledInOrder'
      <3>1. \A i \in 1 .. d : delivered'[i] = delivered[i]
        BY <1>3, <1>4, <1>8
      <3>2. ASSUME NEW j \in 1 .. k
            PROVE  delivered'[d + j].txn_id = Settled + j
        <4>1. d + j \in 1 .. d + k /\ d + j \notin 1 .. d /\ (d + j) - d = j
          BY <1>3, <1>4, <3>2
        <4>2. delivered'[d + j].txn_id = Gone + ((d + j) - d)
          BY <1>8, <4>1
        <4> QED
          BY <2>3, <4>1, <4>2
      <3> QED
        BY <1>2, <1>3, <1>6, <2>3, <3>1, <3>2, SettlingInOrder DEF d
    <2> QED
      BY <1>5, <2>1, <2>2, <2>4 DEF IdsRunOn
  <1>10. OnTime' /\ DataAnswers'
    <2>1. Range(delivered') = Range(delivered) \cup Range(Popped)
      BY <1>2, <1>3, <1>4, RangeOfConcat
    <2>2. Range(collected') = Range(collected)
      BY <1>2
    <2> QED
      BY <1>2, <2>1, <2>2, TickKeepsAnswers
  <1> QED
    BY <1>7, <1>9, <1>10 DEF AgentInv

LEMMA DrainTickKeepsInv ==
    ASSUME AgentInv, DrainTick
    PROVE  AgentInv'
  <1> DEFINE k == DueCount
             d == Len(delivered)
             c == Len(collected)
  <1>1. AgentTyped /\ IdsRunOn
    BY DEF AgentInv
  <1>2. /\ cycle' = cycle + 1 /\ pending' = Left /\ offer' = offer
        /\ memory' = memory /\ lost' = lost /\ accepted' = accepted
    BY DEF DrainTick
  <1>3. /\ Popped \in Seq(Answer) /\ Len(Popped) = k /\ k \in Nat
        /\ Left \in Seq(Waiting) /\ k <= Len(pending)
        /\ \A i \in 1 .. k : Popped[i].txn_id = Gone + i
    BY <1>1, TickSplits, DueIsPrefix, PopsInTime
  <1>4. /\ delivered \in Seq(Answer) /\ d \in Nat
        /\ collected \in Seq(Answer) /\ c \in Nat
    BY <1>1, Lengths DEF AgentTyped
  <1>5. /\ Gone' = Gone + k /\ Gone \in Nat /\ c <= Gone
        /\ Len(pending') = Len(pending) - k /\ Len(pending) \in Nat
        /\ Gone + Len(pending) = Len(accepted)
        /\ \A i \in 1 .. Len(pending') :
                 /\ pending'[i].txn_id = Gone' + i
                 /\ pending'[i].ready_cycle = accepted'[Gone' + i].ready_cycle
    BY <1>1, <1>2, TickKeepsPending, IdsKnown, Lengths
  <1>6. /\ \A i \in 1 .. c : collected[i].txn_id = Gone - c + i
        /\ SettledInOrder /\ Settled = Gone - c
    BY <1>1 DEF IdsRunOn, Settled
  <1> HIDE DEF k, d, c
  <1>7. CASE Left = <<>>
    <2> DEFINE told == delivered \o collected
    <2>1. delivered' = told \o Popped /\ collected' = <<>> /\ drain' = None
      BY <1>7 DEF DrainTick
    <2>2. /\ told \in Seq(Answer) /\ Len(told) = d + c
          /\ \A i \in 1 .. d + c : told[i] = IF i <= d THEN delivered[i] ELSE collected[i - d]
          /\ Range(told) = Range(delivered) \cup Range(collected)
      BY <1>4, ConcatProperties, RangeOfConcat DEF d, c
    <2> HIDE DEF told
    <2>3. /\ delivered' \in Seq(Answer) /\ Len(delivered') = d + c + k
          /\ \A i \in 1 .. d + c + k :
                delivered'[i] = IF i <= d + c THEN told[i] ELSE Popped[i - (d + c)]
          /\ Range(delivered') = Range(told) \cup Range(Popped)
      <3> DEFINE all == told \o Popped
      <3>1. /\ all \in Seq(Answer) /\ Len(all) = Len(told) + Len(Popped)
            /\ \A i \in 1 .. Len(told) + Len(Popped) :
                  all[i] = IF i <= Len(told) THEN told[i] ELSE Popped[i - Len(told)]
        BY <1>3, <2>2, ConcatProperties
      <3>2. Range(all) = Range(told) \cup Range(Popped)
        BY <1>3, <2>2, RangeOfConcat
      <3>3. delivered' = all
        BY <2>1
      <3> HIDE DEF all
      <3> QED
        BY <1>3, <2>2, <3>1, <3>2, <3>3
    <2>4. AgentTyped'
      BY <1>1, <1>2, <1>3, <2>1, <2>3 DEF AgentTyped
    <2>5. Len(collected') = 0
      BY <2>1
    <2>6. \A i \in 1 .. d : delivered'[i] = delivered[i]
      <3> TAKE i \in 1 .. d
      <3>1. i <= d /\ i <= d + c /\ i \in 1 .. d + c /\ i \in 1 .. d + c + k
        BY <1>3, <1>4
      <3> QED
        BY <2>2, <2>3, <3>1
    <2>7. ASSUME NEW j \in 1 .. c + k
          PROVE  delivered'[d + j].txn_id = Settled + j
      <3> DEFINE i == d + j
      <3>0. i \in 1 .. d + c + k /\ ~(i <= d) /\ i - d = j
        BY <1>3, <1>4, <2>7
      <3> HIDE DEF i
      <3>1. CASE j <= c
        <4>1. j \in 1 .. c /\ i <= d + c /\ i \in 1 .. d + c
          BY <1>3, <1>4, <2>7, <3>0, <3>1
        <4>2. delivered'[i] = collected[j]
          BY <2>2, <2>3, <3>0, <4>1
        <4> QED
          BY <1>6, <4>1, <4>2 DEF i
      <3>2. CASE ~(j <= c)
        <4>1. j - c \in 1 .. k /\ ~(i <= d + c) /\ i - (d + c) = j - c
          BY <1>3, <1>4, <2>7, <3>0, <3>2
        <4>2. delivered'[i] = Popped[j - c]
          BY <2>3, <3>0, <4>1
        <4>3. Popped[j - c].txn_id = Gone + (j - c)
          BY <1>3, <4>1
        <4>4. Gone + (j - c) = (Gone - c) + j
          BY <1>4, <1>5, <2>7
        <4> QED
          BY <1>6, <4>2, <4>3, <4>4 DEF i
      <3> QED
        BY <3>1, <3>2
    <2>8. IdsRunOn'
      <3>1. Len(collected') + Len(pending') <= Len(accepted')
        BY <1>2, <1>3, <1>5, <2>5
      <3>2. Settled' = Settled + (c + k)
        <4>1. Settled' = Gone' - 0
          BY <2>5 DEF Settled
        <4>2. Gone' - 0 = (Gone - c) + (c + k)
          BY <1>3, <1>4, <1>5
        <4> QED
          BY <1>6, <4>1, <4>2
      <3>3. SettledInOrder'
        <4>1. Len(delivered') = d + (c + k) /\ c + k \in Nat
          BY <1>3, <1>4, <2>3
        <4> QED
          BY <1>2, <2>6, <2>7, <3>2, <4>1, SettlingInOrder DEF d
      <3> QED
        BY <1>5, <2>5, <3>1, <3>3 DEF IdsRunOn
    <2>9. OnTime' /\ DataAnswers'
      <3>1. Range(collected') = {}
        BY <2>1 DEF Range
      <3> QED
        BY <1>2, <2>2, <2>3, <3>1, TickKeepsAnswers
    <2> QED
      BY <2>4, <2>8, <2>9 DEF AgentInv
  <1>8. CASE Left # <<>>
    <2>1. /\ delivered' = delivered /\ collected' = collected \o Popped
          /\ drain \in Nat \ {0} /\ drain' = drain - 1
      BY <1>8 DEF DrainTick
    <2>2. /\ collected' \in Seq(Answer) /\ Len(collected') = c + k
          /\ \A i \in 1 .. c + k :
                collected'[i] = IF i <= c THEN collected[i] ELSE Popped[i - c]
          /\ Range(collected') = Range(collected) \cup Range(Popped)
      <3> DEFINE told == collected \o Popped
      <3>1. /\ told \in Seq(Answer) /\ Len(told) = Len(collected) + Len(Popped)
            /\ \A i \in 1 .. Len(collected) + Len(Popped) :
                  told[i] = IF i <= Len(collected) THEN collected[i]
                            ELSE Popped[i - Len(collected)]
        BY <1>3, <1>4, ConcatProperties
      <3>2. Range(told) = Range(collected) \cup Range(Popped)
        BY <1>3, <1>4, RangeOfConcat
      <3>3. collected' = told
        BY <2>1
      <3> HIDE DEF told
      <3> QED
        BY <1>3, <3>1, <3>2, <3>3 DEF c
    <2>3. drain' \in Nat /\ drain' # None
      BY <2>1, DrainAssumption
    <2>4. AgentTyped'
      BY <1>1, <1>2, <1>3, <1>4, <2>1, <2>2, <2>3 DEF AgentTyped
    <2>5. ASSUME NEW i \in 1 .. c + k
          PROVE  collected'[i].txn_id = Gone' - (c + k) + i
      <3>1. CASE i <= c
        <4>1. i \in 1 .. c /\ collected'[i] = collected[i]
          BY <1>4, <2>2, <2>5, <3>1
        <4> QED
          BY <1>3, <1>4, <1>5, <1>6, <4>1
      <3>2. CASE ~(i <= c)
        <4>0. i - c \in 1 .. k
          BY <1>3, <1>4, <2>5, <3>2
        <4>1. i - c \in 1 .. k /\ collected'[i] = Popped[i - c]
          BY <2>2, <2>5, <3>2, <4>0
        <4>2. Popped[i - c].txn_id = Gone + (i - c)
          BY <1>3, <4>1
        <4> QED
          BY <1>3, <1>4, <1>5, <4>1, <4>2
      <3> QED
        BY <3>1, <3>2
    <2>6. Settled' = Settled /\ Settled' = Gone' - (c + k)
      <3>1. Settled' = Gone' - (c + k)
        BY <2>2 DEF Settled
      <3>2. Gone' - (c + k) = Gone - c
        BY <1>3, <1>4, <1>5
      <3> QED
        BY <1>6, <3>1, <3>2
    <2>7. SettledInOrder'
      BY <1>2, <1>6, <2>1, <2>6 DEF SettledInOrder
    <2>8. IdsRunOn'
      <3>1. Len(collected') + Len(pending') <= Len(accepted')
        <4>1. (c + k) + (Len(pending) - k) <= Len(accepted)
          BY <1>3, <1>4, <1>5
        <4> QED
          BY <1>2, <1>5, <2>2, <4>1
      <3> QED
        BY <1>5, <2>2, <2>5, <2>6, <2>7, <3>1 DEF IdsRunOn
    <2>9. OnTime' /\ DataAnswers'
      BY <1>2, <2>1, <2>2, TickKeepsAnswers
    <2> QED
      BY <2>4, <2>8, <2>9 DEF AgentInv
  <1> QED
    BY <1>7, <1>8

LEMMA AgentInitInv == AgentInit => AgentInv
  <1> SUFFICES ASSUME AgentInit
               PROVE  AgentInv
    OBVIOUS
  <1>1. /\ cycle = 0 /\ pending = <<>> /\ collected = <<>> /\ accepted = <<>>
        /\ delivered = <<>> /\ lost = {} /\ offer = None /\ drain = None
        /\ memory = [l \in Lines |-> Zero]
    BY DEF AgentInit
  <1>2. Zero \in Bytes /\ \A b \in 0 .. Size - 1 : Zero[b] = 0
    BY DEF Zero, Bytes
  <1>3. AgentTyped
    BY <1>1, <1>2, EmptySeq DEF AgentTyped
  <1>4. Len(<<>>) = 0 /\ Gone = 0
    BY <1>1 DEF Gone
  <1>5. IdsRunOn
    BY <1>1, <1>4 DEF IdsRunOn, SettledInOrder, Settled
  <1>6. Range(<<>>) = {}
    BY DEF Range
  <1>7. OnTime
    BY <1>1, <1>4, <1>6 DEF OnTime
  <1>8. \A l, b : LastWrite(1, l, b) = {}
    BY DEF LastWrite
  <1>9. DataAnswers
    BY <1>1, <1>2, <1>4, <1>6, <1>8 DEF DataAnswers, LeftBefore
  <1> QED
    BY <1>3, <1>5, <1>7, <1>9 DEF AgentInv

\* run_until_idle raises: what it had collected is settled, too.
LEMMA LosingInOrder ==
    ASSUME AgentInv, UNCHANGED <<pending, accepted, delivered>>, collected' = <<>>,
           lost' = lost \cup {collected[i].txn_id : i \in DOMAIN collected}
    PROVE  IdsRunOn'
  <1> DEFINE c == Len(collected)
             s == Settled
  <1>1. AgentTyped /\ IdsRunOn /\ SettledInOrder
    BY DEF AgentInv, IdsRunOn
  <1>2. /\ c \in Nat /\ DOMAIN collected = 1 .. c
        /\ Len(pending) \in Nat /\ Len(accepted) \in Nat
        /\ Gone \in Nat /\ c <= Gone /\ Gone + Len(pending) = Len(accepted)
    BY <1>1, Lengths, IdsKnown
  <1>3. s \in Nat /\ s + c = Gone
    BY <1>2 DEF Settled
  <1>4. Len(collected') = 0 /\ Gone' = Gone /\ Settled' = Gone
    BY <1>2 DEF Gone, Settled
  <1>5. \A i \in 1 .. c : collected[i].txn_id = s + i
    BY <1>1 DEF IdsRunOn
  <1>6. \A n : n \in lost' <=> n \in lost \/ n \in s + 1 .. s + c
    <2> SUFFICES ASSUME NEW n
                 PROVE  n \in {collected[i].txn_id : i \in DOMAIN collected} <=> n \in s + 1 .. s + c
      OBVIOUS
    <2>1. ASSUME NEW i \in 1 .. c, n = collected[i].txn_id
          PROVE  n \in s + 1 .. s + c
      BY <1>2, <1>3, <1>5, <2>1
    <2>2. ASSUME n \in s + 1 .. s + c
          PROVE  n - s \in 1 .. c /\ n = collected[n - s].txn_id
      <3>1. n - s \in 1 .. c /\ s + (n - s) = n
        BY <1>2, <1>3, <2>2
      <3> QED
        BY <1>5, <3>1
    <2> QED
      BY <1>2, <2>1, <2>2
  <1>7. /\ lost \subseteq 1 .. s
        /\ \A i \in 1 .. Len(delivered) :
              delivered[i].txn_id \in 1 .. s /\ delivered[i].txn_id \notin lost
        /\ \A n \in 1 .. s :
              n \in lost \/ \E i \in 1 .. Len(delivered) : delivered[i].txn_id = n
    BY <1>1 DEF SettledInOrder
  <1> HIDE DEF c, s
  <1>8. SettledInOrder'
    <2>1. ASSUME NEW n \in lost'
          PROVE  n \in 1 .. Gone
      <3>1. n \in 1 .. s \/ n \in s + 1 .. s + c
        BY <1>6, <1>7
      <3> QED
        BY <1>2, <1>3, <3>1
    <2>2. ASSUME NEW i \in 1 .. Len(delivered)
          PROVE  delivered[i].txn_id \in 1 .. Gone /\ delivered[i].txn_id \notin lost'
      <3>1. delivered[i].txn_id \in 1 .. s /\ delivered[i].txn_id \notin lost
        BY <1>7
      <3> QED
        BY <1>2, <1>3, <1>6, <3>1
    <2>3. ASSUME NEW n \in 1 .. Gone
          PROVE  n \in lost' \/ \E i \in 1 .. Len(delivered) : delivered[i].txn_id = n
      <3>1. CASE n \in 1 .. s
        BY <1>6, <1>7, <3>1
      <3>2. CASE n \notin 1 .. s
        <4>1. n \in s + 1 .. s + c
          BY <1>2, <1>3, <2>3, <3>2
        <4> QED
          BY <1>6, <4>1
      <3> QED
        BY <3>1, <3>2
    <2> QED
      BY <1>1, <1>4, <2>1, <2>2, <2>3 DEF SettledInOrder
  <1>9. Len(collected') + Len(pending') <= Len(accepted')
    BY <1>2, <1>4
  <1> QED
    BY <1>1, <1>4, <1>8, <1>9 DEF IdsRunOn

\* A step that touches neither the memory nor what was accepted, popped or told.
LEMMA BookkeepingKeepsInv ==
    ASSUME AgentInv, AgentTyped',
           UNCHANGED <<cycle, pending, memory, accepted, delivered>>,
           \/ collected' = collected /\ lost' = lost
           \/ /\ collected' = <<>>
              /\ lost' = lost \cup {collected[i].txn_id : i \in DOMAIN collected}
    PROVE  AgentInv'
  <1>1. AgentTyped /\ IdsRunOn /\ OnTime /\ DataAnswers
    BY DEF AgentInv
  <1>2. /\ cycle' = cycle /\ pending' = pending /\ memory' = memory
        /\ accepted' = accepted /\ delivered' = delivered /\ Gone' = Gone
    BY DEF Gone
  <1>3. Range(collected') \subseteq Range(collected)
    BY DEF Range
  <1>5. IdsRunOn'
    <2>1. CASE collected' = collected /\ lost' = lost
      BY <1>1, <1>2, <2>1 DEF IdsRunOn, SettledInOrder, Settled
    <2>2. CASE /\ collected' = <<>>
               /\ lost' = lost \cup {collected[i].txn_id : i \in DOMAIN collected}
      BY <2>2, LosingInOrder
    <2> QED
      BY <2>1, <2>2
  <1>6. /\ \A r \in Range(pending') \cup Range(collected') \cup Range(delivered') :
              Answers(r.txn_id, r.data)'
        /\ \A r \in Range(collected') \cup Range(delivered') : WhenDue(r.txn_id, r.cycle)'
    BY <1>2, <1>3, ResponsesStay
  <1>7. OnTime'
    BY <1>1, <1>2, <1>6 DEF OnTime
  <1>8. \A l \in Lines, b \in 0 .. Size - 1 :
           LeftBefore(Len(accepted) + 1, l, b, memory[l][b])'
    <2> TAKE l \in Lines, b \in 0 .. Size - 1
    <2>1. LeftBefore(Len(accepted) + 1, l, b, memory[l][b])
      BY <1>1 DEF DataAnswers
    <2>2. PICK n \in Nat : n = Len(accepted) + 1
      BY <1>1, Lengths
    <2>3. PICK v : v = memory[l][b]
      OBVIOUS
    <2>4. LeftBefore(n, l, b, v)
      BY <2>1, <2>2, <2>3
    <2>5. LeftBefore(n, l, b, v)' <=> LeftBefore(n, l, b, v)
      BY <1>1, <1>2, <2>2, PastIsPast
    <2>6. v = memory'[l][b] /\ n = Len(accepted') + 1
      BY <1>2, <2>2, <2>3
    <2> QED
      BY <2>4, <2>5, <2>6
  <1>9. DataAnswers'
    BY <1>6, <1>8 DEF DataAnswers
  <1> QED
    BY <1>1, <1>5, <1>7, <1>9 DEF AgentInv

LEMMA AgentNextInv == AgentInv /\ [AgentNext]_agentVars => AgentInv'
  <1> SUFFICES ASSUME AgentInv, [AgentNext]_agentVars
               PROVE  AgentInv'
    OBVIOUS
  <1>1. AgentTyped
    BY DEF AgentInv
  <1>2. ASSUME NEW r \in Requests, Offer(r)
        PROVE  AgentInv'
    <2>1. AgentTyped'
      BY <1>1, <1>2 DEF Offer, AgentTyped
    <2> QED
      BY <1>2, <2>1, BookkeepingKeepsInv DEF Offer
  <1>3. ASSUME NEW max_cycles \in DrainCycles, Drain(max_cycles)
        PROVE  AgentInv'
    <2>1. max_cycles \in Nat /\ max_cycles # None
      BY DrainAssumption
    <2>2. AgentTyped'
      BY <1>1, <1>3, <2>1 DEF Drain, AgentTyped
    <2> QED
      BY <1>3, <2>2, BookkeepingKeepsInv DEF Drain
  <1>4. CASE DrainTimeout
    <2>1. AgentTyped'
      BY <1>1, <1>4, EmptySeq DEF DrainTimeout, AgentTyped
    <2> QED
      BY <1>4, <2>1, BookkeepingKeepsInv DEF DrainTimeout
  <1>5. CASE UNCHANGED agentVars
    <2>1. AgentTyped'
      BY <1>1, <1>5 DEF agentVars, AgentTyped
    <2> QED
      BY <1>5, <2>1, BookkeepingKeepsInv DEF agentVars
  <1> QED
    BY <1>2, <1>3, <1>4, <1>5, AcceptKeepsInv, TickKeepsInv, DrainTickKeepsInv DEF AgentNext

-----------------------------------------------------------------------------
(***************************************************************************)
(* The types, the ids, the cycles and the data of ScriptedMemoryAgent's    *)
(* responses, whatever the pattern, the requests and the drains.           *)
(***************************************************************************)
THEOREM AgentInvariant == AgentSpec => []AgentInv
  BY AgentInitInv, AgentNextInv, PTL DEF AgentSpec

LEMMA IdsProperties ==
    ASSUME NEW S, NEW s \in Seq(S), \A i \in 1 .. Len(s) : s[i].txn_id \in Nat
    PROVE  /\ Ids(s) \in Seq(Nat) /\ Len(Ids(s)) = Len(s)
           /\ \A i \in 1 .. Len(s) : Ids(s)[i] = s[i].txn_id
  <1>1. Len(s) \in Nat /\ DOMAIN s = 1 .. Len(s)
    BY LenProperties
  <1>2. Ids(s) \in [1 .. Len(s) -> Nat]
    BY <1>1 DEF Ids
  <1>3. Ids(s) \in Seq(Nat)
    BY <1>1, <1>2, SeqDef
  <1> QED
    BY <1>1, <1>2, <1>3, LenProperties DEF Ids

\* The ids told: those delivered, and behind them all the others in their order.
LEMMA ToldIds ==
    ASSUME AgentInv
    PROVE  LET d == Len(delivered)
               m == Len(accepted) - Settled
           IN  /\ d \in Nat /\ m \in Nat /\ DOMAIN Told = 1 .. d + m
               /\ \A i \in 1 .. d : Told[i] = delivered[i].txn_id
               /\ \A i \in 1 .. m : Told[d + i] = Settled + i
  <1> DEFINE all == delivered \o collected
             d == Len(delivered)
             c == Len(collected)
             p == Len(pending)
             m == Len(accepted) - Settled
  <1>1. AgentTyped /\ IdsRunOn /\ SettledInOrder
    BY DEF AgentInv, IdsRunOn
  <1>2. /\ delivered \in Seq(Answer) /\ collected \in Seq(Answer) /\ pending \in Seq(Waiting)
        /\ d \in Nat /\ c \in Nat /\ p \in Nat /\ Len(accepted) \in Nat
    BY <1>1, Lengths DEF AgentTyped
  <1>3. /\ Gone \in Nat /\ Settled \in Nat /\ Settled + c = Gone
        /\ Gone + p = Len(accepted) /\ m = c + p
    <2>1. Gone \in Nat /\ c <= Gone /\ Gone + p = Len(accepted)
      BY IdsKnown
    <2> QED
      BY <1>2, <2>1 DEF Settled
  <1>4. /\ \A i \in 1 .. c : collected[i].txn_id = Settled + i
        /\ \A i \in 1 .. p : pending[i].txn_id = Gone + i
        /\ \A i \in 1 .. d : delivered[i].txn_id \in Nat
    <2>1. \A i \in 1 .. d : delivered[i].txn_id \in 1 .. Settled
      BY <1>1 DEF SettledInOrder
    <2> QED
      BY <1>1, <1>3, <2>1 DEF IdsRunOn
  <1>5. /\ all \in Seq(Answer) /\ Len(all) = d + c
        /\ \A i \in 1 .. d + c : all[i] = IF i <= d THEN delivered[i] ELSE collected[i - d]
    BY <1>2, ConcatProperties
  <1>6. Told = Ids(all) \o Ids(pending)
    BY DEF Told
  <1> HIDE DEF all, d, c, p, m
  <1>7. /\ \A i \in 1 .. d : all[i].txn_id = delivered[i].txn_id
        /\ \A i \in 1 .. c : all[d + i].txn_id = Settled + i
    <2>1. ASSUME NEW i \in 1 .. d PROVE all[i].txn_id = delivered[i].txn_id
      <3>1. i <= d /\ i \in 1 .. d + c
        BY <1>2
      <3> QED
        BY <1>5, <3>1
    <2>2. ASSUME NEW i \in 1 .. c PROVE all[d + i].txn_id = Settled + i
      <3>1. ~(d + i <= d) /\ d + i \in 1 .. d + c /\ (d + i) - d = i
        BY <1>2
      <3>2. all[d + i] = collected[i]
        BY <1>5, <3>1
      <3> QED
        BY <1>4, <3>2
    <2> QED
      BY <2>1, <2>2
  <1>8. \A i \in 1 .. Len(all) : all[i].txn_id \in Nat
    <2> TAKE i \in 1 .. Len(all)
    <2>1. CASE i <= d
      <3>1. i \in 1 .. d
        BY <1>2, <2>1
      <3> QED
        BY <1>4, <1>7, <3>1
    <2>2. CASE ~(i <= d)
      <3>1. i - d \in 1 .. c /\ d + (i - d) = i
        BY <1>2, <1>5, <2>2
      <3>2. all[i].txn_id = Settled + (i - d)
        BY <1>7, <3>1
      <3> QED
        BY <1>2, <1>3, <3>1, <3>2
    <2> QED
      BY <2>1, <2>2
  <1>9. \A i \in 1 .. Len(pending) : pending[i].txn_id \in Nat
    BY <1>2, <1>3, <1>4 DEF p
  <1> DEFINE x == Ids(all)
             y == Ids(pending)
  <1>10. /\ x \in Seq(Nat) /\ Len(x) = d + c
         /\ \A i \in 1 .. d + c : x[i] = all[i].txn_id
    BY <1>5, <1>8, IdsProperties
  <1>11. /\ y \in Seq(Nat) /\ Len(y) = p
         /\ \A i \in 1 .. p : y[i] = Gone + i
    BY <1>2, <1>4, <1>9, IdsProperties DEF p
  <1>12. Told = x \o y
    BY <1>6
  <1> HIDE DEF x, y
  <1>13. /\ Told \in Seq(Nat) /\ Len(Told) = d + c + p
         /\ \A i \in 1 .. d + c + p :
               Told[i] = IF i <= d + c THEN x[i] ELSE y[i - (d + c)]
    <2>1. /\ x \o y \in Seq(Nat) /\ Len(x \o y) = Len(x) + Len(y)
          /\ \A i \in 1 .. Len(x) + Len(y) :
                (x \o y)[i] = IF i <= Len(x) THEN x[i] ELSE y[i - Len(x)]
      BY <1>10, <1>11, ConcatProperties
    <2> QED
      BY <1>10, <1>11, <1>12, <2>1
  <1>14. DOMAIN Told = 1 .. d + m
    BY <1>2, <1>3, <1>13, LenProperties
  <1>15. ASSUME NEW i \in 1 .. d
         PROVE  Told[i] = delivered[i].txn_id
    <2>1. i <= d + c /\ i \in 1 .. d + c /\ i \in 1 .. d + c + p
      BY <1>2
    <2>2. Told[i] = x[i] /\ x[i] = all[i].txn_id
      BY <1>10, <1>13, <2>1
    <2> QED
      BY <1>7, <2>2
  <1>16. ASSUME NEW i \in 1 .. m
         PROVE  Told[d + i] = Settled + i
    <2>1. CASE i <= c
      <3>1. i \in 1 .. c /\ d + i <= d + c /\ d + i \in 1 .. d + c /\ d + i \in 1 .. d + c + p
        BY <1>2, <1>3, <2>1
      <3>2. Told[d + i] = x[d + i] /\ x[d + i] = all[d + i].txn_id
        BY <1>10, <1>13, <3>1
      <3> QED
        BY <1>7, <3>1, <3>2
    <2>2. CASE ~(i <= c)
      <3>1. /\ ~(d + i <= d + c) /\ d + i \in 1 .. d + c + p
            /\ (d + i) - (d + c) = i - c /\ i - c \in 1 .. p
        BY <1>2, <1>3, <2>2
      <3>2. Told[d + i] = y[i - c]
        BY <1>13, <3>1
      <3>3. y[i - c] = Gone + (i - c)
        BY <1>11, <3>1
      <3>4. Gone + (i - c) = Settled + i
        BY <1>2, <1>3, <2>2
      <3> QED
        BY <3>2, <3>3, <3>4
    <2> QED
      BY <2>1, <2>2
  <1>17. m \in Nat
    BY <1>2, <1>3
  <1> QED
    BY <1>2, <1>14, <1>15, <1>16, <1>17 DEF d, m

LEMMA IdsInOrder == AgentInv => DeliveredInOrder
  <1> SUFFICES ASSUME AgentInv
               PROVE  DeliveredInOrder
    OBVIOUS
  <1> DEFINE d == Len(delivered)
             s == Settled
             n == Len(accepted)
             m == n - s
             id(i) == Told[i]
  <1>1. /\ d \in Nat /\ m \in Nat /\ DOMAIN Told = 1 .. d + m
        /\ \A i \in 1 .. d : id(i) = delivered[i].txn_id
        /\ \A i \in 1 .. m : id(d + i) = s + i
    BY ToldIds
  <1>2. /\ s \in Nat /\ n \in Nat /\ DOMAIN accepted = 1 .. n
    <2>1. Gone \in Nat /\ Len(collected) <= Gone /\ AgentTyped
      BY IdsKnown DEF AgentInv
    <2> QED
      BY <2>1, Lengths DEF Settled
  <1>3. /\ lost \subseteq 1 .. s
        /\ \A i \in 1 .. d : id(i) \in 1 .. s /\ id(i) \notin lost
        /\ \A i, j \in 1 .. d : i < j => id(i) < id(j)
        /\ \A k \in 1 .. s : k \in lost \/ \E i \in 1 .. d : id(i) = k
    <2>1. SettledInOrder
      BY DEF AgentInv, IdsRunOn
    <2> QED
      BY <1>1, <2>1 DEF SettledInOrder
  <1> HIDE DEF d, s, n, id
  <1>4. ASSUME NEW i \in 1 .. d + m, i \notin 1 .. d
        PROVE  i - d \in 1 .. m /\ id(i) = s + (i - d)
    <2>1. i - d \in 1 .. m /\ d + (i - d) = i
      BY <1>1, <1>4
    <2> QED
      BY <1>1, <2>1
  <1>5. ASSUME NEW i \in 1 .. d + m, NEW j \in 1 .. d + m, i < j
        PROVE  id(i) < id(j)
    <2>1. CASE j \in 1 .. d
      BY <1>1, <1>3, <1>5, <2>1
    <2>2. CASE i \in 1 .. d /\ j \notin 1 .. d
      BY <1>1, <1>2, <1>3, <1>4, <2>2
    <2>3. CASE i \notin 1 .. d /\ j \notin 1 .. d
      BY <1>1, <1>2, <1>4, <1>5, <2>3
    <2> QED
      BY <1>1, <1>5, <2>1, <2>2, <2>3
  <1>6. ASSUME NEW i \in 1 .. d + m
        PROVE  id(i) \in 1 .. n /\ id(i) \notin lost
    <2>1. CASE i \in 1 .. d
      BY <1>1, <1>2, <1>3, <2>1
    <2>2. CASE i \notin 1 .. d
      <3>1. id(i) \in 1 .. n /\ id(i) \notin 1 .. s
        BY <1>1, <1>2, <1>4, <2>2
      <3> QED
        BY <1>3, <3>1
    <2> QED
      BY <2>1, <2>2
  <1>7. ASSUME NEW k \in 1 .. n, k \notin lost
        PROVE  \E i \in 1 .. d + m : id(i) = k
    <2>1. CASE k \in 1 .. s
      <3>1. PICK i \in 1 .. d : id(i) = k
        BY <1>3, <1>7, <2>1
      <3> QED
        BY <1>1, <3>1
    <2>2. CASE k \notin 1 .. s
      <3>1. k - s \in 1 .. m /\ d + (k - s) \in 1 .. d + m /\ s + (k - s) = k
        BY <1>1, <1>2, <2>2
      <3> QED
        BY <1>1, <3>1
    <2> QED
      BY <2>1, <2>2
  <1>8. {Told[i] : i \in DOMAIN Told} = DOMAIN accepted \ lost
    <2>1. \A i \in DOMAIN Told : Told[i] \in DOMAIN accepted \ lost
      BY <1>1, <1>2, <1>6 DEF id
    <2>2. \A k \in DOMAIN accepted \ lost : \E i \in DOMAIN Told : Told[i] = k
      BY <1>1, <1>2, <1>7 DEF id
    <2> QED
      BY <2>1, <2>2
  <1>9. \A i, j \in DOMAIN Told : i < j => Told[i] < Told[j]
    BY <1>1, <1>5 DEF id
  <1> QED
    BY <1>8, <1>9 DEF DeliveredInOrder

(***************************************************************************)
(* Responses come in the order of acceptance, each once, although they are *)
(* held with latencies that compare in any way and may be drained between; *)
(* the only ones missing are those a drain had collected when it raised:   *)
(* accept, tick and run_until_idle.                                        *)
(***************************************************************************)
THEOREM OrderOfAcceptance == AgentSpec => []DeliveredInOrder
  BY IdsInOrder, AgentInvariant, PTL

(***************************************************************************)
(* tick pops a response in the cycle that makes it and those before it due *)
(* and in no other, also after a drain that raised.                        *)
(***************************************************************************)
THEOREM NeitherEarlyNorLate == AgentSpec => []DeliveredWhenDue
  <1>1. ASSUME AgentInv
        PROVE  DeliveredWhenDue
    <2>1. DOMAIN delivered = 1 .. Len(delivered)
      BY <1>1, Lengths DEF AgentInv
    <2>2. \A i \in DOMAIN delivered : WhenDue(delivered[i].txn_id, delivered[i].cycle)
      BY <1>1, <2>1 DEF AgentInv, OnTime, Range
    <2> QED
      BY <2>2 DEF DeliveredWhenDue, WhenDue
  <1> QED
    BY <1>1, AgentInvariant, PTL

(***************************************************************************)
(* A read is answered with what the writes accepted before it left in      *)
(* every byte, by their masks, and with no write accepted after it: accept *)
(* reads the memory at once, however late the answer comes.                *)
(***************************************************************************)
THEOREM ReadsInOrderOfAcceptance == AgentSpec => []ReadsSeeEarlierWrites
  <1>1. ASSUME AgentInv
        PROVE  ReadsSeeEarlierWrites
    <2>1. \A i \in DOMAIN delivered : Answers(delivered[i].txn_id, delivered[i].data)
      BY <1>1 DEF AgentInv, DataAnswers, Range
    <2> QED
      BY <2>1 DEF ReadsSeeEarlierWrites, Answers, LeftBefore
  <1> QED
    BY <1>1, AgentInvariant, PTL
=============================================================================
