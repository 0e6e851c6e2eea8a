------------------------- MODULE BohmVersions_proofs -------------------------
(***************************************************************************)
(* Proofs about BohmVersions, for every cluster and every workload: the    *)
(* parts of VersionInv are inductive, and they make the batches of Bohm    *)
(* serializable, but for torn reads, and its writes find their versions.   *)
(***************************************************************************)
EXTENDS BohmVersionsInv, FiniteSetTheorems, WellFoundedInduction, TLAPS

\* flush_messages writes the requests of one destination one after the other,
\* each once.
LEMMA SetToSeqFacts ==
  ASSUME NEW S, IsFiniteSet(S)
  PROVE  /\ SetToSeq(S) \in Seq(S)
         /\ \A x \in S : \E i \in 1..Len(SetToSeq(S)) : SetToSeq(S)[i] = x
         /\ \A i, j \in 1..Len(SetToSeq(S)) :
              SetToSeq(S)[i] = SetToSeq(S)[j] => i = j
<1> DEFINE n == Cardinality(S)
<1>1. n \in Nat /\ ExistsBijection(1..n, S)
  BY FS_CardinalityType
<1>2. PICK g \in Bijection(1..n, S) : TRUE
  BY <1>1 DEF ExistsBijection
<1>3. g \in [1..n -> S] /\ IsInjective(g)
  BY <1>2 DEF Bijection, Injection
<1>4. SetToSeq(S) \in [1..n -> S] /\ IsInjective(SetToSeq(S))
  BY <1>3 DEF SetToSeq
<1>5. SetToSeq(S) \in Seq(S) /\ Len(SetToSeq(S)) = n
  BY <1>1, <1>4
<1>6. IsFiniteSet(1..n) /\ Cardinality(1..n) = n
  BY <1>1, FS_Interval
<1>7. SetToSeq(S) \in Surjection(1..n, S)
  BY <1>4, <1>6, FS_Injection DEF Injection
<1> QED
  BY <1>1, <1>4, <1>5, <1>7 DEF IsInjective, Surjection

\* A row is asked for once: the requests of a transaction are finitely many.
LEMMA RequestsFacts ==
  ASSUME NEW type \in {"READ", "WRITE"}, NEW t \in Txns, NEW keys \in SUBSET Keys
  PROVE  /\ Requests(type, t, keys) \subseteq Message
         /\ IsFiniteSet(Requests(type, t, keys))
<1> DEFINE R == Requests(type, t, keys)
           Req(k) == [type |-> type, answer |-> FALSE, txn |-> t, key |-> k,
                      ok |-> FALSE, val |-> t]
           f == [k \in keys |-> Req(k)]
<1>1. R = {Req(k) : k \in keys}
  BY DEF Requests
<1>2. R \subseteq Message
  <2>1. ASSUME NEW k \in Keys PROVE Req(k) \in Message
    BY DEF Message, Values
  <2> HIDE DEF Req
  <2> QED
    BY <1>1, <2>1
<1>3. f \in Surjection(keys, R)
  BY <1>1 DEF Surjection
<1>4. IsFiniteSet(keys)
  BY FinitenessAssumption, FS_Subset
<1>5. IsFiniteSet(R)
  <2> HIDE DEF f, R
  <2> QED
    BY <1>3, <1>4, FS_Surjection
<1> QED
  BY <1>2, <1>5

\* What Send does to the channels: the old messages stay where they are, the
\* new ones follow, each once and on the channel it is routed to.
Extended(msgs) ==
  /\ chan' \in [Channels -> Seq(Message)]
  /\ \A c \in Channels : \A i \in 1..Len(chan[c]) :
       i \in 1..Len(chan'[c]) /\ chan'[c][i] = chan[c][i]
  /\ \A c \in Channels : \A i \in 1..Len(chan'[c]) :
       \/ i \in 1..Len(chan[c])
       \/ i > Len(chan[c]) /\ chan'[c][i] \in msgs /\ Route(chan'[c][i]) = c
  /\ \A c \in Channels : \A i, j \in 1..Len(chan'[c]) :
       i > Len(chan[c]) /\ j > Len(chan[c]) /\ chan'[c][i] = chan'[c][j] => i = j
  /\ \A m \in msgs : Route(m) \in Channels =>
       \E i \in 1..Len(chan'[Route(m)]) : chan'[Route(m)][i] = m

\* Sending adds the messages behind those in the queues, each to its route
\* and once.
LEMMA SendFacts ==
  ASSUME chan \in [Channels -> Seq(Message)], NEW msgs \in SUBSET Message,
         IsFiniteSet(msgs), Send(msgs)
  PROVE  Extended(msgs)
<1> DEFINE S(c) == SetToSeq({m \in msgs : Route(m) = c})
<1>1. \A c \in Channels : chan'[c] = chan[c] \o S(c)
  BY DEF Send
<1>2. \A c : /\ S(c) \in Seq(Message) /\ Len(S(c)) \in Nat
             /\ \A i \in 1..Len(S(c)) : S(c)[i] \in msgs /\ Route(S(c)[i]) = c
             /\ \A m \in msgs : Route(m) = c => \E i \in 1..Len(S(c)) : S(c)[i] = m
             /\ \A i, j \in 1..Len(S(c)) : S(c)[i] = S(c)[j] => i = j
  <2> TAKE c
  <2> DEFINE T == {m \in msgs : Route(m) = c}
             s == SetToSeq(T)
  <2>1. IsFiniteSet(T)
    BY FS_Subset
  <2> HIDE DEF T
  <2>2. /\ s \in Seq(T)
        /\ \A x \in T : \E i \in 1..Len(s) : s[i] = x
        /\ \A i, j \in 1..Len(s) : s[i] = s[j] => i = j
    BY <2>1, SetToSeqFacts
  <2> HIDE DEF s
  <2>3. Len(s) \in Nat /\ \A i \in 1..Len(s) : s[i] \in T
    BY <2>2
  <2>4. s \in Seq(Message)
    BY <2>2, <2>3 DEF T
  <2> QED
    BY <2>2, <2>3, <2>4 DEF T, s
<1> HIDE DEF S
<1>3. \A c \in Channels : S(c) \in Seq(Message) /\ Len(S(c)) \in Nat
  BY <1>2
<1>4. \A c \in Channels : /\ Len(chan[c]) \in Nat
                          /\ Len(chan'[c]) = Len(chan[c]) + Len(S(c))
                          /\ chan'[c] \in Seq(Message)
  <2> TAKE c \in Channels
  <2>1. chan[c] \in Seq(Message) /\ S(c) \in Seq(Message) /\ chan'[c] = chan[c] \o S(c)
    BY <1>1, <1>3
  <2> QED
    BY <2>1
<1>5. chan' \in [Channels -> Seq(Message)]
  BY <1>4 DEF Send
<1>6. \A c \in Channels : \A i \in 1..Len(chan[c]) :
        i \in 1..Len(chan'[c]) /\ chan'[c][i] = chan[c][i]
  BY <1>1, <1>3, <1>4
<1>7. \A c \in Channels : \A i \in 1..Len(chan'[c]) : i > Len(chan[c]) =>
        /\ i - Len(chan[c]) \in 1..Len(S(c))
        /\ chan'[c][i] = S(c)[i - Len(chan[c])]
  BY <1>1, <1>3, <1>4
<1>8. \A c \in Channels : \A i \in 1..Len(S(c)) :
        S(c)[i] \in msgs /\ Route(S(c)[i]) = c
  BY <1>2
<1>9. \A c \in Channels : \A i \in 1..Len(S(c)) :
        /\ Len(chan[c]) + i \in 1..Len(chan'[c])
        /\ chan'[c][Len(chan[c]) + i] = S(c)[i]
  BY <1>1, <1>3, <1>4
<1>10. \A c \in Channels : \A i \in 1..Len(chan'[c]) :
         \/ i \in 1..Len(chan[c])
         \/ i > Len(chan[c]) /\ chan'[c][i] \in msgs /\ Route(chan'[c][i]) = c
  BY <1>4, <1>7, <1>8
<1>11. \A c \in Channels : \A i, j \in 1..Len(chan'[c]) :
         i > Len(chan[c]) /\ j > Len(chan[c]) /\ chan'[c][i] = chan'[c][j] => i = j
  <2> TAKE c \in Channels
  <2> TAKE i, j \in 1..Len(chan'[c])
  <2> HAVE i > Len(chan[c]) /\ j > Len(chan[c]) /\ chan'[c][i] = chan'[c][j]
  <2>0. S(c)[i - Len(chan[c])] = S(c)[j - Len(chan[c])]
    BY <1>7
  <2>1. i - Len(chan[c]) = j - Len(chan[c])
    BY <2>0, <1>2, <1>7
  <2> QED
    BY <2>1, <1>4
<1>12. \A m \in msgs : Route(m) \in Channels =>
         \E i \in 1..Len(chan'[Route(m)]) : chan'[Route(m)][i] = m
  <2> SUFFICES ASSUME NEW m \in msgs, Route(m) \in Channels
               PROVE  \E i \in 1..Len(chan'[Route(m)]) : chan'[Route(m)][i] = m
    OBVIOUS
  <2>1. PICK i \in 1..Len(S(Route(m))) : S(Route(m))[i] = m
    BY <1>2
  <2> QED
    BY <2>1, <1>9
<1> QED
  BY <1>5, <1>6, <1>10, <1>11, <1>12 DEF Extended

\* What taking the head of c does to the channels: every other message keeps
\* its place in the queue, and an answer, if there is one, ends up at the end
\* of the way back.
Off(c, d) == IF c = d THEN 1 ELSE 0

Taken(c, answers) ==
  /\ chan' \in [Channels -> Seq(Message)]
  /\ \A d \in Channels : \A i \in 1..Len(chan'[d]) :
       \/ i + Off(c, d) \in 1..Len(chan[d]) /\ chan'[d][i] = chan[d][i + Off(c, d)]
       \/ d = Back(c) /\ i = Len(chan[d]) + 1 /\ chan'[d][i] \in answers
  /\ \A d \in Channels : \A i \in 1..Len(chan[d]) :
       \/ d = c /\ i = 1
       \/ i - Off(c, d) \in 1..Len(chan'[d]) /\ chan'[d][i - Off(c, d)] = chan[d][i]

\* The way back leads to another channel, and back again.
LEMMA BackFacts ==
  ASSUME NEW c \in Channels
  PROVE  Back(c) \in Channels /\ Back(c) # c /\ Back(Back(c)) = c
BY DEF Channels, Back

\* What is left of a queue without its head.
LEMMA TailFacts ==
  ASSUME NEW T, NEW s \in Seq(T), s # <<>>
  PROVE  /\ Tail(s) \in Seq(T) /\ Len(Tail(s)) = Len(s) - 1
         /\ Len(s) \in Nat \ {0}
         /\ Head(s) = s[1] /\ s[1] \in T
         /\ \A i \in 1..Len(s) - 1 : Tail(s)[i] = s[i + 1]
OBVIOUS

Drop(c)     == chan' = [chan EXCEPT ![c] = Tail(@)]
Reply(c, a) == chan' = [chan EXCEPT ![c] = Tail(@), ![Back(c)] = Append(@, a)]

\* A handler that does not answer only takes the head.
LEMMA DropFacts ==
  ASSUME chan \in [Channels -> Seq(Message)], NEW c \in Channels,
         chan[c] # <<>>, Drop(c)
  PROVE  Taken(c, {})
<1>1. \A d \in Channels : chan[d] \in Seq(Message) /\ Len(chan[d]) \in Nat
  OBVIOUS
<1>2. /\ Tail(chan[c]) \in Seq(Message) /\ Len(Tail(chan[c])) = Len(chan[c]) - 1
      /\ Len(chan[c]) \in Nat \ {0}
      /\ \A i \in 1..Len(chan[c]) - 1 : Tail(chan[c])[i] = chan[c][i + 1]
  BY <1>1, TailFacts
<1>3. chan'[c] = Tail(chan[c]) /\ \A d \in Channels : d # c => chan'[d] = chan[d]
  BY DEF Drop
<1>4. chan' \in [Channels -> Seq(Message)]
  BY <1>2 DEF Drop
<1>5. ASSUME NEW d \in Channels, NEW i \in 1..Len(chan'[d])
      PROVE  i + Off(c, d) \in 1..Len(chan[d]) /\ chan'[d][i] = chan[d][i + Off(c, d)]
  <2>1. CASE d = c
    <3>1. Off(c, d) = 1 /\ chan'[d] = Tail(chan[c]) /\ i \in 1..Len(chan[c]) - 1
      BY <1>2, <1>3, <2>1 DEF Off
    <3>2. i + 1 \in 1..Len(chan[c]) /\ Tail(chan[c])[i] = chan[c][i + 1]
      BY <1>2, <3>1
    <3> QED
      BY <2>1, <3>1, <3>2
  <2>2. CASE d # c
    BY <1>1, <1>3, <2>2 DEF Off
  <2> QED
    BY <2>1, <2>2
<1>6. ASSUME NEW d \in Channels, NEW i \in 1..Len(chan[d]), ~(d = c /\ i = 1)
      PROVE  i - Off(c, d) \in 1..Len(chan'[d]) /\ chan'[d][i - Off(c, d)] = chan[d][i]
  <2>1. CASE d = c
    <3>1. i - 1 \in 1..Len(chan[c]) - 1
      BY <1>2, <1>6, <2>1
    <3> QED
      BY <1>2, <1>3, <2>1, <3>1, SMTT(30) DEF Off
  <2>2. CASE d # c
    BY <1>1, <1>3, <2>2 DEF Off
  <2> QED
    BY <2>1, <2>2
<1> QED
  BY <1>4, <1>5, <1>6 DEF Taken

\* ReadRequest takes the head and appends the answer on the way back.
LEMMA ReplyFacts ==
  ASSUME chan \in [Channels -> Seq(Message)], NEW c \in Channels,
         chan[c] # <<>>, NEW a \in Message,
         Reply(c, a)
  PROVE  Taken(c, {a})
<1> DEFINE b == Back(c)
<1>1. \A d \in Channels : chan[d] \in Seq(Message) /\ Len(chan[d]) \in Nat
  OBVIOUS
<1>2. /\ Tail(chan[c]) \in Seq(Message) /\ Len(Tail(chan[c])) = Len(chan[c]) - 1
      /\ Len(chan[c]) \in Nat \ {0}
      /\ \A i \in 1..Len(chan[c]) - 1 : Tail(chan[c])[i] = chan[c][i + 1]
  BY <1>1, TailFacts
<1>3. b \in Channels /\ b # c
  BY BackFacts
<1>4. /\ chan'[c] = Tail(chan[c]) /\ chan'[b] = Append(chan[b], a)
      /\ \A d \in Channels : d # c /\ d # b => chan'[d] = chan[d]
  BY <1>3 DEF Reply
<1>5. /\ Append(chan[b], a) \in Seq(Message)
      /\ Len(Append(chan[b], a)) = Len(chan[b]) + 1
      /\ \A i \in 1..Len(chan[b]) : Append(chan[b], a)[i] = chan[b][i]
      /\ Append(chan[b], a)[Len(chan[b]) + 1] = a
  BY <1>1, <1>3
<1>6. chan' \in [Channels -> Seq(Message)]
  BY <1>2, <1>3, <1>5 DEF Reply
<1>7. ASSUME NEW d \in Channels, NEW i \in 1..Len(chan'[d])
      PROVE  \/ i + Off(c, d) \in 1..Len(chan[d]) /\ chan'[d][i] = chan[d][i + Off(c, d)]
             \/ d = b /\ i = Len(chan[d]) + 1 /\ chan'[d][i] \in {a}
  <2>1. CASE d = c
    <3>1. Off(c, d) = 1 /\ chan'[d] = Tail(chan[c]) /\ i \in 1..Len(chan[c]) - 1
      BY <1>2, <1>4, <2>1 DEF Off
    <3>2. i + 1 \in 1..Len(chan[c])
      BY <1>2, <3>1
    <3>3. Tail(chan[c])[i] = chan[c][i + 1]
      BY <1>2, <3>1
    <3> QED
      BY <2>1, <3>1, <3>2, <3>3
  <2>2. CASE d = b
    BY <1>1, <1>3, <1>4, <1>5, <2>2 DEF Off
  <2>3. CASE d # c /\ d # b
    BY <1>1, <1>4, <2>3 DEF Off
  <2> QED
    BY <2>1, <2>2, <2>3
<1>8. ASSUME NEW d \in Channels, NEW i \in 1..Len(chan[d]), ~(d = c /\ i = 1)
      PROVE  i - Off(c, d) \in 1..Len(chan'[d]) /\ chan'[d][i - Off(c, d)] = chan[d][i]
  <2>1. CASE d = c
    <3>1. i - 1 \in 1..Len(chan[c]) - 1
      BY <1>2, <1>8, <2>1
    <3>2. Off(c, d) = 1 /\ chan'[d] = Tail(chan[c])
      BY <1>4, <2>1 DEF Off
    <3>0. \A j \in 1..Len(chan[c]) - 1 : Tail(chan[c])[j] = chan[c][j + 1]
      BY <1>2
    <3>3. Tail(chan[c])[i - 1] = chan[c][(i - 1) + 1]
      BY <3>0, <3>1
    <3>4. (i - 1) + 1 = i
      OBVIOUS
    <3> QED
      BY <1>2, <2>1, <3>1, <3>2, <3>3, <3>4
  <2>2. CASE d = b
    BY <1>1, <1>3, <1>4, <1>5, <2>2 DEF Off
  <2>3. CASE d # c /\ d # b
    BY <1>1, <1>4, <2>3 DEF Off
  <2> QED
    BY <2>1, <2>2, <2>3
<1> QED
  BY <1>6, <1>7, <1>8 DEF Taken

\* The positions do not matter to most of the invariant: what Send adds to the
\* messages in flight.
LEMMA FlightExtended ==
  ASSUME TypeOK, NEW msgs, Extended(msgs), \A m \in msgs : Route(m) \in Channels
  PROVE  Flight' = Flight \cup msgs
<1>1. ASSUME NEW m \in Flight' PROVE m \in Flight \cup msgs
  <2>0. PICK c \in Channels : \E i \in 1..Len(chan'[c]) : m = chan'[c][i]
    BY <1>1 DEF Flight
  <2>1. PICK i \in 1..Len(chan'[c]) : m = chan'[c][i]
    BY <2>0
  <2>2. CASE i \in 1..Len(chan[c])
    BY <2>1, <2>2 DEF Extended, Flight
  <2>3. CASE i \notin 1..Len(chan[c])
    BY <2>1, <2>3 DEF Extended
  <2> QED
    BY <2>2, <2>3
<1>2. ASSUME NEW m \in Flight PROVE m \in Flight'
  <2>0. PICK c \in Channels : \E i \in 1..Len(chan[c]) : m = chan[c][i]
    BY <1>2 DEF Flight
  <2>1. PICK i \in 1..Len(chan[c]) : m = chan[c][i]
    BY <2>0
  <2>2. i \in 1..Len(chan'[c]) /\ chan'[c][i] = m
    BY <2>1 DEF Extended
  <2> QED
    BY <2>2 DEF Flight
<1>3. ASSUME NEW m \in msgs PROVE m \in Flight'
  BY <1>3 DEF Extended, Flight
<1> QED
  BY <1>1, <1>2, <1>3

\* What a handler does to the messages in flight: the head goes, an answer
\* may come.
LEMMA FlightTaken ==
  ASSUME NEW c \in Channels, NEW answers, Taken(c, answers)
  PROVE  /\ Flight' \subseteq Flight \cup answers
         /\ Flight \subseteq Flight' \cup {chan[c][1]}
<1>1. ASSUME NEW m \in Flight' PROVE m \in Flight \cup answers
  <2>0. PICK d \in Channels : \E i \in 1..Len(chan'[d]) : m = chan'[d][i]
    BY <1>1 DEF Flight
  <2>1. PICK i \in 1..Len(chan'[d]) : m = chan'[d][i]
    BY <2>0
  <2>2. CASE i + Off(c, d) \in 1..Len(chan[d]) /\ m = chan[d][i + Off(c, d)]
    BY <2>2 DEF Flight
  <2>3. CASE m \in answers
    BY <2>3
  <2> QED
    BY <2>1, <2>2, <2>3 DEF Taken
<1>2. ASSUME NEW m \in Flight PROVE m \in Flight' \cup {chan[c][1]}
  <2>0. PICK d \in Channels : \E i \in 1..Len(chan[d]) : m = chan[d][i]
    BY <1>2 DEF Flight
  <2>1. PICK i \in 1..Len(chan[d]) : m = chan[d][i]
    BY <2>0
  <2>2. CASE d = c /\ i = 1
    BY <2>1, <2>2
  <2>3. CASE i - Off(c, d) \in 1..Len(chan'[d]) /\ chan'[d][i - Off(c, d)] = m
    BY <2>3 DEF Flight
  <2> QED
    BY <2>1, <2>2, <2>3 DEF Taken
<1> QED
  BY <1>1, <1>2

-----------------------------------------------------------------------------
(* Ids, batches and slots.                                                 *)

\* get_tid: the id of a transaction tells its batch and its slot.
LEMMA TxnFacts ==
  ASSUME NEW t \in Txns
  PROVE  /\ t \in Nat /\ t > 0
         /\ SlotOf(t) \in Slots /\ BatchOf(t) \in Nat /\ BatchOf(t) \in 1..NBatches
         /\ t = BatchOf(t) * BatchSize + SlotOf(t)
<1>1. BatchSize \in Nat \ {0} /\ NBatches \in Nat \ {0}
  BY SizeAssumption
<1>2. t \in Nat /\ t >= BatchSize /\ t < (NBatches + 1) * BatchSize
  <2>1. (NBatches + 1) * BatchSize \in Nat
    BY <1>1
  <2> QED
    BY <1>1, <2>1 DEF Txns
<1>3. t = BatchOf(t) * BatchSize + SlotOf(t) /\ SlotOf(t) \in Slots /\ BatchOf(t) \in Nat
  BY <1>1, <1>2 DEF BatchOf, SlotOf, Slots
<1>4. BatchOf(t) \in 1..NBatches
  <2>1. BatchOf(t) # 0
    BY <1>1, <1>2, <1>3 DEF Slots
  <2>2. BatchOf(t) <= NBatches
    BY <1>1, <1>2 DEF BatchOf
  <2> QED
    BY <1>1, <1>3, <2>1, <2>2
<1> QED
  BY <1>1, <1>2, <1>3, <1>4

\* A batch has the ids from its first one to that of the next.
LEMMA BatchFacts ==
  ASSUME NEW t \in Txns, NEW b \in Nat
  PROVE  /\ FirstOf(b) \in Nat /\ FirstOf(b + 1) \in Nat
         /\ FirstOf(b + 1) = FirstOf(b) + BatchSize
         /\ t < FirstOf(b) <=> BatchOf(t) < b
<1>1. BatchSize \in Nat \ {0} /\ t \in Nat
  BY SizeAssumption, TxnFacts
<1>2. FirstOf(b) \in Nat /\ FirstOf(b + 1) \in Nat /\ FirstOf(b + 1) = FirstOf(b) + BatchSize
  BY <1>1 DEF FirstOf
<1>3. t < FirstOf(b) <=> BatchOf(t) < b
  BY <1>1 DEF FirstOf, BatchOf
<1> QED
  BY <1>2, <1>3

\* Ids of a later batch are larger.
LEMMA BatchOrder ==
  ASSUME NEW t \in Txns, NEW u \in Txns, t <= u
  PROVE  BatchOf(t) <= BatchOf(u)
BY SizeAssumption, TxnFacts DEF BatchOf

\* Quotient and remainder are unique.
LEMMA DivisionUnique ==
  ASSUME NEW b \in Nat \ {0}, NEW p \in Int, NEW q \in Int,
         NEW r \in 0..b - 1, NEW s \in 0..b - 1, p * b + r = q * b + s
  PROVE  p = q /\ r = s
<1>1. \A d \in Nat \ {0} : d * b >= b
  OBVIOUS
<1>2. CASE p < q
  <2>1. (q - p) * b >= b
    BY <1>1, <1>2
  <2>2. (q - p) * b = q * b - p * b
    OBVIOUS
  <2> QED
    BY <2>1, <2>2
<1>3. CASE q < p
  <2>1. (p - q) * b >= b
    BY <1>1, <1>3
  <2>2. (p - q) * b = p * b - q * b
    OBVIOUS
  <2> QED
    BY <2>1, <2>2
<1> QED
  BY <1>2, <1>3

\* The transaction of the same slot in the batch before.
LEMMA BeforeFacts ==
  ASSUME NEW t \in Txns, BatchOf(t) > 1
  PROVE  /\ t - BatchSize \in Txns
         /\ SlotOf(t - BatchSize) = SlotOf(t)
         /\ BatchOf(t - BatchSize) = BatchOf(t) - 1
<1>1. BatchSize \in Nat \ {0} /\ NBatches \in Nat \ {0} /\ t \in Nat
  BY SizeAssumption, TxnFacts
<1>2. t >= 2 * BatchSize
  BY <1>1 DEF BatchOf
<1>3. t - BatchSize \in Txns
  BY <1>1, <1>2 DEF Txns
<1>4. SlotOf(t - BatchSize) = SlotOf(t) /\ BatchOf(t - BatchSize) = BatchOf(t) - 1
  <2> DEFINE u == t - BatchSize
             b == BatchOf(u)
             c == BatchOf(t) - 1
  <2>1. /\ b \in Int /\ SlotOf(u) \in 0..BatchSize - 1
        /\ u = b * BatchSize + SlotOf(u)
    BY <1>1, <1>3, TxnFacts DEF Slots
  <2>2. /\ c \in Int /\ SlotOf(t) \in 0..BatchSize - 1
        /\ u = c * BatchSize + SlotOf(t)
    BY <1>1, TxnFacts DEF Slots
  <2> HIDE DEF b, c
  <2>3. b = c /\ SlotOf(u) = SlotOf(t)
    BY <1>1, <2>1, <2>2, DivisionUnique
  <2> QED
    BY <2>3 DEF b, c
<1> QED
  BY <1>3, <1>4

\* The reads of a first batch are its own.
LEMMA ReadAsFacts ==
  ASSUME NEW t \in Txns
  PROVE  /\ ReadAs(t) \in Txns
         /\ ~Repeats(t) => ReadAs(t) = t
         /\ sameBatch /\ BatchOf(t) > 1 => ReadAs(t) = ReadAs(t - BatchSize)
<1>1. BatchSize \in Nat \ {0} /\ NBatches \in Nat \ {0}
  BY SizeAssumption
<1>2. SlotOf(t) \in 0..BatchSize - 1 /\ BatchOf(t) \in 1..NBatches
      /\ t = BatchOf(t) * BatchSize + SlotOf(t)
  BY TxnFacts DEF Slots
<1>3. BatchSize + SlotOf(t) \in Txns
  <2>1. (NBatches + 1) * BatchSize >= 2 * BatchSize
    BY <1>1
  <2> QED
    BY <1>1, <1>2, <2>1 DEF Txns
<1>4. ReadAs(t) \in Txns
  BY <1>3 DEF ReadAs
<1>5. ASSUME ~Repeats(t) PROVE ReadAs(t) = t
  <2>1. BatchOf(t) = 1 => BatchSize + SlotOf(t) = t
    BY <1>1, <1>2
  <2> QED
    BY <1>2, <1>5, <2>1 DEF ReadAs, Repeats
<1>6. ASSUME sameBatch, BatchOf(t) > 1 PROVE ReadAs(t) = ReadAs(t - BatchSize)
  BY <1>6, BeforeFacts DEF ReadAs
<1> QED
  BY <1>4, <1>5, <1>6
-----------------------------------------------------------------------------
(* The last writer before an id.                                           *)

\* A set of numbers that is not empty has a smallest one ...
LEMMA LeastExists ==
  ASSUME NEW S \in SUBSET Nat, S # {}
  PROVE  \E x \in S : \A y \in S : x <= y
<1> DEFINE R == OpToRel(<, Nat)
<1>1. IsWellFoundedOn(R, Nat)
  BY NatLessThanWellFounded
<1>2. \A a, b \in Nat : a < b => <<a, b>> \in R
  BY DEF OpToRel
<1> HIDE DEF R
<1>3. PICK x \in S : \A y \in S : <<y, x>> \notin R
  BY <1>1, WFMin
<1>4. ASSUME NEW y \in S PROVE x <= y
  <2>1. x \in Nat /\ y \in Nat /\ ~(y < x)
    BY <1>2, <1>3
  <2> QED
    BY <2>1
<1> QED
  BY <1>4

\* ... and, when it is bounded, a largest one.
LEMMA GreatestExists ==
  ASSUME NEW S \in SUBSET Nat, S # {}, NEW b \in Nat, \A y \in S : y <= b
  PROVE  \E x \in S : \A y \in S : y <= x
<1> DEFINE R == {n \in Nat : \E y \in S : n = b - y}
<1>1. PICK y \in S : TRUE
  OBVIOUS
<1>2. b - y \in R
  BY <1>1
<1>3. PICK n \in R : \A z \in R : n <= z
  BY <1>2, LeastExists
<1>4. PICK x \in S : n = b - x
  BY <1>3
<1>5. ASSUME NEW z \in S PROVE z <= x
  <2>1. b - z \in R
    OBVIOUS
  <2>2. n <= b - z
    BY <1>3, <2>1
  <2> QED
    BY <1>4, <2>2
<1> QED
  BY <1>4, <1>5

\* The last one of W before ver, or 0.
LastBefore(W, ver) ==
  CHOOSE u \in {0} \cup W : u < ver /\ \A v \in W : v < ver => v <= u

IsLastBefore(W, ver, u) ==
  u \in {0} \cup W /\ u < ver /\ \A v \in W : v < ver => v <= u

\* It exists, and is the only one of its kind.
LEMMA LastBeforeFacts ==
  ASSUME NEW W \in SUBSET Txns, NEW ver \in Nat, ver > 0
  PROVE  /\ IsLastBefore(W, ver, LastBefore(W, ver))
         /\ \A u : IsLastBefore(W, ver, u) => u = LastBefore(W, ver)
<1> DEFINE S == {u \in {0} \cup W : u < ver}
<1>1. W \subseteq Nat /\ \A v \in W : v > 0
  BY TxnFacts
<1>2. \A u \in S : u \in Nat
  BY <1>1
<1>8. 0 \in S
  OBVIOUS
<1>7. \A u \in S : u <= ver
  BY <1>2
<1>3. PICK x \in S : \A y \in S : y <= x
  BY <1>2, <1>7, <1>8, GreatestExists
<1>4. IsLastBefore(W, ver, x)
  BY <1>1, <1>3 DEF IsLastBefore
<1>5. ASSUME NEW u, NEW v, IsLastBefore(W, ver, u), IsLastBefore(W, ver, v)
      PROVE  u = v
  BY <1>1, <1>5 DEF IsLastBefore
<1>6. IsLastBefore(W, ver, LastBefore(W, ver))
  BY <1>4 DEF IsLastBefore, LastBefore
<1> QED
  BY <1>5, <1>6

-----------------------------------------------------------------------------
(* The versions of a row.                                                  *)

IsDescending(S, f) ==
  f \in [1..Cardinality(S) -> S] /\ \A i, j \in DOMAIN f : i < j => f[i] > f[j]

\* The smallest set that could not be listed from its largest number down
\* could be, with its smallest number at the end.
LEMMA DescendingExists ==
  ASSUME NEW S \in SUBSET Nat, IsFiniteSet(S)
  PROVE  \E f : IsDescending(S, f)
<1> DEFINE Listed(T) == \E f : IsDescending(T, f)
           Bad == {n \in Nat : \E T \in SUBSET Nat :
                     IsFiniteSet(T) /\ Cardinality(T) = n /\ ~Listed(T)}
<1>1. ASSUME NEW T \in SUBSET Nat, IsFiniteSet(T),
             \A n \in Nat : n < Cardinality(T) => n \notin Bad
      PROVE  Listed(T)
  <2> DEFINE n == Cardinality(T)
  <2>1. n \in Nat
    BY <1>1, FS_CardinalityType
  <2>2. CASE n = 0
    <3>1. T = {}
      BY <1>1, <2>2, FS_EmptySet
    <3>2. IsDescending(T, [i \in 1..0 |-> 0])
      BY <2>2, <3>1 DEF IsDescending
    <3> QED
      BY <3>2
  <2>3. CASE n # 0
    <3>1. T # {}
      BY <2>3, FS_EmptySet
    <3>2. PICK x \in T : \A y \in T : x <= y
      BY <3>1, LeastExists
    <3> DEFINE U == T \ {x}
    <3>3. IsFiniteSet(U) /\ Cardinality(U) = n - 1
      BY <1>1, <3>2, FS_RemoveElement
    <3>4. n - 1 \in Nat /\ n - 1 < n
      BY <2>1, <2>3
    <3>5. Listed(U)
      BY <1>1, <3>3, <3>4
    <3>6. PICK g : IsDescending(U, g)
      BY <3>5
    <3> DEFINE f == [i \in 1..n |-> IF i < n THEN g[i] ELSE x]
    <3>7. g \in [1..n - 1 -> U] /\ \A i, j \in 1..n - 1 : i < j => g[i] > g[j]
      BY <3>3, <3>6 DEF IsDescending
    <3>8. \A y \in U : y > x /\ y \in T /\ y \in Nat /\ x \in Nat
      BY <3>2
    <3> HIDE DEF U
    <3>9. \A i \in 1..n : i < n => i \in 1..n - 1 /\ f[i] = g[i] /\ f[i] \in U
      BY <2>1, <3>7
    <3>10. \A i \in 1..n : ~(i < n) => i = n /\ f[i] = x
      BY <2>1
    <3>11. f \in [1..n -> T]
      BY <3>2, <3>8, <3>9, <3>10
    <3>12. ASSUME NEW i \in 1..n, NEW j \in 1..n, i < j PROVE f[i] > f[j]
      <4>1. i < n
        BY <2>1, <3>12
      <4>2. CASE j < n
        BY <3>7, <3>9, <3>12, <4>1, <4>2
      <4>3. CASE ~(j < n)
        BY <3>8, <3>9, <3>10, <4>1, <4>3
      <4> QED
        BY <4>2, <4>3
    <3>13. IsDescending(T, f)
      BY <3>11, <3>12 DEF IsDescending
    <3> QED
      BY <3>13
  <2> QED
    BY <2>2, <2>3
<1>2. Bad = {}
  <2> SUFFICES ASSUME Bad # {} PROVE FALSE
    OBVIOUS
  <2>1. PICK m \in Bad : \A n \in Bad : m <= n
    <3>1. Bad \in SUBSET Nat
      OBVIOUS
    <3> HIDE DEF Bad
    <3> QED
      BY <3>1, LeastExists
  <2>2. PICK T \in SUBSET Nat : IsFiniteSet(T) /\ Cardinality(T) = m /\ ~Listed(T)
    OBVIOUS
  <2>3. \A n \in Nat : n < Cardinality(T) => n \notin Bad
    <3>1. m \in Nat
      OBVIOUS
    <3> HIDE DEF Bad
    <3> QED
      BY <2>1, <2>2, <3>1
  <2> HIDE DEF Bad, Listed
  <2> QED
    BY <1>1, <2>2, <2>3
<1> HIDE DEF Bad, Listed
<1>3. Listed(S)
  BY <1>1, <1>2
<1> QED
  BY <1>3 DEF Listed

\* The versions of the writers in S are theirs, each one once, from the
\* newest down, and not written.
LEMMA EmptyVersionsFacts ==
  ASSUME NEW S \in SUBSET Txns
  PROVE  LET e == EmptyVersions(S)
         IN  /\ e \in Seq(Version) /\ Len(e) = Cardinality(S) /\ Len(e) \in Nat
             /\ \A i \in 1..Len(e) : e[i].ver \in S /\ ~Ready(e[i])
             /\ \A i, j \in 1..Len(e) : i < j => e[i].ver > e[j].ver
             /\ \A t \in S : \E i \in 1..Len(e) : e[i].ver = t
<1> DEFINE f == CHOOSE f \in [1..Cardinality(S) -> S] :
                  \A i, j \in DOMAIN f : i < j => f[i] > f[j]
           n == Cardinality(S)
           e == EmptyVersions(S)
<1>1. Txns \subseteq Nat /\ \A t \in Txns : t \in Nat /\ t > 0
  BY TxnFacts
<1>2. IsFiniteSet(Txns)
  <2>1. BatchSize \in Int /\ (NBatches + 1) * BatchSize - 1 \in Int
    BY SizeAssumption
  <2> QED
    BY <2>1, FS_Interval DEF Txns
<1>3. IsFiniteSet(S) /\ n \in Nat
  BY <1>2, FS_Subset, FS_CardinalityType
<1>4. \E g : IsDescending(S, g)
  BY <1>1, <1>3, DescendingExists
<1>5. IsDescending(S, f)
  BY <1>4 DEF IsDescending
<1>6. f \in [1..n -> S] /\ \A i, j \in 1..n : i < j => f[i] > f[j]
  BY <1>5 DEF IsDescending
<1>7. e = [i \in DOMAIN f |-> [ver |-> f[i], word |-> f[i], val |-> Unwritten]]
  BY DEF EmptyVersions
<1> HIDE DEF f, e
<1>8. DOMAIN f = 1..n /\ \A i \in 1..n : f[i] \in S /\ f[i] \in Txns /\ f[i] > 0 /\ f[i] \in Nat
  BY <1>1, <1>6
<1>9. e \in [1..n -> Version]
  BY <1>7, <1>8 DEF Version, Values
<1>10. e \in Seq(Version) /\ Len(e) = n
  BY <1>3, <1>9
<1>11. \A i \in 1..n : e[i].ver = f[i] /\ e[i].word = f[i]
  BY <1>7, <1>8
<1>12. \A i \in 1..n : e[i].ver \in S /\ ~Ready(e[i])
  BY <1>8, <1>11 DEF Ready
<1>13. \A t \in S : \E i \in 1..n : f[i] = t
  <2>1. IsInjective(f)
    <3> SUFFICES ASSUME NEW i \in 1..n, NEW j \in 1..n, f[i] = f[j] PROVE i = j
      BY <1>8 DEF IsInjective
    <3> QED
      BY <1>3, <1>6, <1>8
  <2>2. IsFiniteSet(1..n) /\ Cardinality(1..n) = n
    BY <1>3, FS_Interval
  <2>3. f \in Surjection(1..n, S)
    BY <1>3, <1>6, <2>1, <2>2, FS_Injection DEF Injection
  <2> QED
    BY <2>3 DEF Surjection
<1>14. \A i, j \in 1..n : i < j => e[i].ver > e[j].ver
  BY <1>6, <1>11
<1> QED
  BY <1>3, <1>10, <1>11, <1>12, <1>13, <1>14 DEF e

\* The first index of its kind.
LEMMA FirstFacts ==
  ASSUME NEW n \in Nat, NEW I \in SUBSET (1..n), I # {}
  PROVE  Min(I) \in I /\ \A i \in I : Min(I) <= i
<1>1. I \subseteq Nat
  OBVIOUS
<1>2. \E x \in I : \A y \in I : x <= y
  BY <1>1, LeastExists
<1> QED
  BY <1>2 DEF Min

\* get_key_version finds the version it looks for ...
LEMMA FindFacts ==
  ASSUME NEW s \in Seq(Version), NEW ver, Has(s, ver)
  PROVE  \E i \in 1..Len(s) : Find(s, ver) = s[i] /\ s[i].ver = ver
<1> DEFINE I == {i \in 1..Len(s) : s[i].ver = ver}
<1>1. I \in SUBSET (1..Len(s)) /\ Len(s) \in Nat
  OBVIOUS
<1>2. I # {}
  BY DEF Has
<1>3. Find(s, ver) = s[IF I # {} THEN Min(I) ELSE 0]
  BY DEF Find, SelectInSeq
<1> HIDE DEF I
<1>4. Min(I) \in I
  BY <1>1, <1>2, FirstFacts
<1>5. Find(s, ver) = s[Min(I)]
  BY <1>2, <1>3
<1> QED
  BY <1>4, <1>5 DEF I

\* ... and get_key_version_prev the newest of those before.
LEMMA PrevFacts ==
  ASSUME NEW s \in Seq(Version), NEW ver, \E i \in 1..Len(s) : s[i].ver < ver
  PROVE  \E i \in 1..Len(s) : /\ Prev(s, ver) = s[i] /\ s[i].ver < ver
                              /\ \A j \in 1..i - 1 : ~(s[j].ver < ver)
<1> DEFINE I == {i \in 1..Len(s) : s[i].ver < ver}
<1>1. I \in SUBSET (1..Len(s)) /\ Len(s) \in Nat
  OBVIOUS
<1>2. I # {}
  OBVIOUS
<1>3. Prev(s, ver) = s[IF I # {} THEN Min(I) ELSE 0]
  BY DEF Prev, SelectInSeq
<1> HIDE DEF I
<1>4. Min(I) \in I /\ \A i \in I : Min(I) <= i
  BY <1>1, <1>2, FirstFacts
<1>5. Prev(s, ver) = s[Min(I)]
  BY <1>2, <1>3
<1>6. Min(I) \in 1..Len(s) /\ s[Min(I)].ver < ver
  BY <1>4 DEF I
<1>7. \A j \in 1..Min(I) - 1 : ~(s[j].ver < ver)
  <2> SUFFICES ASSUME NEW j \in 1..Min(I) - 1, s[j].ver < ver PROVE FALSE
    OBVIOUS
  <2>1. j \in 1..Len(s) /\ j < Min(I)
    BY <1>1, <1>6
  <2>2. j \in I
    BY <2>1 DEF I
  <2> QED
    BY <1>1, <1>4, <1>6, <2>1, <2>2
<1> QED
  BY <1>5, <1>6, <1>7

\* A version is written, and no other changes.
Wrote(r, s, ver, word, val) ==
  /\ r \in Seq(Version) /\ Len(r) = Len(s)
  /\ \A i \in 1..Len(s) : r[i].ver = s[i].ver
  /\ \A i \in 1..Len(s) : s[i].ver = ver => r[i].word = word /\ r[i].val = val
  /\ \A i \in 1..Len(s) : s[i].ver # ver => r[i] = s[i]

\* That is what set_version does.
LEMMA SetVersionFacts ==
  ASSUME NEW s \in Seq(Version), NEW ver \in Txns, NEW word \in Txns \cup {0},
         NEW val \in Values
  PROVE  Wrote(SetVersion(s, ver, word, val), s, ver, word, val)
<1> DEFINE r == SetVersion(s, ver, word, val)
           n == Len(s)
           new == [ver |-> ver, word |-> word, val |-> val]
<1>1. n \in Nat /\ DOMAIN s = 1..n /\ \A i \in 1..n : s[i] \in Version
  OBVIOUS
<1>2. new \in Version /\ new.ver = ver /\ new.word = word /\ new.val = val
  BY DEF Version
<1>3. r = [i \in 1..n |-> IF s[i].ver = ver THEN new ELSE s[i]]
  BY <1>1 DEF SetVersion
<1> HIDE DEF r, n, new
<1>4. r \in [1..n -> Version]
  BY <1>1, <1>2, <1>3
<1>5. r \in Seq(Version) /\ Len(r) = n
  BY <1>1, <1>4
<1>6. \A i \in 1..n : (s[i].ver = ver => r[i] = new) /\ (s[i].ver # ver => r[i] = s[i])
  BY <1>3
<1>7. \A i \in 1..n : r[i].ver = s[i].ver
  BY <1>2, <1>6
<1>8. \A i \in 1..n : s[i].ver = ver => r[i].word = word /\ r[i].val = val
  BY <1>2, <1>6
<1> QED
  BY <1>1, <1>5, <1>6, <1>7, <1>8 DEF r, n, Wrote

-----------------------------------------------------------------------------
(* Where the writers of a row stand in its versions.                       *)

\* Transactions access rows and run on some worker.
LEMMA AccessFacts ==
  ASSUME TypeOK, NEW t \in Txns
  PROVE  /\ Reads(t) \subseteq Keys /\ Writes(t) \subseteq Keys
         /\ prog[t].rollback \in BOOLEAN
         /\ HomeOf(t) \in Nodes /\ WorkerOf(t) \in Workers
<1>1. prog[t] \in Program
  BY WorkloadAssumption DEF TypeOK
<1>2. RunBy[SlotOf(t)] \in Nodes \X Workers
  BY PlacementAssumption, TxnFacts
<1> QED
  BY <1>1, <1>2 DEF Program, Reads, Writes, HomeOf, WorkerOf

\* The writers of a row never change.
LEMMA WritersFacts ==
  ASSUME NEW k
  PROVE  /\ Writers(k) \subseteq Txns
         /\ \A ver : WriterBefore(k, ver) = LastBefore(Writers(k), ver)
         /\ \A t \in Writers(k) : k \in Writes(t) /\ ~prog[t].rollback
BY DEF Writers, WriterBefore, LastBefore

\* The last writer before an id is the only one of its kind.
LEMMA WriterBeforeFacts ==
  ASSUME NEW k, NEW ver \in Nat, ver > 0
  PROVE  /\ IsLastBefore(Writers(k), ver, WriterBefore(k, ver))
         /\ WriterBefore(k, ver) \in {0} \cup Writers(k)
         /\ WriterBefore(k, ver) \in {0} \cup Txns
         /\ WriterBefore(k, ver) \in Nat /\ WriterBefore(k, ver) < ver
         /\ \A v \in Writers(k) : v < ver => v <= WriterBefore(k, ver)
         /\ \A u : IsLastBefore(Writers(k), ver, u) => u = WriterBefore(k, ver)
<1>1. Writers(k) \in SUBSET Txns /\ WriterBefore(k, ver) = LastBefore(Writers(k), ver)
  BY WritersFacts
<1>2. /\ IsLastBefore(Writers(k), ver, WriterBefore(k, ver))
      /\ \A u : IsLastBefore(Writers(k), ver, u) => u = WriterBefore(k, ver)
  BY <1>1, LastBeforeFacts
<1>3. \A t \in Txns : t \in Nat
  BY TxnFacts
<1> QED
  BY <1>1, <1>2, <1>3 DEF IsLastBefore

\* The first ids of the batches.
LEMMA FirstIds ==
  ASSUME TypeOK
  PROVE  /\ batch \in Nat /\ batch > 0
         /\ FirstOf(batch) \in Nat /\ FirstOf(batch) > 0
         /\ FirstOf(batch + 1) \in Nat /\ FirstOf(batch + 1) > FirstOf(batch)
         /\ \A t \in Txns : (t < FirstOf(batch) <=> BatchOf(t) < batch)
                            /\ (t < FirstOf(batch + 1) <=> BatchOf(t) <= batch)
<1>1. batch \in Nat /\ batch > 0 /\ batch + 1 \in Nat /\ BatchSize \in Nat \ {0}
  BY SizeAssumption DEF TypeOK
<1>2. FirstOf(batch) \in Nat /\ FirstOf(batch) >= BatchSize
      /\ FirstOf(batch + 1) = FirstOf(batch) + BatchSize
  BY <1>1 DEF FirstOf
<1>3. ASSUME NEW t \in Txns
      PROVE  (t < FirstOf(batch) <=> BatchOf(t) < batch)
             /\ (t < FirstOf(batch + 1) <=> BatchOf(t) <= batch)
  <2>1. BatchOf(t) \in Nat
    BY TxnFacts
  <2>2. t < FirstOf(batch) <=> BatchOf(t) < batch
    BY <1>1, BatchFacts
  <2>3. t < FirstOf(batch + 1) <=> BatchOf(t) < batch + 1
    BY <1>1, BatchFacts
  <2> QED
    BY <1>1, <2>1, <2>2, <2>3
<1> QED
  BY <1>1, <1>2, <1>3

\* A version of a row is that of one of its writers, or the loaded one.
LEMMA ChainMembers ==
  ASSUME TypeOK, NEW k \in Keys, ChainOf(k)
  PROVE  /\ store[k] \in Seq(Version) /\ Len(store[k]) \in Nat \ {0}
         /\ 1 \in 1..Len(store[k]) /\ Len(store[k]) \in 1..Len(store[k])
         /\ \A i \in 1..Len(store[k]) :
              /\ store[k][i] \in Version
              /\ store[k][i].ver \in {0} \cup Writers(k)
              /\ store[k][i].ver \in {0} \cup Txns
              /\ store[k][i].ver \in Nat
<1> DEFINE s == store[k]
<1>1. s \in Seq(Version) /\ s # <<>>
  BY DEF TypeOK, ChainOf
<1>2. Len(s) \in Nat \ {0} /\ \A i \in 1..Len(s) : s[i] \in Version
  BY <1>1
<1>3. \A i \in 1..Len(s) : s[i].ver \in {0} \cup Txns /\ s[i].ver \in Nat
  BY <1>2, TxnFacts DEF Version
<1>4. ASSUME NEW i \in 1..Len(s) PROVE s[i].ver \in {0} \cup Writers(k)
  <2>1. CASE i = 1
    <3>1. s[1].ver = Newest(k)
      BY DEF ChainOf
    <3>2. Newest(k) \in {0} \cup Writers(k)
      BY FirstIds, WriterBeforeFacts DEF Newest
    <3> QED
      BY <2>1, <3>1, <3>2
  <2>2. CASE i # 1
    <3>1. i - 1 \in 1..Len(s) - 1 /\ i - 1 \in 1..Len(s) /\ i - 1 < i /\ i = (i - 1) + 1
      BY <1>2, <2>2
    <3>2. s[i].ver = WriterBefore(k, s[i - 1].ver) /\ s[i - 1].ver > s[i].ver
      BY <3>1 DEF ChainOf
    <3>3. s[i - 1].ver \in Nat /\ s[i - 1].ver > 0
      BY <1>3, <3>1, <3>2
    <3> QED
      BY <3>2, <3>3, WriterBeforeFacts
  <2> QED
    BY <2>1, <2>2
<1> QED
  BY <1>1, <1>2, <1>3, <1>4

\* Between the oldest and the newest version no writer is missing.
LEMMA ChainComplete ==
  ASSUME TypeOK, NEW k \in Keys, ChainOf(k), NEW t \in Writers(k),
         t <= store[k][1].ver, store[k][Len(store[k])].ver <= t
  PROVE  Has(store[k], t)
<1> DEFINE s == store[k]
           I == {i \in 1..Len(s) : t <= s[i].ver}
<1>1. /\ Len(s) \in Nat \ {0} /\ s \in Seq(Version)
      /\ 1 \in 1..Len(s) /\ \A i \in 1..Len(s) : s[i].ver \in Nat
  BY ChainMembers
<1>2. t \in Nat
  BY WritersFacts, TxnFacts
<1>3. I \in SUBSET Nat /\ 1 \in I /\ \A i \in I : i <= Len(s)
  BY <1>1
<1>4. PICK i \in I : \A j \in I : j <= i
  <2> HIDE DEF I
  <2> QED
    BY <1>1, <1>3, GreatestExists
<1>5. CASE i = Len(s)
  BY <1>1, <1>2, <1>5 DEF Has
<1>6. CASE i # Len(s)
  <2>1. i \in 1..Len(s) - 1 /\ i + 1 \in 1..Len(s) /\ i \in 1..Len(s) /\ t <= s[i].ver
    BY <1>1, <1>6
  <2>2. i + 1 \notin I
    BY <1>4, <2>1
  <2>3. s[i + 1].ver < t
    BY <1>1, <1>2, <2>1, <2>2
  <2>4. s[i + 1].ver = WriterBefore(k, s[i].ver)
    BY <2>1 DEF ChainOf
  <2>5. t < s[i].ver => t <= s[i + 1].ver
    BY <1>1, <1>2, <2>1, <2>4, WriterBeforeFacts
  <2>6. s[i].ver = t
    BY <1>1, <1>2, <2>1, <2>3, <2>5
  <2> QED
    BY <1>1, <2>1, <2>6 DEF Has
<1> QED
  BY <1>5, <1>6

\* In the execution of a batch each of its writers has its version.
LEMMA WriterHasVersion ==
  ASSUME TypeOK, NEW k \in Keys, ChainOf(k), phase = "Execute",
         NEW t \in Writers(k), BatchOf(t) = batch
  PROVE  Has(store[k], t)
<1>1. t \in Txns /\ t \in Nat /\ BatchOf(t) \in Nat
  BY WritersFacts, TxnFacts
<1>2. FirstOf(batch) <= t /\ t < FirstOf(batch + 1)
  BY <1>1, FirstIds
<1>3. store[k][1].ver = WriterBefore(k, FirstOf(batch + 1))
  BY DEF ChainOf, Newest, Inserted
<1>4. store[k][Len(store[k])].ver = WriterBefore(k, FirstOf(batch))
  BY DEF ChainOf, Oldest, Collected
<1>5. t <= store[k][1].ver
  BY <1>2, <1>3, FirstIds, WriterBeforeFacts
<1>6. store[k][Len(store[k])].ver <= t
  <2>1. WriterBefore(k, FirstOf(batch)) < FirstOf(batch) /\ WriterBefore(k, FirstOf(batch)) \in Nat
    BY FirstIds, WriterBeforeFacts
  <2> QED
    BY <1>1, <1>2, <1>4, <2>1, FirstIds
<1> QED
  BY <1>5, <1>6, ChainComplete

\* What a transaction of the batch reads is the version of the last writer
\* before it.
LEMMA PrevVersion ==
  ASSUME TypeOK, NEW k \in Keys, ChainOf(k), phase = "Execute",
         NEW t \in Txns, BatchOf(t) = batch
  PROVE  \E i \in 1..Len(store[k]) : /\ Prev(store[k], t) = store[k][i]
                                     /\ store[k][i] \in Version
                                     /\ store[k][i].ver = WriterBefore(k, t)
<1> DEFINE s == store[k]
<1>1. t \in Nat /\ t > 0 /\ FirstOf(batch) <= t /\ t < FirstOf(batch + 1)
  BY FirstIds, TxnFacts
<1>2. /\ s \in Seq(Version) /\ Len(s) \in Nat \ {0} /\ Len(s) \in 1..Len(s)
      /\ \A i \in 1..Len(s) : s[i].ver \in {0} \cup Writers(k) /\ s[i].ver \in Nat
      /\ \A i \in 1..Len(s) : s[i] \in Version
  BY ChainMembers
<1>3. s[Len(s)].ver < t
  <2>1. s[Len(s)].ver = WriterBefore(k, FirstOf(batch))
    BY DEF ChainOf, Oldest, Collected
  <2>2. WriterBefore(k, FirstOf(batch)) < FirstOf(batch) /\ WriterBefore(k, FirstOf(batch)) \in Nat
    BY FirstIds, WriterBeforeFacts
  <2> QED
    BY <1>1, <2>1, <2>2, FirstIds
<1>4. PICK i \in 1..Len(s) : /\ Prev(s, t) = s[i] /\ s[i].ver < t
                             /\ \A j \in 1..i - 1 : ~(s[j].ver < t)
  BY <1>2, <1>3, PrevFacts
<1>5. ASSUME NEW v \in Writers(k), v < t PROVE v <= s[i].ver
  <2>1. v \in Nat
    BY WritersFacts, TxnFacts
  <2>2. CASE i = 1
    <3>1. s[1].ver = WriterBefore(k, FirstOf(batch + 1))
      BY DEF ChainOf, Newest, Inserted
    <3>2. v < FirstOf(batch + 1)
      BY <1>1, <1>5, <2>1, FirstIds
    <3> QED
      BY <2>2, <3>1, <3>2, FirstIds, WriterBeforeFacts
  <2>3. CASE i # 1
    <3>1. i - 1 \in 1..Len(s) - 1 /\ i - 1 \in 1..Len(s) /\ i - 1 \in 1..i - 1
          /\ i = (i - 1) + 1
      BY <1>2, <2>3
    <3>2. s[i].ver = WriterBefore(k, s[i - 1].ver)
      BY <3>1 DEF ChainOf
    <3>3. s[i - 1].ver >= t /\ s[i - 1].ver \in Nat
      BY <1>1, <1>2, <1>4, <3>1
    <3>4. v < s[i - 1].ver /\ s[i - 1].ver > 0
      BY <1>1, <1>5, <2>1, <3>3
    <3> QED
      BY <3>2, <3>3, <3>4, WriterBeforeFacts
  <2> QED
    BY <2>2, <2>3
<1>6. IsLastBefore(Writers(k), t, s[i].ver)
  BY <1>2, <1>4, <1>5 DEF IsLastBefore
<1>7. s[i].ver = WriterBefore(k, t)
  BY <1>1, <1>6, WriterBeforeFacts
<1> QED
  BY <1>2, <1>4, <1>7

-----------------------------------------------------------------------------
(* The steps, and type correctness.                                        *)

\* What one transaction sends to the rows of other nodes.
Asked(type, t, keys) == Requests(type, t, Remote(t, keys))

\* Each request has its way to the node of its row.
LEMMA AskedShape ==
  ASSUME TypeOK, NEW t \in Txns, NEW type \in {"READ", "WRITE"},
         NEW keys \in SUBSET Keys
  PROVE  \A m \in Asked(type, t, keys) :
           /\ m.type = type /\ m.answer = FALSE /\ m.txn = t /\ m.ok = FALSE
           /\ m.key \in Remote(t, keys) /\ m.key \in Keys
           /\ m = [type |-> type, answer |-> FALSE, txn |-> t, key |-> m.key,
                   ok |-> FALSE, val |-> t]
           /\ Route(m) \in Channels
<1> TAKE m \in Asked(type, t, keys)
<1>1. PICK k \in Remote(t, keys) :
        m = [type |-> type, answer |-> FALSE, txn |-> t, key |-> k,
             ok |-> FALSE, val |-> t]
  BY DEF Asked, Requests
<1>2. k \in Keys /\ Owner[k] # HomeOf(t) /\ Owner[k] \in Nodes
  BY PlacementAssumption DEF Remote
<1>3. <<HomeOf(t), Owner[k], WorkerOf(t)>> \in Channels
  BY <1>2, AccessFacts DEF Channels
<1> QED
  BY <1>1, <1>2, <1>3 DEF Route

\* Every remote row is asked for.
LEMMA AskedMembers ==
  ASSUME NEW type, NEW t, NEW keys, NEW k \in Remote(t, keys)
  PROVE  \E m \in Asked(type, t, keys) :
           m.type = type /\ m.txn = t /\ m.key = k /\ m.answer = FALSE
<1> DEFINE m == [type |-> type, answer |-> FALSE, txn |-> t, key |-> k,
                 ok |-> FALSE, val |-> t]
<1>1. m \in Asked(type, t, keys)
  BY DEF Asked, Requests
<1> QED
  BY <1>1

\* Sending adds the requests behind the messages in flight.
LEMMA SentFacts ==
  ASSUME TypeOK, NEW t \in Txns, NEW type \in {"READ", "WRITE"},
         NEW keys \in SUBSET Keys, Send(Asked(type, t, keys))
  PROVE  /\ chan' \in [Channels -> Seq(Message)]
         /\ Extended(Asked(type, t, keys))
         /\ Flight' = Flight \cup Asked(type, t, keys)
<1>1. Remote(t, keys) \in SUBSET Keys
  BY DEF Remote
<1>2. Extended(Asked(type, t, keys))
  BY <1>1, RequestsFacts, SendFacts DEF TypeOK, Asked
<1>3. \A m \in Asked(type, t, keys) : Route(m) \in Channels
  BY AskedShape
<1> QED
  BY <1>2, <1>3, FlightExtended DEF Extended

\* The messages in flight are messages.
LEMMA FlightFacts ==
  ASSUME TypeOK
  PROVE  /\ \A c \in Channels : \A i \in 1..Len(chan[c]) :
              chan[c][i] \in Message /\ chan[c][i] \in Flight
         /\ \A m \in Flight : /\ m \in Message
                              /\ \E c \in Channels : \E i \in 1..Len(chan[c]) : m = chan[c][i]
         /\ \A m \in Message : /\ m.txn \in Txns /\ m.key \in Keys
                               /\ m.type \in {"READ", "WRITE"}
                               /\ m.answer \in BOOLEAN /\ m.ok \in BOOLEAN
                               /\ m.val \in Values
<1>1. \A c \in Channels : chan[c] \in Seq(Message)
  BY DEF TypeOK
<1>2. \A c \in Channels : \A i \in 1..Len(chan[c]) : chan[c][i] \in Message
  BY <1>1
<1>3. \A m \in Message : /\ m.txn \in Txns /\ m.key \in Keys
                         /\ m.type \in {"READ", "WRITE"}
                         /\ m.answer \in BOOLEAN /\ m.ok \in BOOLEAN
                         /\ m.val \in Values
  BY DEF Message
<1>4. \A c \in Channels : \A i \in 1..Len(chan[c]) : chan[c][i] \in Flight
  BY DEF Flight
<1>5. \A m \in Flight : \E c \in Channels : \E i \in 1..Len(chan[c]) : m = chan[c][i]
  BY DEF Flight
<1> QED
  BY <1>2, <1>3, <1>4, <1>5

\* Who waits or commits is in the execution of its batch.
LEMMA RunningFacts ==
  ASSUME Discipline, NEW t \in Txns, status[t] \in {"waiting", "committing"}
  PROVE  BatchOf(t) = batch /\ phase = "Execute" /\ ~prog[t].rollback /\ ~Passed(t)
<1>1. StatusOf(t)
  BY DEF Discipline, StatusOK
<1> QED
  BY <1>1 DEF StatusOf, Reached, Passed

\* The transaction of a READ waits for it, that of a WRITE is done.
LEMMA MessageFacts ==
  ASSUME Discipline, NEW m \in Flight
  PROVE  /\ m \in Message /\ m.txn \in Txns /\ m.key \in Keys
         /\ Owner[m.key] # HomeOf(m.txn)
         /\ m.type = "READ" => /\ status[m.txn] = "waiting" /\ m.key \in need[m.txn]
                               /\ m.key \in pend[m.txn] /\ m.key \in Reads(m.txn)
                               /\ BatchOf(m.txn) = batch /\ phase = "Execute"
                               /\ ~prog[m.txn].rollback
         /\ m.type = "WRITE" => /\ ~m.answer /\ status[m.txn] = "done"
                                /\ m.key \in Writes(m.txn) /\ ~prog[m.txn].rollback
<1>1. m \in Message /\ m.txn \in Txns /\ m.key \in Keys /\ m.type \in {"READ", "WRITE"}
  BY FlightFacts DEF Discipline
<1>2. PICK c \in Channels : \E i \in 1..Len(chan[c]) : m = chan[c][i]
  BY FlightFacts DEF Discipline
<1>3. MessageOK(c, m)
  BY <1>2 DEF Discipline, MessagesOK
<1>4. WaitsOf(m.txn) /\ StatusOf(m.txn)
  BY <1>1 DEF Discipline, WaitsOK, StatusOK
<1>5. CASE m.type = "READ"
  <2>1. m.key \in pend[m.txn]
    BY <1>3, <1>5 DEF MessageOK
  <2>2. status[m.txn] = "waiting" /\ m.key \in Remote(m.txn, need[m.txn]) /\ m.key \in Reads(m.txn)
    BY <1>4, <2>1 DEF WaitsOf, Remote
  <2>3. BatchOf(m.txn) = batch /\ phase = "Execute" /\ ~prog[m.txn].rollback
    BY <1>1, <2>2, RunningFacts
  <2> QED
    BY <1>1, <1>5, <2>1, <2>2, <2>3 DEF Remote
<1>6. CASE m.type = "WRITE"
  BY <1>1, <1>3, <1>4, <1>6 DEF MessageOK, StatusOf, Remote
<1> QED
  BY <1>1, <1>5, <1>6

\* The answer to a READ.
Answer(m, v) == [m EXCEPT !.answer = TRUE, !.ok = Ready(v), !.val = v.val]

\* It is about the same access.
LEMMA AnswerFacts ==
  ASSUME NEW m \in Message, NEW v \in Version
  PROVE  /\ Answer(m, v) \in Message
         /\ Answer(m, v).type = m.type /\ Answer(m, v).txn = m.txn
         /\ Answer(m, v).key = m.key /\ Answer(m, v).answer = TRUE
         /\ Answer(m, v).ok = Ready(v) /\ Answer(m, v).val = v.val
         /\ Route(Answer(m, v)) = Route(m)
<1>1. Ready(v) \in BOOLEAN /\ v.val \in Values
  BY DEF Ready, Version
<1> QED
  BY <1>1 DEF Answer, Message, Route

\* What becomes of the message at the head of a queue.
ReadAt(c, m) ==
  LET v == Prev(store[m.key], m.txn)
  IN  /\ m.type = "READ" /\ ~m.answer
      /\ Taken(c, {Answer(m, v)})
      /\ torn' = (torn \/ (Ready(v) /\ v.val = Unwritten))
      /\ UNCHANGED <<store, need, pend, notReady, seen>>

Told(c, m) ==
  /\ m.type = "READ" /\ m.answer
  /\ Taken(c, {})
  /\ IF m.ok THEN /\ seen' = [seen EXCEPT ![m.txn][m.key] = m.val]
                  /\ need' = [need EXCEPT ![m.txn] = @ \ {m.key}]
                  /\ notReady' = notReady
             ELSE /\ notReady' = [notReady EXCEPT ![m.txn] = TRUE]
                  /\ seen' = seen /\ need' = need
  /\ pend' = [pend EXCEPT ![m.txn] = @ \ {m.key}]
  /\ UNCHANGED <<store, torn>>

Arrived(c, m) ==
  /\ m.type = "WRITE" /\ ~m.answer
  /\ Taken(c, {})
  /\ Has(store[m.key], m.txn) /\ ~Ready(Find(store[m.key], m.txn))
  /\ store' = [store EXCEPT ![m.key] = SetVersion(@, m.txn, 0, m.txn)]
  /\ UNCHANGED <<need, pend, notReady, seen, torn>>

\* Every handler is one of these, and only they touch the queues.
LEMMA HandlerShape ==
  ASSUME Discipline, ChainOK, NEW c \in Channels, Process(c)
  PROVE  LET m == chan[c][1]
         IN  /\ chan[c] # <<>> /\ 1 \in 1..Len(chan[c])
             /\ m \in Message /\ m \in Flight
             /\ UNCHANGED <<sameBatch, prog, batch, phase, finished, status, left>>
             /\ ReadAt(c, m) \/ Told(c, m) \/ Arrived(c, m)
<1> DEFINE m == chan[c][1]
<1>0. TypeOK
  BY DEF Discipline
<1>1. /\ chan[c] # <<>>
      /\ UNCHANGED <<sameBatch, prog, batch, phase, finished, status, left>>
  BY DEF Process, ReadRequest, ReadResponse, WriteRequest, Take, config
<1>2. chan[c] \in Seq(Message)
  BY <1>0 DEF TypeOK
<1>3. Head(chan[c]) = m /\ m \in Message /\ 1 \in 1..Len(chan[c])
  BY <1>1, <1>2, TailFacts
<1>4. m \in Flight
  BY <1>0, <1>3, FlightFacts
<1>5. Drop(c) => Taken(c, {})
  BY <1>0, <1>1, DropFacts DEF TypeOK
<1> HIDE DEF m
<1>6. CASE ReadRequest(c)
  <2> DEFINE v == Prev(store[m.key], m.txn)
  <2>1. /\ m.type = "READ" /\ ~m.answer
        /\ torn' = (torn \/ (Ready(v) /\ v.val = Unwritten))
        /\ Reply(c, Answer(m, v))
        /\ UNCHANGED <<store, need, pend, notReady, seen>>
    BY <1>3, <1>6 DEF ReadRequest, Take, Reply, Answer
  <2>2. v \in Version
    BY <1>0, <1>4, <2>1, MessageFacts, PrevVersion DEF ChainOK
  <2>3. Answer(m, v) \in Message
    BY <1>3, <2>2, AnswerFacts
  <2> HIDE DEF v
  <2>4. Taken(c, {Answer(m, v)})
    BY <1>0, <1>1, <2>1, <2>3, ReplyFacts DEF TypeOK
  <2>5. ReadAt(c, m)
    BY <2>1, <2>4 DEF ReadAt, v
  <2> QED
    BY <1>1, <1>3, <1>4, <2>5 DEF m
<1>7. CASE ReadResponse(c)
  <2>1. Told(c, m)
    BY <1>3, <1>5, <1>7 DEF ReadResponse, Take, Told, Drop
  <2> QED
    BY <1>1, <1>3, <1>4, <2>1 DEF m
<1>8. CASE WriteRequest(c)
  <2>1. Arrived(c, m)
    BY <1>3, <1>5, <1>8 DEF WriteRequest, Take, Arrived, Drop
  <2> QED
    BY <1>1, <1>3, <1>4, <2>1 DEF m
<1> QED
  BY <1>6, <1>7, <1>8 DEF Process

\* The types hold at the start.
LEMMA TypeInit == Init => TypeOK
<1> SUFFICES ASSUME Init PROVE TypeOK
  OBVIOUS
<1>1. NBatches \in Nat \ {0} /\ prog \in Workloads /\ sameBatch \in BOOLEAN
  BY SizeAssumption DEF Init
<1>2. batch \in 1..NBatches /\ phase = "Analysis" /\ finished = {}
  BY <1>1 DEF Init
<1>3. store \in [Keys -> Seq(Version)]
  <2>1. Loaded \in Version
    BY DEF Loaded, Version, Values
  <2> QED
    BY <2>1 DEF Init
<1>4. status \in [Txns -> {"new", "waiting", "committing", "done"}]
  BY DEF Init
<1>5. need \in [Txns -> SUBSET Keys]
  <2>1. \A t \in Txns : Reads(t) \subseteq Keys
    BY <1>1, WorkloadAssumption DEF Reads, Program
  <2> QED
    BY <2>1 DEF Init
<1>6. pend \in [Txns -> SUBSET Keys] /\ left \in [Txns -> SUBSET Keys]
  BY DEF Init
<1>7. notReady \in [Txns -> BOOLEAN] /\ torn \in BOOLEAN
  BY DEF Init
<1>8. seen \in [Txns -> [Keys -> Values]]
  BY DEF Init, Values
<1>9. chan \in [Channels -> Seq(Message)]
  BY DEF Init
<1> QED
  BY <1>1, <1>2, <1>3, <1>4, <1>5, <1>6, <1>7, <1>8, <1>9 DEF TypeOK

\* The transactions whose turn it is.
LEMMA TurnFacts ==
  ASSUME NEW t, Turn(t)
  PROVE  /\ t \in Txns /\ BatchOf(t) = batch /\ phase = "Execute"
         /\ ~prog[t].rollback
BY DEF Turn, Scheduled, Current

\* A write touches one row of the store.
LEMMA SetTypes ==
  ASSUME TypeOK, NEW k \in Keys, NEW t \in Txns,
         NEW val \in Values, store' = [store EXCEPT ![k] = SetVersion(@, t, 0, val)]
  PROVE  store' \in [Keys -> Seq(Version)]
<1>1. store[k] \in Seq(Version)
  BY DEF TypeOK
<1>2. SetVersion(store[k], t, 0, val) \in Seq(Version)
  BY <1>1, SetVersionFacts DEF Wrote
<1> QED
  BY <1>2 DEF TypeOK

\* The steps of a transaction keep the types.
LEMMA TypeRun ==
  ASSUME Discipline, ChainOK, NEW t \in Txns, Run(t)
  PROVE  TypeOK'
<1>0. TypeOK
  BY DEF Discipline
<1>1. UNCHANGED <<sameBatch, prog, batch, phase, finished>>
  BY DEF Run, Read, Retry, Execute, FinishCommit, MarkWritten, CopyValue, config
<1>2. ASSUME NEW s \in {"new", "waiting", "committing", "done"}
      PROVE  [status EXCEPT ![t] = s] \in [Txns -> {"new", "waiting", "committing", "done"}]
  BY <1>0 DEF TypeOK
<1>3. CASE Read(t)
  <2>1. Turn(t) /\ BatchOf(t) = batch /\ phase = "Execute"
    BY <1>3, TurnFacts DEF Read
  <2>2. need[t] \in SUBSET Keys
    BY <1>0 DEF TypeOK
  <2>3. \A k \in need[t] : Prev(store[k], t).val \in Values
    <3> SUFFICES ASSUME NEW k \in need[t] PROVE Prev(store[k], t).val \in Values
      OBVIOUS
    <3>1. Prev(store[k], t) \in Version
      BY <1>0, <2>1, <2>2, PrevVersion DEF ChainOK
    <3> QED
      BY <3>1 DEF Version
  <2>4. seen' \in [Txns -> [Keys -> Values]]
    <3>1. PICK r : /\ r \subseteq need[t]
                   /\ seen' = [seen EXCEPT ![t] = [k \in Keys |->
                        IF k \in r THEN Prev(store[k], t).val ELSE @[k]]]
      BY <1>3 DEF Read, Local
    <3>2. [k \in Keys |-> IF k \in r THEN Prev(store[k], t).val ELSE seen[t][k]]
            \in [Keys -> Values]
      BY <1>0, <2>3, <3>1 DEF TypeOK
    <3> QED
      BY <1>0, <3>1, <3>2 DEF TypeOK
  <2>5. chan' \in [Channels -> Seq(Message)]
    <3>1. Send(Asked("READ", t, need[t]))
      BY <1>3 DEF Read, Asked
    <3> QED
      BY <1>0, <2>2, <3>1, SentFacts
  <2>6. need' \in [Txns -> SUBSET Keys]
    BY <1>0, <1>3 DEF TypeOK, Read
  <2>7. pend' \in [Txns -> SUBSET Keys]
    BY <1>0, <1>3 DEF TypeOK, Read, Remote
  <2>8. notReady' \in [Txns -> BOOLEAN]
    <3>1. PICK b \in BOOLEAN : notReady' = [notReady EXCEPT ![t] = b]
      BY <1>3 DEF Read
    <3> QED
      BY <1>0, <3>1 DEF TypeOK
  <2>9. torn' \in BOOLEAN
    BY <1>3 DEF Read
  <2>10. status' \in [Txns -> {"new", "waiting", "committing", "done"}]
    BY <1>2, <1>3 DEF Read
  <2>11. UNCHANGED <<store, left>>
    BY <1>3 DEF Read
  <2> QED
    BY <1>0, <1>1, <2>4, <2>5, <2>6, <2>7, <2>8, <2>9, <2>10, <2>11 DEF TypeOK
<1>4. CASE Retry(t)
  <2>1. status' \in [Txns -> {"new", "waiting", "committing", "done"}]
    BY <1>2, <1>4 DEF Retry
  <2>2. notReady' \in [Txns -> BOOLEAN]
    BY <1>0, <1>4 DEF TypeOK, Retry
  <2>3. UNCHANGED <<store, need, pend, seen, left, chan, torn>>
    BY <1>4 DEF Retry
  <2> QED
    BY <1>0, <1>1, <2>1, <2>2, <2>3 DEF TypeOK
<1>5. CASE Execute(t)
  <2>1. status' \in [Txns -> {"new", "waiting", "committing", "done"}]
    BY <1>2, <1>5 DEF Execute
  <2>2. left' \in [Txns -> SUBSET Keys]
    <3>1. Local(t, Writes(t)) \in SUBSET Keys
      BY <1>0, AccessFacts DEF Local
    <3>2. left' = [left EXCEPT ![t] = Local(t, Writes(t))]
      BY <1>5 DEF Execute
    <3> QED
      BY <1>0, <3>1, <3>2 DEF TypeOK
  <2>3. UNCHANGED <<store, need, pend, notReady, seen, chan, torn>>
    BY <1>5 DEF Execute
  <2> QED
    BY <1>0, <1>1, <2>1, <2>2, <2>3 DEF TypeOK
<1>6. CASE FinishCommit(t)
  <2>1. status' \in [Txns -> {"new", "waiting", "committing", "done"}]
    BY <1>2, <1>6 DEF FinishCommit
  <2>2. chan' \in [Channels -> Seq(Message)]
    <3>1. Send(Asked("WRITE", t, Writes(t)))
      BY <1>6 DEF FinishCommit, Asked
    <3>2. Writes(t) \in SUBSET Keys
      BY <1>0, AccessFacts
    <3> QED
      BY <1>0, <3>1, <3>2, SentFacts
  <2>3. UNCHANGED <<store, need, pend, notReady, seen, left, torn>>
    BY <1>6 DEF FinishCommit
  <2> QED
    BY <1>0, <1>1, <2>1, <2>2, <2>3 DEF TypeOK
<1>7. ASSUME NEW k \in Keys, MarkWritten(t, k) PROVE TypeOK'
  <2>1. store' \in [Keys -> Seq(Version)]
    <3>1. Unwritten \in Values /\ store' = [store EXCEPT ![k] = SetVersion(@, t, 0, Unwritten)]
      BY <1>7 DEF Values, MarkWritten
    <3> QED
      BY <1>0, <3>1, SetTypes
  <2>2. UNCHANGED <<status, need, pend, notReady, seen, left, chan, torn>>
    BY <1>7 DEF MarkWritten
  <2> QED
    BY <1>0, <1>1, <2>1, <2>2 DEF TypeOK
<1>8. ASSUME NEW k \in Keys, CopyValue(t, k) PROVE TypeOK'
  <2>1. store' \in [Keys -> Seq(Version)]
    <3>1. t \in Values /\ store' = [store EXCEPT ![k] = SetVersion(@, t, 0, t)]
      BY <1>8 DEF Values, CopyValue
    <3> QED
      BY <1>0, <3>1, SetTypes
  <2>2. left' \in [Txns -> SUBSET Keys]
    BY <1>0, <1>8 DEF TypeOK, CopyValue
  <2>3. UNCHANGED <<status, need, pend, notReady, seen, chan, torn>>
    BY <1>8 DEF CopyValue
  <2> QED
    BY <1>0, <1>1, <2>1, <2>2, <2>3 DEF TypeOK
<1> QED
  BY <1>3, <1>4, <1>5, <1>6, <1>7, <1>8 DEF Run

\* So do the handlers.
LEMMA TypeHandler ==
  ASSUME Discipline, ChainOK, NEW c \in Channels, Process(c)
  PROVE  TypeOK'
<1> DEFINE m == chan[c][1]
<1>0. TypeOK
  BY DEF Discipline
<1>1. /\ m \in Message /\ m \in Flight
      /\ UNCHANGED <<sameBatch, prog, batch, phase, finished, status, left>>
      /\ ReadAt(c, m) \/ Told(c, m) \/ Arrived(c, m)
  BY HandlerShape
<1>2. m.txn \in Txns /\ m.key \in Keys /\ m.val \in Values
  BY <1>0, <1>1, FlightFacts
<1> HIDE DEF m
<1>3. chan' \in [Channels -> Seq(Message)]
  BY <1>1 DEF ReadAt, Told, Arrived, Taken
<1>4. CASE ReadAt(c, m)
  <2>1. torn' \in BOOLEAN
    BY <1>4 DEF ReadAt
  <2>2. UNCHANGED <<store, need, pend, notReady, seen>>
    BY <1>4 DEF ReadAt
  <2> QED
    BY <1>0, <1>1, <1>3, <2>1, <2>2 DEF TypeOK
<1>5. CASE Told(c, m)
  <2>1. pend' \in [Txns -> SUBSET Keys]
    BY <1>0, <1>2, <1>5 DEF TypeOK, Told
  <2>2. seen' \in [Txns -> [Keys -> Values]]
    <3>1. seen' = seen \/ seen' = [seen EXCEPT ![m.txn][m.key] = m.val]
      BY <1>5 DEF Told
    <3>2. seen \in [Txns -> [Keys -> Values]]
      BY <1>0 DEF TypeOK
    <3> QED
      BY <1>2, <3>1, <3>2
  <2>3. need' \in [Txns -> SUBSET Keys]
    <3>1. need' = need \/ need' = [need EXCEPT ![m.txn] = @ \ {m.key}]
      BY <1>5 DEF Told
    <3>2. need \in [Txns -> SUBSET Keys]
      BY <1>0 DEF TypeOK
    <3> QED
      BY <1>2, <3>1, <3>2
  <2>4. notReady' \in [Txns -> BOOLEAN]
    BY <1>0, <1>2, <1>5 DEF TypeOK, Told
  <2>5. UNCHANGED <<store, torn>>
    BY <1>5 DEF Told
  <2> QED
    BY <1>0, <1>1, <1>3, <2>1, <2>2, <2>3, <2>4, <2>5 DEF TypeOK
<1>6. CASE Arrived(c, m)
  <2>1. store' \in [Keys -> Seq(Version)]
    <3>1. m.txn \in Values /\ store' = [store EXCEPT ![m.key] = SetVersion(@, m.txn, 0, m.txn)]
      BY <1>2, <1>6 DEF Values, Arrived
    <3> QED
      BY <1>0, <1>2, <3>1, SetTypes
  <2>2. UNCHANGED <<need, pend, notReady, seen, torn>>
    BY <1>6 DEF Arrived
  <2> QED
    BY <1>0, <1>1, <1>3, <2>1, <2>2 DEF TypeOK
<1> QED
  BY <1>1, <1>4, <1>5, <1>6

\* What InsertWriteSets and GarbageCollect do to the rows.
InsertedRow(n, w, k) ==
  IF Owner[k] = n /\ InserterOf[k] = w THEN Placeholders(k) \o store[k] ELSE store[k]

CollectedRow(n, w, k) ==
  IF Owner[k] = n /\ \E t \in Current : k \in Writes(t) /\ SlotOf(t) % NWorkers = w
    THEN <<Head(store[k])>> ELSE store[k]

\* The steps of a worker that change the versions of its rows.
LEMMA ServeShape ==
  ASSUME NEW n, NEW w
  PROVE  /\ InsertWriteSets(n, w) => store' = [k \in Keys |-> InsertedRow(n, w, k)]
         /\ GarbageCollect(n, w) => store' = [k \in Keys |-> CollectedRow(n, w, k)]
<1>1. InsertWriteSets(n, w) => store' = [k \in Keys |-> InsertedRow(n, w, k)]
  BY DEF InsertWriteSets, InsertedRow
<1>2. ASSUME GarbageCollect(n, w) PROVE store' = [k \in Keys |-> CollectedRow(n, w, k)]
  <2> DEFINE written == UNION {Writes(t) : t \in {u \in Current : SlotOf(u) % NWorkers = w}}
  <2>1. store' = [k \in Keys |-> IF Owner[k] = n /\ k \in written
                                   THEN <<Head(store[k])>> ELSE store[k]]
    BY <1>2 DEF GarbageCollect
  <2>2. \A k : k \in written <=> \E t \in Current : k \in Writes(t) /\ SlotOf(t) % NWorkers = w
    OBVIOUS
  <2> HIDE DEF written
  <2> QED
    BY <2>1, <2>2 DEF CollectedRow
<1> QED
  BY <1>1, <1>2

\* The new versions of a row are those of its scheduled writers.
LEMMA PlaceholdersFacts ==
  ASSUME NEW k
  PROVE  LET p == Placeholders(k)
         IN  /\ p \in Seq(Version) /\ Len(p) \in Nat
             /\ \A i \in 1..Len(p) : /\ p[i].ver \in Writers(k)
                                     /\ BatchOf(p[i].ver) = batch /\ ~Ready(p[i])
             /\ \A i, j \in 1..Len(p) : i < j => p[i].ver > p[j].ver
             /\ \A t \in Writers(k) : BatchOf(t) = batch =>
                  \E i \in 1..Len(p) : p[i].ver = t
<1> DEFINE S == {t \in Scheduled : k \in Writes(t)}
           p == Placeholders(k)
<1>1. S \in SUBSET Txns /\ \A t : t \in S <=> t \in Writers(k) /\ BatchOf(t) = batch
  BY DEF Scheduled, Current, Writers
<1>2. p = EmptyVersions(S)
  BY DEF Placeholders
<1> HIDE DEF S, p
<1>3. /\ p \in Seq(Version) /\ Len(p) \in Nat
      /\ \A i \in 1..Len(p) : p[i].ver \in S /\ ~Ready(p[i])
      /\ \A i, j \in 1..Len(p) : i < j => p[i].ver > p[j].ver
      /\ \A t \in S : \E i \in 1..Len(p) : p[i].ver = t
  BY <1>1, <1>2, EmptyVersionsFacts
<1> QED
  BY <1>1, <1>3 DEF p

\* The workers' other steps, and the managers', keep the types.
LEMMA TypeServe ==
  ASSUME Discipline, ChainOK, NEW n \in Nodes, NEW w \in Workers, Serve(n, w)
  PROVE  TypeOK'
<1>0. TypeOK
  BY DEF Discipline
<1>1. UNCHANGED <<sameBatch, prog, batch, phase, status, need, pend, notReady,
                  seen, left, chan, torn>>
      /\ finished' = finished \cup {<<n, w>>}
  BY DEF Serve, InsertWriteSets, GarbageCollect, config
<1>2. finished' \subseteq Nodes \X Workers
  BY <1>0, <1>1 DEF TypeOK
<1>3. store' \in [Keys -> Seq(Version)]
  <2>1. \A k \in Keys : store[k] \in Seq(Version) /\ store[k] # <<>>
    BY <1>0 DEF TypeOK, ChainOK, ChainOf
  <2>2. \A k \in Keys : InsertedRow(n, w, k) \in Seq(Version)
    <3> SUFFICES ASSUME NEW k \in Keys PROVE InsertedRow(n, w, k) \in Seq(Version)
      OBVIOUS
    <3>1. Placeholders(k) \in Seq(Version) /\ store[k] \in Seq(Version)
      BY <2>1, PlaceholdersFacts
    <3>2. Placeholders(k) \o store[k] \in Seq(Version)
      BY <3>1
    <3> QED
      BY <3>1, <3>2 DEF InsertedRow
  <2>3. \A k \in Keys : CollectedRow(n, w, k) \in Seq(Version)
    <3> SUFFICES ASSUME NEW k \in Keys PROVE CollectedRow(n, w, k) \in Seq(Version)
      OBVIOUS
    <3>1. Head(store[k]) \in Version
      BY <2>1
    <3> QED
      BY <2>1, <3>1 DEF CollectedRow
  <2> QED
    BY <2>2, <2>3, ServeShape DEF Serve
<1> QED
  BY <1>0, <1>1, <1>2, <1>3 DEF TypeOK

\* The managers move from phase to phase.
LEMMA TypeManage ==
  ASSUME Discipline, Manage
  PROVE  TypeOK'
<1>0. TypeOK
  BY DEF Discipline
<1>1. UNCHANGED <<sameBatch, prog, store, status, pend, notReady, left, chan, torn>>
  BY DEF Manage, Analyze, EndInsert, EndExecute, EndGC, config
<1>2. batch' \in 1..NBatches
  BY <1>0, SizeAssumption DEF TypeOK, Manage, Analyze, EndInsert, EndExecute, EndGC
<1>3. phase' \in {"Analysis", "Insert", "Execute", "GC", "DONE"}
  BY DEF Manage, Analyze, EndInsert, EndExecute, EndGC
<1>4. finished' \subseteq Nodes \X Workers
  BY <1>0 DEF TypeOK, Manage, Analyze, EndInsert, EndExecute, EndGC
<1>5. need' \in [Txns -> SUBSET Keys] /\ seen' \in [Txns -> [Keys -> Values]]
  <2>1. CASE UNCHANGED <<need, seen>>
    BY <1>0, <2>1 DEF TypeOK
  <2>2. CASE /\ batch > 1
             /\ need' = [t \in Txns |-> IF t \in Current THEN need[t - BatchSize] ELSE need[t]]
             /\ seen' = [t \in Txns |-> IF t \in Current THEN seen[t - BatchSize] ELSE seen[t]]
    <3>1. \A t \in Current : t - BatchSize \in Txns
      BY <2>2, BeforeFacts DEF Current
    <3>2. need' \in [Txns -> SUBSET Keys]
      BY <1>0, <2>2, <3>1 DEF TypeOK
    <3>3. seen' \in [Txns -> [Keys -> Values]]
      BY <1>0, <2>2, <3>1 DEF TypeOK
    <3> QED
      BY <3>2, <3>3
  <2> QED
    BY <2>1, <2>2 DEF Manage, Analyze, EndInsert, EndExecute, EndGC
<1> QED
  BY <1>0, <1>1, <1>2, <1>3, <1>4, <1>5 DEF TypeOK

\* No step breaks the types.
LEMMA TypeStep == Discipline /\ ChainOK /\ [Next]_vars => TypeOK'
<1> SUFFICES ASSUME Discipline, ChainOK, [Next]_vars PROVE TypeOK'
  OBVIOUS
<1>1. CASE UNCHANGED vars
  BY <1>1 DEF vars, Discipline, TypeOK
<1>2. ASSUME NEW t \in Txns, Run(t) PROVE TypeOK'
  BY <1>2, TypeRun
<1>3. ASSUME NEW c \in Channels, Process(c) PROVE TypeOK'
  BY <1>3, TypeHandler
<1>4. ASSUME NEW n \in Nodes, NEW w \in Workers, Serve(n, w) PROVE TypeOK'
  BY <1>4, TypeServe
<1>5. CASE Manage
  BY <1>5, TypeManage
<1> QED
  BY <1>1, <1>2, <1>3, <1>4, <1>5 DEF Next

-----------------------------------------------------------------------------
(* Discipline.                                                             *)

\* What only a change of the programs or of the batch could change.
LEMMA ProgramsFixed ==
  ASSUME UNCHANGED prog
  PROVE  /\ \A t : Reads(t)' = Reads(t) /\ Writes(t)' = Writes(t)
         /\ \A k : Writers(k)' = Writers(k)
         /\ \A k, ver : WriterBefore(k, ver)' = WriterBefore(k, ver)
BY DEF Reads, Writes, Writers, WriterBefore

\* Sending keeps to the discipline: the requests are new, so that none is in
\* flight twice, and those that are reads are waited for.
LEMMA SendMessages ==
  ASSUME TypeOK, MessagesOK, NoTwins, UNCHANGED prog,
         NEW t \in Txns, NEW type \in {"READ", "WRITE"}, NEW keys \in SUBSET Keys,
         Send(Asked(type, t, keys)),
         \A m \in Flight : m.txn = t => m.type # type,
         \A u \in Txns : pend[u] \subseteq pend'[u],
         \A u \in Txns : status[u] = "done" => status'[u] = "done",
         type = "READ" => Remote(t, keys) \subseteq pend'[t],
         type = "WRITE" => keys \subseteq Writes(t) /\ status'[t] = "done"
  PROVE  MessagesOK' /\ NoTwins'
<1> DEFINE msgs == Asked(type, t, keys)
<1>1. \A m \in msgs :
         /\ m.type = type /\ m.answer = FALSE /\ m.txn = t
         /\ m.key \in Remote(t, keys) /\ m.key \in Keys
         /\ m = [type |-> type, answer |-> FALSE, txn |-> t, key |-> m.key,
                 ok |-> FALSE, val |-> t]
         /\ Route(m) \in Channels
  <2> SUFFICES ASSUME NEW m \in msgs
               PROVE  /\ m.type = type /\ m.answer = FALSE /\ m.txn = t
                      /\ m.key \in Remote(t, keys) /\ m.key \in Keys
                      /\ m = [type |-> type, answer |-> FALSE, txn |-> t, key |-> m.key,
                              ok |-> FALSE, val |-> t]
                      /\ Route(m) \in Channels
    OBVIOUS
  <2>1. PICK k \in Remote(t, keys) :
          m = [type |-> type, answer |-> FALSE, txn |-> t, key |-> k,
               ok |-> FALSE, val |-> t]
    BY DEF Asked, Requests
  <2>2. k \in Keys
    BY DEF Remote
  <2>3. Route(m) \in Channels
    BY AskedShape
  <2> QED
    BY <2>1, <2>2, <2>3
<1>2. Extended(msgs)
  BY SentFacts
<1>3. \A c \in Channels : \A i \in 1..Len(chan[c]) :
        chan[c][i] \in Flight /\ chan[c][i].txn \in Txns
  BY FlightFacts
<1> HIDE DEF msgs
<1>4. MessagesOK'
  <2> SUFFICES ASSUME NEW c \in Channels, NEW i \in 1..Len(chan'[c])
               PROVE  MessageOK(c, chan[c][i])'
    BY DEF MessagesOK
  <2>1. CASE i \in 1..Len(chan[c])
    <3>1. chan'[c][i] = chan[c][i] /\ MessageOK(c, chan[c][i])
      BY <1>2, <2>1 DEF Extended, MessagesOK
    <3>2. chan[c][i].txn \in Txns
      BY <1>3, <2>1
    <3> QED
      BY <3>1, <3>2, ProgramsFixed DEF MessageOK
  <2>2. CASE i > Len(chan[c]) /\ chan'[c][i] \in msgs /\ Route(chan'[c][i]) = c
    <3> DEFINE m == chan'[c][i]
    <3>1. /\ m.type = type /\ m.answer = FALSE /\ m.txn = t
          /\ m.key \in Remote(t, keys) /\ c = Route(m)
      BY <1>1, <2>2
    <3>2. type = "WRITE" => m.key \in Remote(t, Writes(t)) /\ Writes(t)' = Writes(t)
      BY <3>1, ProgramsFixed DEF Remote
    <3> QED
      BY <3>1, <3>2 DEF MessageOK
  <2> QED
    BY <1>2, <2>1, <2>2 DEF Extended
<1>5. NoTwins'
  <2> SUFFICES ASSUME NEW c \in Channels, NEW d \in Channels,
                      NEW i \in 1..Len(chan'[c]), NEW j \in 1..Len(chan'[d]),
                      chan'[c][i].type = chan'[d][j].type,
                      chan'[c][i].txn = chan'[d][j].txn,
                      chan'[c][i].key = chan'[d][j].key
               PROVE  c = d /\ i = j
    BY DEF NoTwins
  <2>1. CASE i \in 1..Len(chan[c]) /\ j \in 1..Len(chan[d])
    <3>1. chan'[c][i] = chan[c][i] /\ chan'[d][j] = chan[d][j]
      BY <1>2, <2>1 DEF Extended
    <3> QED
      BY <2>1, <3>1, SMTT(30) DEF NoTwins
  <2>2. CASE i \notin 1..Len(chan[c]) /\ j \notin 1..Len(chan[d])
    <3>1. /\ i > Len(chan[c]) /\ chan'[c][i] \in msgs /\ Route(chan'[c][i]) = c
          /\ j > Len(chan[d]) /\ chan'[d][j] \in msgs /\ Route(chan'[d][j]) = d
      BY <1>2, <2>2 DEF Extended
    <3>2. chan'[c][i] = chan'[d][j] /\ c = d
      BY <1>1, <3>1
    <3> QED
      BY <1>2, <3>1, <3>2 DEF Extended
  <2>3. CASE i \in 1..Len(chan[c]) /\ j \notin 1..Len(chan[d])
    <3>1. chan'[c][i] = chan[c][i] /\ chan'[d][j] \in msgs
      BY <1>2, <2>3 DEF Extended
    <3> QED
      BY <1>1, <1>3, <2>3, <3>1
  <2>4. CASE i \notin 1..Len(chan[c]) /\ j \in 1..Len(chan[d])
    <3>1. chan'[d][j] = chan[d][j] /\ chan'[c][i] \in msgs
      BY <1>2, <2>4 DEF Extended
    <3> QED
      BY <1>1, <1>3, <2>4, <3>1
  <2> QED
    BY <2>1, <2>2, <2>3, <2>4
<1> QED
  BY <1>4, <1>5

\* What a handler may do to the waiting reads.
Waited(c, answers) ==
  \/ pend' = pend
  \/ /\ answers = {} /\ chan[c][1].type = "READ"
     /\ pend' = [pend EXCEPT ![chan[c][1].txn] = @ \ {chan[c][1].key}]

\* Taking keeps to the discipline: an answer takes the place of its request,
\* and what is no longer waited for is no longer in flight.
LEMMA TakeMessages ==
  ASSUME TypeOK, MessagesOK, NoTwins, UNCHANGED <<prog, status>>,
         NEW c \in Channels, 1 \in 1..Len(chan[c]), NEW answers, Taken(c, answers),
         \A a \in answers : /\ a.type = "READ" /\ chan[c][1].type = "READ"
                            /\ a.txn = chan[c][1].txn /\ a.key = chan[c][1].key
                            /\ a.answer /\ ~chan[c][1].answer
                            /\ Route(a) = Route(chan[c][1]),
         Waited(c, answers)
  PROVE  MessagesOK' /\ NoTwins'
<1> DEFINE m == chan[c][1]
<1>1. m \in Message /\ m.txn \in Txns /\ m.key \in Keys
  BY FlightFacts
<1>2. MessageOK(c, m)
  BY DEF MessagesOK
<1>3. /\ \A u \in Txns : u # m.txn => pend'[u] = pend[u]
      /\ \/ pend'[m.txn] = pend[m.txn]
         \/ /\ answers = {} /\ m.type = "READ"
            /\ pend'[m.txn] = pend[m.txn] \ {m.key}
  BY <1>1 DEF TypeOK, Waited
\* A message that stays is not the one that was taken.
<1>4. ASSUME NEW d \in Channels, NEW i \in 1..Len(chan'[d]),
             i + Off(c, d) \in 1..Len(chan[d]),
             chan[d][i + Off(c, d)].type = m.type, chan[d][i + Off(c, d)].txn = m.txn
      PROVE  chan[d][i + Off(c, d)].key # m.key
  <2>1. ~(d = c /\ i + Off(c, d) = 1)
    BY DEF Off
  <2> QED
    BY <1>4, <2>1 DEF NoTwins
<1>5. MessagesOK'
  <2> SUFFICES ASSUME NEW d \in Channels, NEW i \in 1..Len(chan'[d])
               PROVE  MessageOK(d, chan[d][i])'
    BY DEF MessagesOK
  <2>1. CASE i + Off(c, d) \in 1..Len(chan[d]) /\ chan'[d][i] = chan[d][i + Off(c, d)]
    <3> DEFINE n == chan[d][i + Off(c, d)]
    <3>1. MessageOK(d, n) /\ n.txn \in Txns
      BY <2>1, FlightFacts DEF MessagesOK
    <3>2. n.type = "READ" => n.key \in pend'[n.txn]
      <4>1. n.type = "READ" => n.key \in pend[n.txn]
        BY <3>1 DEF MessageOK
      <4>2. n.type = m.type /\ n.txn = m.txn => n.key # m.key
        BY <1>4, <2>1
      <4> HIDE DEF n, m
      <4> QED
        BY <1>3, <3>1, <4>1, <4>2
    <3> HIDE DEF n
    <3> QED
      BY <2>1, <3>1, <3>2, ProgramsFixed DEF MessageOK, n
  <2>2. CASE d = Back(c) /\ i = Len(chan[d]) + 1 /\ chan'[d][i] \in answers
    <3> DEFINE a == chan'[d][i]
    <3>1. /\ a.type = "READ" /\ m.type = "READ" /\ a.txn = m.txn /\ a.key = m.key
          /\ a.answer /\ ~m.answer /\ Route(a) = Route(m)
          /\ pend'[m.txn] = pend[m.txn]
      BY <1>3, <2>2
    <3> HIDE DEF m
    <3>2. c = Route(m) /\ m.key \in pend[m.txn]
      BY <1>2, <3>1 DEF MessageOK
    <3> QED
      BY <2>2, <3>1, <3>2 DEF MessageOK
  <2> QED
    BY <2>1, <2>2 DEF Taken
<1>6. NoTwins'
  <2> SUFFICES ASSUME NEW d \in Channels, NEW e \in Channels,
                      NEW i \in 1..Len(chan'[d]), NEW j \in 1..Len(chan'[e]),
                      chan'[d][i].type = chan'[e][j].type,
                      chan'[d][i].txn = chan'[e][j].txn,
                      chan'[d][i].key = chan'[e][j].key
               PROVE  d = e /\ i = j
    BY DEF NoTwins
  <2>2. \A f \in Channels : \A n \in 1..Len(chan'[f]) :
          \/ n + Off(c, f) \in 1..Len(chan[f]) /\ chan'[f][n] = chan[f][n + Off(c, f)]
          \/ /\ f = Back(c) /\ n = Len(chan[f]) + 1
             /\ chan'[f][n].type = m.type /\ chan'[f][n].txn = m.txn
             /\ chan'[f][n].key = m.key
    BY DEF Taken
  <2>3. CASE /\ i + Off(c, d) \in 1..Len(chan[d]) /\ chan'[d][i] = chan[d][i + Off(c, d)]
             /\ j + Off(c, e) \in 1..Len(chan[e]) /\ chan'[e][j] = chan[e][j + Off(c, e)]
    <3> DEFINE x == i + Off(c, d)
               y == j + Off(c, e)
    <3>0. /\ x \in 1..Len(chan[d]) /\ y \in 1..Len(chan[e])
          /\ chan[d][x].type = chan[e][y].type /\ chan[d][x].txn = chan[e][y].txn
          /\ chan[d][x].key = chan[e][y].key
      BY <2>3
    <3> HIDE DEF x, y
    <3>1. d = e /\ x = y
      BY <3>0 DEF NoTwins
    <3>2. \A f \in Channels : chan'[f] \in Seq(Message) /\ Len(chan'[f]) \in Nat
      BY DEF Taken
    <3> QED
      BY <3>1, <3>2 DEF Off, x, y
  <2>4. CASE /\ i + Off(c, d) \in 1..Len(chan[d]) /\ chan'[d][i] = chan[d][i + Off(c, d)]
             /\ chan'[e][j].type = m.type /\ chan'[e][j].txn = m.txn
             /\ chan'[e][j].key = m.key
    BY <1>4, <2>4
  <2>5. CASE /\ j + Off(c, e) \in 1..Len(chan[e]) /\ chan'[e][j] = chan[e][j + Off(c, e)]
             /\ chan'[d][i].type = m.type /\ chan'[d][i].txn = m.txn
             /\ chan'[d][i].key = m.key
    BY <1>4, <2>5
  <2>6. CASE d = Back(c) /\ i = Len(chan[d]) + 1 /\ e = Back(c) /\ j = Len(chan[e]) + 1
    BY <2>6
  <2> QED
    BY <2>2, <2>3, <2>4, <2>5, <2>6
<1> QED
  BY <1>5, <1>6

\* A transaction that moves moves alone.
LEMMA RunShape ==
  ASSUME TypeOK, NEW t \in Txns, Run(t)
  PROVE  /\ UNCHANGED <<sameBatch, prog, batch, phase, finished>>
         /\ \A u \in Txns : u # t =>
              /\ status'[u] = status[u] /\ need'[u] = need[u] /\ pend'[u] = pend[u]
              /\ notReady'[u] = notReady[u] /\ seen'[u] = seen[u] /\ left'[u] = left[u]
<1>1. UNCHANGED <<sameBatch, prog, batch, phase, finished>>
  BY DEF Run, Read, Retry, Execute, FinishCommit, MarkWritten, CopyValue, config
<1> SUFFICES ASSUME NEW u \in Txns, u # t
             PROVE  /\ status'[u] = status[u] /\ need'[u] = need[u] /\ pend'[u] = pend[u]
                    /\ notReady'[u] = notReady[u] /\ seen'[u] = seen[u] /\ left'[u] = left[u]
  BY <1>1
<1>2. status'[u] = status[u]
  BY DEF TypeOK, Run, Read, Retry, Execute, FinishCommit, MarkWritten, CopyValue
<1>3. need'[u] = need[u]
  BY DEF TypeOK, Run, Read, Retry, Execute, FinishCommit, MarkWritten, CopyValue
<1>4. pend'[u] = pend[u]
  BY DEF TypeOK, Run, Read, Retry, Execute, FinishCommit, MarkWritten, CopyValue
<1>5. notReady'[u] = notReady[u]
  BY DEF TypeOK, Run, Read, Retry, Execute, FinishCommit, MarkWritten, CopyValue
<1>6. seen'[u] = seen[u]
  <2>1. seen' = seen \/ \E f : seen' = [seen EXCEPT ![t] = f]
    BY DEF Run, Read, Retry, Execute, FinishCommit, MarkWritten, CopyValue
  <2> QED
    BY <2>1 DEF TypeOK
<1>7. left'[u] = left[u]
  BY DEF TypeOK, Run, Read, Retry, Execute, FinishCommit, MarkWritten, CopyValue
<1> QED
  BY <1>2, <1>3, <1>4, <1>5, <1>6, <1>7

\* The rows that a transaction finds ready on its own node.
Found(t) == {k \in Local(t, need[t]) : Ready(Prev(store[k], t))}

\* What the steps of a transaction do to it.
LEMMA ReadShape ==
  ASSUME TypeOK, NEW t \in Txns, Read(t)
  PROVE  /\ status[t] = "new" /\ status'[t] = "waiting"
         /\ need'[t] = need[t] \ Found(t) /\ pend'[t] = Remote(t, need[t])
         /\ notReady'[t] <=> Found(t) # Local(t, need[t])
         /\ \A k \in Keys : seen'[t][k] = IF k \in Found(t) THEN Prev(store[k], t).val
                                                           ELSE seen[t][k]
         /\ torn' <=> torn \/ \E k \in Found(t) : Prev(store[k], t).val = Unwritten
         /\ UNCHANGED <<store, left>>
<1>1. status[t] = "new" /\ status'[t] = "waiting"
  BY DEF TypeOK, Read
<1>2. need'[t] = need[t] \ Found(t)
  BY DEF TypeOK, Read, Found
<1>3. pend'[t] = Remote(t, need[t])
  BY DEF TypeOK, Read
<1>4. notReady'[t] <=> Found(t) # Local(t, need[t])
  BY DEF TypeOK, Read, Found
<1>5. seen' = [seen EXCEPT ![t] = [k \in Keys |->
                 IF k \in Found(t) THEN Prev(store[k], t).val ELSE @[k]]]
  BY DEF Read, Found
<1>6. seen'[t] = [k \in Keys |->
                    IF k \in Found(t) THEN Prev(store[k], t).val ELSE seen[t][k]]
  BY <1>5 DEF TypeOK
<1>7. torn' <=> torn \/ \E k \in Found(t) : Prev(store[k], t).val = Unwritten
  BY DEF Read, Found
<1>8. UNCHANGED <<store, left>>
  BY DEF Read
<1> QED
  BY <1>1, <1>2, <1>3, <1>4, <1>6, <1>7, <1>8

\* No step of the transactions breaks the order of the phases.
LEMMA StatusRun ==
  ASSUME Discipline, NEW t \in Txns, Run(t)
  PROVE  StatusOK'
<1>0. TypeOK /\ StatusOf(t)
  BY DEF Discipline, StatusOK
<1>1. /\ UNCHANGED <<sameBatch, prog, batch, phase, finished>>
      /\ \A u \in Txns : u # t => status'[u] = status[u]
  BY <1>0, RunShape
<1>2. ASSUME NEW u \in Txns, u # t PROVE StatusOf(u)'
  <2>1. StatusOf(u)
    BY DEF Discipline, StatusOK
  <2> QED
    BY <1>1, <1>2, <2>1 DEF StatusOf, Reached, Passed
<1>3. StatusOf(t)'
  <2>1. CASE status'[t] = status[t]
    BY <1>0, <1>1, <2>1 DEF StatusOf, Reached, Passed
  <2>2. CASE status'[t] # status[t]
    <3>1. BatchOf(t) = batch /\ phase = "Execute" /\ ~prog[t].rollback
      <4>1. CASE Read(t) \/ Retry(t) \/ Execute(t)
        BY <4>1, TurnFacts DEF Read, Retry, Execute
      <4>2. CASE FinishCommit(t)
        BY <4>2, RunningFacts DEF FinishCommit
      <4>3. CASE \E k \in Keys : MarkWritten(t, k) \/ CopyValue(t, k)
        BY <2>2, <4>3 DEF MarkWritten, CopyValue
      <4> QED
        BY <4>1, <4>2, <4>3 DEF Run
    <3>2. batch \in Nat
      BY <1>0 DEF TypeOK
    <3> QED
      BY <1>1, <3>1, <3>2 DEF StatusOf, Reached, Passed
  <2> QED
    BY <2>1, <2>2
<1> QED
  BY <1>2, <1>3 DEF StatusOK

\* Each waits for what it still needs.
LEMMA WaitsRun ==
  ASSUME Discipline, NEW t \in Txns, Run(t)
  PROVE  WaitsOK'
<1>0. TypeOK /\ WaitsOf(t)
  BY DEF Discipline, WaitsOK
<1>1. /\ UNCHANGED <<sameBatch, prog, batch, phase, finished>>
      /\ \A u \in Txns : u # t =>
           /\ status'[u] = status[u] /\ need'[u] = need[u] /\ pend'[u] = pend[u]
           /\ notReady'[u] = notReady[u] /\ left'[u] = left[u]
  BY <1>0, RunShape
<1>2. \A u : Reads(u)' = Reads(u) /\ Writes(u)' = Writes(u)
  BY <1>1, ProgramsFixed
<1>3. ASSUME NEW u \in Txns, u # t PROVE WaitsOf(u)'
  <2>1. WaitsOf(u)
    BY DEF Discipline, WaitsOK
  <2> QED
    BY <1>1, <1>2, <1>3, <2>1 DEF WaitsOf, Repeats, Analyzed, Remote, Local
<1>4. CASE Read(t)
  <2>1. /\ status[t] = "new" /\ status'[t] = "waiting"
        /\ need'[t] = need[t] \ Found(t) /\ pend'[t] = Remote(t, need[t])
        /\ notReady'[t] <=> Found(t) # Local(t, need[t])
        /\ left'[t] = left[t]
    BY <1>0, <1>4, ReadShape
  <2>2. Found(t) \subseteq Local(t, need[t]) /\ need[t] \subseteq Keys
    BY <1>0 DEF Found, TypeOK
  <2>3. Remote(t, need'[t]) = Remote(t, need[t])
    BY <2>1, <2>2 DEF Remote, Local
  <2>4. ~notReady'[t] => need'[t] = pend'[t]
    BY <2>1, <2>2 DEF Remote, Local
  <2>5. Repeats(t)' = Repeats(t) /\ Analyzed(t)' = Analyzed(t)
    BY <1>1 DEF Repeats, Analyzed
  <2>6. WaitsOf(t)'
    BY <1>0, <1>1, <1>2, <2>1, <2>2, <2>3, <2>4, <2>5 DEF WaitsOf, Remote, Local
  <2> QED
    BY <1>3, <2>6 DEF WaitsOK
<1>5. CASE Retry(t)
  <2>1. /\ status'[t] = "new" /\ pend'[t] = {} /\ ~notReady'[t] /\ need'[t] = need[t]
        /\ left'[t] = left[t] /\ status[t] = "waiting"
    BY <1>0, <1>5 DEF TypeOK, Retry
  <2>2. WaitsOf(t)'
    BY <1>0, <1>1, <1>2, <2>1 DEF WaitsOf, Repeats, Analyzed, Remote, Local
  <2> QED
    BY <1>3, <2>2 DEF WaitsOK
<1>6. CASE Execute(t)
  <2>1. /\ status'[t] = "committing" /\ status[t] = "waiting"
        /\ pend[t] = {} /\ pend'[t] = {} /\ ~notReady[t] /\ ~notReady'[t]
        /\ need'[t] = need[t] /\ left'[t] = Local(t, Writes(t))
    BY <1>0, <1>6 DEF TypeOK, Execute
  <2>2. WaitsOf(t)'
    BY <1>0, <1>1, <1>2, <2>1 DEF WaitsOf, Repeats, Analyzed, Remote, Local
  <2> QED
    BY <1>3, <2>2 DEF WaitsOK
<1>7. CASE FinishCommit(t)
  <2>1. /\ status'[t] = "done" /\ status[t] = "committing" /\ left[t] = {}
        /\ UNCHANGED <<need, pend, notReady, left>>
    BY <1>0, <1>7 DEF TypeOK, FinishCommit
  <2>2. WaitsOf(t)'
    BY <1>0, <1>1, <1>2, <2>1 DEF WaitsOf, Repeats, Analyzed, Remote, Local
  <2> QED
    BY <1>3, <2>2 DEF WaitsOK
<1>8. ASSUME NEW k \in Keys, MarkWritten(t, k) \/ CopyValue(t, k) PROVE WaitsOK'
  <2>1. /\ status[t] = "committing"
        /\ UNCHANGED <<status, need, pend, notReady>> /\ left'[t] \subseteq left[t]
    BY <1>0, <1>8 DEF TypeOK, MarkWritten, CopyValue
  <2>2. WaitsOf(t)'
    BY <1>0, <1>1, <1>2, <2>1 DEF WaitsOf, Repeats, Analyzed, Remote, Local
  <2> QED
    BY <1>3, <2>2 DEF WaitsOK
<1> QED
  BY <1>4, <1>5, <1>6, <1>7, <1>8 DEF Run

\* The steps of a transaction keep to the discipline.
LEMMA RunDiscipline ==
  ASSUME Discipline, ChainOK, NEW t \in Txns, Run(t)
  PROVE  Discipline'
<1>0. TypeOK /\ WaitsOf(t) /\ MessagesOK /\ NoTwins /\ PhasesOK
  BY DEF Discipline, WaitsOK
<1>1. /\ UNCHANGED <<sameBatch, prog, batch, phase, finished>>
      /\ \A u \in Txns : u # t => status'[u] = status[u] /\ pend'[u] = pend[u]
  BY <1>0, RunShape
<1>2. TypeOK' /\ StatusOK' /\ WaitsOK'
  BY TypeRun, StatusRun, WaitsRun
<1>3. PhasesOK'
  BY <1>0, <1>1 DEF PhasesOK
<1>4. CASE Read(t)
  <2>1. /\ status[t] = "new" /\ pend'[t] = Remote(t, need[t])
        /\ Send(Asked("READ", t, need[t])) /\ need[t] \in SUBSET Keys
    BY <1>0, <1>4, ReadShape DEF TypeOK, Read, Asked
  <2>2. pend[t] = {}
    BY <1>0, <2>1 DEF WaitsOf
  <2>3. \A u \in Txns : pend[u] \subseteq pend'[u]
    BY <1>1, <2>2
  <2>4. \A u \in Txns : status[u] = "done" => status'[u] = "done"
    BY <1>1, <2>1
  <2>5. \A m \in Flight : m.txn = t => m.type # "READ"
    BY <2>1, MessageFacts
  <2>6. MessagesOK' /\ NoTwins'
    BY <1>0, <1>1, <2>1, <2>3, <2>4, <2>5, SendMessages
  <2> QED
    BY <1>2, <1>3, <2>6 DEF Discipline
<1>5. CASE FinishCommit(t)
  <2>1. /\ status[t] = "committing" /\ status'[t] = "done" /\ pend' = pend
        /\ Send(Asked("WRITE", t, Writes(t)))
    BY <1>0, <1>5 DEF TypeOK, FinishCommit, Asked
  <2>2. Writes(t) \in SUBSET Keys
    BY <1>0, AccessFacts
  <2>3. \A u \in Txns : status[u] = "done" => status'[u] = "done"
    BY <1>1, <2>1
  <2>4. \A m \in Flight : m.txn = t => m.type # "WRITE"
    BY <2>1, MessageFacts
  <2>5. MessagesOK' /\ NoTwins'
    BY <1>0, <1>1, <2>1, <2>2, <2>3, <2>4, SendMessages
  <2> QED
    BY <1>2, <1>3, <2>5 DEF Discipline
<1>6. CASE \/ Retry(t) \/ Execute(t)
           \/ \E k \in Keys : MarkWritten(t, k) \/ CopyValue(t, k)
  <2>1. UNCHANGED <<chan, pend>>
    BY <1>6 DEF Retry, Execute, MarkWritten, CopyValue
  <2>2. \A u \in Txns : status[u] = "done" => status'[u] = "done"
    BY <1>0, <1>1, <1>6 DEF Retry, Execute, MarkWritten, CopyValue
  <2>3. MessagesOK'
    <3> SUFFICES ASSUME NEW c \in Channels, NEW i \in 1..Len(chan[c])
                 PROVE  MessageOK(c, chan[c][i])'
      BY <2>1 DEF MessagesOK
    <3>1. MessageOK(c, chan[c][i]) /\ chan[c][i].txn \in Txns
      BY <1>0, FlightFacts DEF MessagesOK
    <3> QED
      BY <1>1, <2>1, <2>2, <3>1, ProgramsFixed DEF MessageOK
  <2>4. NoTwins'
    BY <1>0, <2>1 DEF NoTwins
  <2> QED
    BY <1>2, <1>3, <2>3, <2>4 DEF Discipline
<1> QED
  BY <1>4, <1>5, <1>6 DEF Run

\* Who does not touch the queues leaves the messages as they are.
LEMMA QuietMessages ==
  ASSUME TypeOK, MessagesOK, NoTwins, UNCHANGED <<prog, status, pend, chan>>
  PROVE  MessagesOK' /\ NoTwins'
<1>1. MessagesOK'
  <2> SUFFICES ASSUME NEW c \in Channels, NEW i \in 1..Len(chan[c])
               PROVE  MessageOK(c, chan[c][i])'
    BY DEF MessagesOK
  <2>1. MessageOK(c, chan[c][i])
    BY DEF MessagesOK
  <2> QED
    BY <2>1, ProgramsFixed DEF MessageOK
<1>2. NoTwins'
  BY DEF NoTwins
<1> QED
  BY <1>1, <1>2

\* The handlers keep to the discipline.
LEMMA HandlerDiscipline ==
  ASSUME Discipline, ChainOK, NEW c \in Channels, Process(c)
  PROVE  Discipline'
<1> DEFINE m == chan[c][1]
<1>0. TypeOK /\ PhasesOK /\ StatusOK /\ WaitsOK /\ MessagesOK /\ NoTwins
  BY DEF Discipline
<1>1. /\ 1 \in 1..Len(chan[c]) /\ m \in Message /\ m \in Flight
      /\ UNCHANGED <<sameBatch, prog, batch, phase, finished, status, left>>
      /\ ReadAt(c, m) \/ Told(c, m) \/ Arrived(c, m)
  BY HandlerShape
<1>2. m.txn \in Txns /\ m.key \in Keys
  BY <1>0, <1>1, FlightFacts
<1>3. TypeOK'
  BY TypeHandler
<1>4. PhasesOK'
  BY <1>0, <1>1 DEF PhasesOK
<1>5. StatusOK'
  BY <1>0, <1>1 DEF StatusOK, StatusOf, Reached, Passed
<1>6. \A u : Reads(u)' = Reads(u) /\ Writes(u)' = Writes(u)
  BY <1>1, ProgramsFixed
<1>7. CASE ReadAt(c, m)
  <2> DEFINE a == Answer(m, Prev(store[m.key], m.txn))
  <2> HIDE DEF m
  <2>1. /\ m.type = "READ" /\ ~m.answer /\ Taken(c, {a})
        /\ UNCHANGED <<need, pend, notReady>>
    BY <1>7 DEF ReadAt
  <2>2. Prev(store[m.key], m.txn) \in Version
    BY <1>0, <1>1, <2>1, MessageFacts, PrevVersion DEF ChainOK
  <2>3. a.type = m.type /\ a.txn = m.txn /\ a.key = m.key /\ a.answer /\ Route(a) = Route(m)
    BY <1>1, <2>2, AnswerFacts
  <2> HIDE DEF a
  <2>4. WaitsOK'
    <3> SUFFICES ASSUME NEW u \in Txns PROVE WaitsOf(u)'
      BY DEF WaitsOK
    <3>1. WaitsOf(u)
      BY <1>0 DEF WaitsOK
    <3> QED
      BY <1>1, <1>6, <2>1, <3>1 DEF WaitsOf, Repeats, Analyzed, Remote, Local
  <2>5. MessagesOK' /\ NoTwins'
    <3>1. \A b \in {a} : /\ b.type = "READ" /\ chan[c][1].type = "READ"
                         /\ b.txn = chan[c][1].txn /\ b.key = chan[c][1].key
                         /\ b.answer /\ ~chan[c][1].answer
                         /\ Route(b) = Route(chan[c][1])
      BY <2>1, <2>3 DEF m
    <3>2. Waited(c, {a})
      BY <2>1 DEF Waited
    <3> QED
      BY <1>0, <1>1, <2>1, <3>1, <3>2, TakeMessages
  <2> QED
    BY <1>3, <1>4, <1>5, <2>4, <2>5 DEF Discipline
<1>8. CASE Told(c, m)
  <2>1. /\ m.type = "READ" /\ Taken(c, {})
        /\ pend' = [pend EXCEPT ![m.txn] = @ \ {m.key}]
    BY <1>8 DEF Told
  <2>2. status[m.txn] = "waiting" /\ m.key \in pend[m.txn]
    BY <1>1, <2>1, MessageFacts
  <2>3. MessagesOK' /\ NoTwins'
    <3>1. Waited(c, {})
      BY <2>1 DEF Waited
    <3> QED
      BY <1>0, <1>1, <2>1, <3>1, TakeMessages
  <2> HIDE DEF m
  <2>4. /\ pend'[m.txn] = pend[m.txn] \ {m.key}
        /\ \/ need'[m.txn] = need[m.txn] \ {m.key} /\ notReady'[m.txn] = notReady[m.txn]
           \/ need'[m.txn] = need[m.txn] /\ notReady'[m.txn] = TRUE
    BY <1>0, <1>2, <1>8 DEF TypeOK, Told
  <2>5. \A u \in Txns : u # m.txn =>
          need'[u] = need[u] /\ pend'[u] = pend[u] /\ notReady'[u] = notReady[u]
    BY <1>0, <1>2, <1>8 DEF TypeOK, Told
  <2>6. ASSUME NEW u \in Txns PROVE WaitsOf(u)'
    <3>1. WaitsOf(u)
      BY <1>0 DEF WaitsOK
    <3>2. CASE u # m.txn
      BY <1>1, <1>6, <2>5, <3>1, <3>2 DEF WaitsOf, Repeats, Analyzed, Remote, Local
    <3>3. CASE u = m.txn
      BY <1>1, <1>6, <2>2, <2>4, <3>1, <3>3 DEF WaitsOf, Repeats, Analyzed, Remote, Local
    <3> QED
      BY <3>2, <3>3
  <2> QED
    BY <1>3, <1>4, <1>5, <2>3, <2>6 DEF Discipline, WaitsOK
<1>9. CASE Arrived(c, m)
  <2>1. Taken(c, {}) /\ UNCHANGED <<need, pend, notReady>>
    BY <1>9 DEF Arrived
  <2>2. MessagesOK' /\ NoTwins'
    <3>1. Waited(c, {})
      BY <2>1 DEF Waited
    <3> QED
      BY <1>0, <1>1, <2>1, <3>1, TakeMessages
  <2>3. ASSUME NEW u \in Txns PROVE WaitsOf(u)'
    <3>1. WaitsOf(u)
      BY <1>0 DEF WaitsOK
    <3> QED
      BY <1>1, <1>6, <2>1, <3>1 DEF WaitsOf, Repeats, Analyzed, Remote, Local
  <2> QED
    BY <1>3, <1>4, <1>5, <2>2, <2>3 DEF Discipline, WaitsOK
<1> QED
  BY <1>1, <1>7, <1>8, <1>9

\* So do the workers that insert and collect versions.
LEMMA ServeDiscipline ==
  ASSUME Discipline, ChainOK, NEW n \in Nodes, NEW w \in Workers, Serve(n, w)
  PROVE  Discipline'
<1>0. TypeOK /\ PhasesOK /\ StatusOK /\ WaitsOK /\ MessagesOK /\ NoTwins
  BY DEF Discipline
<1>1. /\ UNCHANGED <<sameBatch, prog, batch, phase, status, need, pend, notReady,
                     seen, left, chan, torn>>
      /\ phase \in {"Insert", "GC"}
  BY DEF Serve, InsertWriteSets, GarbageCollect, config
<1>2. TypeOK'
  BY TypeServe
<1>3. PhasesOK'
  BY <1>0, <1>1 DEF PhasesOK
<1>4. StatusOK'
  BY <1>0, <1>1 DEF StatusOK, StatusOf, Reached, Passed
<1>5. ASSUME NEW u \in Txns PROVE WaitsOf(u)'
  <2>1. WaitsOf(u) /\ Reads(u)' = Reads(u) /\ Writes(u)' = Writes(u)
    BY <1>0, <1>1, ProgramsFixed DEF WaitsOK
  <2> QED
    BY <1>1, <2>1 DEF WaitsOf, Repeats, Analyzed, Remote, Local
<1>6. MessagesOK' /\ NoTwins'
  BY <1>0, <1>1, QuietMessages
<1> QED
  BY <1>2, <1>3, <1>4, <1>5, <1>6 DEF Discipline, WaitsOK

\* And the managers: a batch that repeats the first one's programs takes what
\* its transactions need from those of the batch before, which are done.
LEMMA ManageDiscipline ==
  ASSUME Discipline, Manage
  PROVE  Discipline'
<1>0. TypeOK /\ PhasesOK /\ StatusOK /\ WaitsOK /\ MessagesOK /\ NoTwins
  BY DEF Discipline
<1>1. UNCHANGED <<sameBatch, prog, store, status, pend, notReady, left, chan, torn>>
  BY DEF Manage, Analyze, EndInsert, EndExecute, EndGC, config
<1>2. TypeOK'
  BY TypeManage
<1>3. PhasesOK'
  BY <1>0, <1>1 DEF PhasesOK, Manage, Analyze, EndInsert, EndExecute, EndGC
<1>4. MessagesOK' /\ NoTwins'
  BY <1>0, <1>1, QuietMessages
<1>5. batch \in Nat /\ \A u \in Txns : BatchOf(u) \in Nat
  BY <1>0, TxnFacts DEF TypeOK
<1>6. ASSUME NEW u \in Txns PROVE StatusOf(u)'
  <2>1. StatusOf(u)
    BY <1>0 DEF StatusOK
  <2>2. CASE Analyze
    BY <1>1, <2>1, <2>2 DEF StatusOf, Reached, Passed, Analyze
  <2>3. CASE EndInsert
    BY <1>1, <2>1, <2>3 DEF StatusOf, Reached, Passed, EndInsert
  <2>4. CASE EndExecute
    BY <1>1, <2>1, <2>4 DEF StatusOf, Reached, Passed, EndExecute, Scheduled, Current
  <2>5. CASE EndGC
    BY <1>1, <1>5, <2>1, <2>5 DEF StatusOf, Reached, Passed, EndGC
  <2> QED
    BY <2>2, <2>3, <2>4, <2>5 DEF Manage
<1>7. ASSUME NEW u \in Txns PROVE WaitsOf(u)'
  <2>1. WaitsOf(u) /\ StatusOf(u) /\ Reads(u)' = Reads(u) /\ Writes(u)' = Writes(u)
    BY <1>0, <1>1, ProgramsFixed DEF WaitsOK, StatusOK
  <2>2. CASE UNCHANGED need /\ ~(Analyze /\ Repeats(u) /\ u \in Current)
    <3>1. Repeats(u)' = Repeats(u)
      BY <1>1 DEF Repeats
    <3>2. Repeats(u) => (Analyzed(u)' => Analyzed(u))
      BY <1>5, <2>2 DEF Analyzed, Manage, Analyze, EndInsert, EndExecute, EndGC, Current
    <3> QED
      BY <1>1, <2>1, <2>2, <3>1, <3>2 DEF WaitsOf, Remote, Local
  <2>3. CASE ~(UNCHANGED need /\ ~(Analyze /\ Repeats(u) /\ u \in Current))
    <3>1. /\ Analyze /\ sameBatch /\ batch > 1
          /\ need' = [t \in Txns |-> IF t \in Current THEN need[t - BatchSize] ELSE need[t]]
      <4>1. CASE ~Analyze
        BY <2>3, <4>1 DEF Manage, EndInsert, EndExecute, EndGC
      <4>2. CASE Analyze
        BY <2>3, <4>2 DEF Analyze, Repeats, Current
      <4> QED
        BY <4>1, <4>2
    <3>2. CASE u \notin Current
      <4>1. need'[u] = need[u]
        BY <3>1, <3>2
      <4>2. Repeats(u)' = Repeats(u) /\ Analyzed(u)' = Analyzed(u)
        BY <1>1, <3>1, <3>2 DEF Repeats, Analyzed, Analyze, Current
      <4> QED
        BY <1>1, <2>1, <4>1, <4>2 DEF WaitsOf, Remote, Local
    <3>3. CASE u \in Current
      <4> DEFINE v == u - BatchSize
      <4>1. BatchOf(u) = batch /\ phase = "Analysis" /\ need'[u] = need[v]
        BY <3>1, <3>3 DEF Current, Analyze
      <4>2. v \in Txns /\ SlotOf(v) = SlotOf(u) /\ BatchOf(v) = batch - 1
        BY <3>1, <4>1, BeforeFacts
      <4> HIDE DEF v
      <4>3. WaitsOf(v) /\ StatusOf(v) /\ prog[v] = prog[u]
        BY <1>0, <3>1, <4>2 DEF WaitsOK, StatusOK, PhasesOK
      <4>4. status[u] = "new"
        BY <1>5, <2>1, <4>1 DEF StatusOf, Reached
      <4>5. ~prog[u].rollback => need[v] = {}
        BY <1>5, <4>2, <4>3 DEF WaitsOf, StatusOf, Passed
      <4>6. need[v] \subseteq Reads(u)
        BY <4>3 DEF WaitsOf, Reads
      <4> QED
        BY <1>1, <2>1, <4>1, <4>4, <4>5, <4>6 DEF WaitsOf, Remote, Local
    <3> QED
      BY <3>2, <3>3
  <2> QED
    BY <2>2, <2>3
<1> QED
  BY <1>2, <1>3, <1>4, <1>6, <1>7 DEF Discipline, StatusOK, WaitsOK

\* It holds at the start ...
LEMMA DisciplineInit == Init => Discipline
<1> SUFFICES ASSUME Init PROVE Discipline
  OBVIOUS
<1>1. TypeOK
  BY TypeInit
<1>2. PhasesOK
  BY DEF Init, PhasesOK
<1>3. batch = 1 /\ \A t \in Txns : BatchOf(t) \in 1..NBatches /\ BatchOf(t) \in Nat
  BY TxnFacts DEF Init
<1>4. ASSUME NEW t \in Txns PROVE StatusOf(t) /\ WaitsOf(t)
  <2>1. ~(BatchOf(t) < batch) /\ phase = "Analysis"
    BY <1>3 DEF Init
  <2>2. /\ status[t] = "new" /\ need[t] = Reads(t) /\ pend[t] = {} /\ ~notReady[t]
        /\ left[t] = {}
    BY DEF Init
  <2> QED
    BY <2>1, <2>2 DEF StatusOf, WaitsOf, Passed, Analyzed
<1>5. \A c \in Channels : Len(chan[c]) = 0
  BY DEF Init
<1>6. MessagesOK
  BY <1>5 DEF MessagesOK
<1>7. NoTwins
  BY <1>5 DEF NoTwins
<1> QED
  BY <1>1, <1>2, <1>4, <1>6, <1>7 DEF Discipline, StatusOK, WaitsOK

\* ... and no step breaks it.
LEMMA DisciplineStep == Discipline /\ ChainOK /\ [Next]_vars => Discipline'
<1> SUFFICES ASSUME Discipline, ChainOK, [Next]_vars PROVE Discipline'
  OBVIOUS
<1>1. CASE UNCHANGED vars
  <2>0. TypeOK /\ PhasesOK /\ StatusOK /\ WaitsOK /\ MessagesOK /\ NoTwins
    BY DEF Discipline
  <2>1. UNCHANGED <<sameBatch, prog, batch, phase, finished, status, need, pend,
                    notReady, left, chan>>
    BY <1>1 DEF vars
  <2>2. PhasesOK' /\ StatusOK'
    BY <2>0, <2>1 DEF PhasesOK, StatusOK, StatusOf, Reached, Passed
  <2>3. WaitsOK'
    <3> SUFFICES ASSUME NEW u \in Txns PROVE WaitsOf(u)'
      BY DEF WaitsOK
    <3>1. WaitsOf(u) /\ Reads(u)' = Reads(u) /\ Writes(u)' = Writes(u)
      BY <2>0, <2>1, ProgramsFixed DEF WaitsOK
    <3> QED
      BY <2>1, <3>1 DEF WaitsOf, Repeats, Analyzed, Remote, Local
  <2>4. MessagesOK' /\ NoTwins'
    BY <2>0, <2>1, QuietMessages
  <2> QED
    BY <2>2, <2>3, <2>4, TypeStep DEF Discipline
<1>2. ASSUME NEW t \in Txns, Run(t) PROVE Discipline'
  BY <1>2, RunDiscipline
<1>3. ASSUME NEW c \in Channels, Process(c) PROVE Discipline'
  BY <1>3, HandlerDiscipline
<1>4. ASSUME NEW n \in Nodes, NEW w \in Workers, Serve(n, w) PROVE Discipline'
  BY <1>4, ServeDiscipline
<1>5. CASE Manage
  BY <1>5, ManageDiscipline
<1> QED
  BY <1>1, <1>2, <1>3, <1>4, <1>5 DEF Next

-----------------------------------------------------------------------------
(* Which versions a row has.                                               *)

\* From the first down, each version is that of the last writer before.
Chained(W, s) ==
  /\ s # <<>>
  /\ \A i \in 1..Len(s) - 1 : s[i + 1].ver = LastBefore(W, s[i].ver)
  /\ \A i, j \in 1..Len(s) : i < j => s[i].ver > s[j].ver

\* The versions of all writers from lo on, in front of a list that ends
\* before lo: the list goes on without a gap.
LEMMA ChainGrows ==
  ASSUME NEW W \in SUBSET Txns, NEW p \in Seq(Version), NEW s \in Seq(Version),
         NEW lo \in Nat, NEW hi \in Nat, 0 < lo, lo < hi,
         Chained(W, s), s[1].ver = LastBefore(W, lo),
         \A i \in 1..Len(p) : p[i].ver \in W /\ lo <= p[i].ver /\ p[i].ver < hi,
         \A i, j \in 1..Len(p) : i < j => p[i].ver > p[j].ver,
         \A t \in W : lo <= t /\ t < hi => \E i \in 1..Len(p) : p[i].ver = t
  PROVE  /\ Chained(W, p \o s)
         /\ (p \o s)[1].ver = LastBefore(W, hi)
         /\ (p \o s)[Len(p \o s)] = s[Len(s)]
<1> DEFINE q == p \o s
           n == Len(p)
<1>1. /\ n \in Nat /\ Len(s) \in Nat \ {0} /\ Len(q) = n + Len(s) /\ q # <<>>
      /\ \A i \in 1..n : q[i] = p[i]
      /\ \A i \in 1..Len(s) : q[n + i] = s[i]
  BY DEF Chained
<1>2. \A v \in W : v \in Nat /\ v > 0
  BY TxnFacts
<1>3. \A i \in 1..Len(s) : s[i].ver \in Nat
  <2> SUFFICES ASSUME NEW i \in 1..Len(s) PROVE s[i].ver \in Nat
    OBVIOUS
  <2>1. s[i] \in Version
    OBVIOUS
  <2> QED
    BY <2>1, TxnFacts DEF Version
<1>4. \A i \in 1..n : p[i].ver \in Nat /\ p[i].ver \in W /\ lo <= p[i].ver /\ p[i].ver < hi
  BY <1>2
<1>14. IsLastBefore(W, lo, s[1].ver)
  BY LastBeforeFacts
<1>5. s[1].ver < lo /\ \A v \in W : v < lo => v <= s[1].ver
  BY <1>14 DEF IsLastBefore
<1>6. s[1].ver \in {0} \cup W /\ s[1].ver \in Nat
  BY <1>2, <1>14 DEF IsLastBefore
<1> HIDE DEF q, n
<1>7. \A i \in 1..n : \A v \in W : v < p[i].ver => v < lo \/ \E j \in 1..n : p[j].ver = v /\ i < j
  <2> SUFFICES ASSUME NEW i \in 1..n, NEW v \in W, v < p[i].ver, ~(v < lo)
               PROVE  \E j \in 1..n : p[j].ver = v /\ i < j
    OBVIOUS
  <2>1. lo <= v /\ v < hi
    BY <1>2, <1>4
  <2>2. PICK j \in 1..n : p[j].ver = v
    BY <2>1 DEF n
  <2>3. i < j
    <3>1. i # j
      BY <1>2, <2>2
    <3>2. j < i => p[j].ver > p[i].ver
      BY DEF n
    <3> QED
      BY <1>1, <1>2, <1>4, <2>2, <3>1, <3>2
  <2> QED
    BY <2>2, <2>3
<1>8. \A i, j \in 1..n : i < j => p[i].ver > p[j].ver
  BY DEF n
<1>9. q[1].ver = LastBefore(W, hi)
  <2>1. CASE n = 0
    <3>1. q[1] = s[1]
      BY <1>1, <2>1
    <3>2. \A v \in W : v < hi => v < lo
      BY <1>2, <2>1 DEF n
    <3>3. IsLastBefore(W, hi, s[1].ver)
      BY <1>3, <1>1, <1>5, <1>6, <3>2 DEF IsLastBefore
    <3> QED
      BY <3>1, <3>3, LastBeforeFacts
  <2>2. CASE n # 0
    <3>1. 1 \in 1..n /\ q[1] = p[1]
      BY <1>1, <2>2
    <3>2. ASSUME NEW v \in W, v < hi PROVE v <= p[1].ver
      <4>1. CASE v < lo
        BY <1>2, <1>4, <3>1, <4>1
      <4>2. CASE lo <= v
        <5>1. PICK j \in 1..n : p[j].ver = v
          BY <3>2, <4>2 DEF n
        <5>2. 1 < j => p[1].ver > p[j].ver
          BY <1>8, <3>1
        <5> QED
          BY <1>1, <1>2, <1>4, <3>1, <5>1, <5>2
      <4> QED
        BY <1>2, <4>1, <4>2
    <3>3. IsLastBefore(W, hi, p[1].ver)
      BY <1>4, <3>1, <3>2 DEF IsLastBefore
    <3> QED
      BY <3>1, <3>3, LastBeforeFacts
  <2> QED
    BY <2>1, <2>2
<1>10. ASSUME NEW i \in 1..Len(q) - 1 PROVE q[i + 1].ver = LastBefore(W, q[i].ver)
  <2>1. CASE i < n
    <3>1. i \in 1..n /\ i + 1 \in 1..n /\ q[i] = p[i] /\ q[i + 1] = p[i + 1]
      BY <1>1, <2>1
    <3>2. ASSUME NEW v \in W, v < p[i].ver PROVE v <= p[i + 1].ver
      <4>1. CASE v < lo
        BY <1>2, <1>4, <3>1, <4>1
      <4>2. CASE \E j \in 1..n : p[j].ver = v /\ i < j
        <5>1. PICK j \in 1..n : p[j].ver = v /\ i < j
          BY <4>2
        <5>2. i + 1 < j => p[i + 1].ver > p[j].ver
          BY <1>8, <3>1
        <5>3. j = i + 1 \/ i + 1 < j
          BY <1>1, <3>1, <5>1
        <5> QED
          BY <1>2, <1>4, <3>1, <5>1, <5>2, <5>3
      <4> QED
        BY <1>7, <3>1, <3>2, <4>1, <4>2
    <3>3. p[i + 1].ver < p[i].ver
      BY <1>4, <1>8, <2>1, <3>1
    <3>4. IsLastBefore(W, p[i].ver, p[i + 1].ver)
      BY <1>4, <3>1, <3>2, <3>3 DEF IsLastBefore
    <3>5. p[i].ver \in Nat /\ p[i].ver > 0
      BY <1>2, <1>4, <3>1
    <3> QED
      BY <3>1, <3>4, <3>5, LastBeforeFacts
  <2>2. CASE i = n
    <3>1. i \in 1..n /\ q[i] = p[i] /\ q[i + 1] = s[1]
      BY <1>1, <2>2
    <3>2. ASSUME NEW v \in W, v < p[i].ver PROVE v <= s[1].ver
      <4>1. ~ \E j \in 1..n : i < j
        BY <1>1, <2>2
      <4>2. v < lo
        BY <1>7, <3>1, <3>2, <4>1
      <4> QED
        BY <1>5, <4>2
    <3>3. s[1].ver < p[i].ver
      <4>1. p[i].ver \in Nat /\ lo <= p[i].ver
        BY <1>4, <3>1
      <4> QED
        BY <1>5, <1>6, <4>1
    <3>4. IsLastBefore(W, p[i].ver, s[1].ver)
      BY <1>6, <3>2, <3>3 DEF IsLastBefore
    <3>5. p[i].ver \in Nat /\ p[i].ver > 0
      BY <1>2, <1>4, <3>1
    <3> QED
      BY <3>1, <3>4, <3>5, LastBeforeFacts
  <2>3. CASE i > n
    <3> DEFINE d == i - n
    <3>1. d \in 1..Len(s) - 1 /\ d \in 1..Len(s) /\ d + 1 \in 1..Len(s)
      BY <1>1, <2>3
    <3>2. n + d = i /\ n + (d + 1) = i + 1
      BY <1>1
    <3> HIDE DEF d
    <3>3. q[n + d] = s[d] /\ q[n + (d + 1)] = s[d + 1]
      BY <1>1, <3>1
    <3>4. s[d + 1].ver = LastBefore(W, s[d].ver)
      BY <3>1 DEF Chained
    <3> QED
      BY <3>2, <3>3, <3>4
  <2> QED
    BY <1>1, <2>1, <2>2, <2>3
<1>11. ASSUME NEW i \in 1..Len(q), NEW j \in 1..Len(q), i < j
       PROVE  q[i].ver > q[j].ver
  <2>1. ASSUME NEW x \in 1..Len(q), x > n
        PROVE  x - n \in 1..Len(s) /\ q[x] = s[x - n]
    <3>1. x - n \in 1..Len(s) /\ n + (x - n) = x
      BY <1>1, <2>1
    <3> QED
      BY <1>1, <3>1
  <2>2. CASE j <= n
    <3>1. i \in 1..n /\ j \in 1..n
      BY <1>1, <1>11, <2>2
    <3> QED
      BY <1>1, <1>8, <1>11, <3>1
  <2>3. CASE i <= n /\ j > n
    <3>1. i \in 1..n /\ q[i] = p[i] /\ j - n \in 1..Len(s) /\ q[j] = s[j - n]
      BY <1>1, <2>1, <2>3
    <3>2. s[j - n].ver <= s[1].ver
      <4>1. j - n = 1 \/ 1 < j - n
        BY <3>1
      <4>2. 1 \in 1..Len(s)
        BY <1>1
      <4>3. 1 < j - n => s[1].ver > s[j - n].ver
        BY <3>1, <4>2 DEF Chained
      <4> QED
        BY <1>3, <3>1, <4>1, <4>2, <4>3
    <3>3. s[1].ver \in Nat /\ s[j - n].ver \in Nat
      BY <1>1, <1>3, <3>1
    <3>4. p[i].ver \in Nat /\ lo <= p[i].ver
      BY <1>4, <3>1
    <3> QED
      BY <1>5, <3>1, <3>2, <3>3, <3>4
  <2>4. CASE i > n
    <3>1. /\ i - n \in 1..Len(s) /\ q[i] = s[i - n] /\ j - n \in 1..Len(s) /\ q[j] = s[j - n]
          /\ i - n < j - n
      BY <1>1, <1>11, <2>1, <2>4
    <3> QED
      BY <3>1 DEF Chained
  <2> QED
    BY <1>1, <2>2, <2>3, <2>4
<1>12. q[Len(q)] = s[Len(s)]
  BY <1>1
<1>13. Chained(W, q)
  BY <1>1, <1>10, <1>11 DEF Chained
<1> QED
  BY <1>9, <1>12, <1>13 DEF q

\* What ChainOf says of a row.
LEMMA ChainParts ==
  ASSUME NEW k
  PROVE  ChainOf(k) <=>
           /\ Chained(Writers(k), store[k])
           /\ store[k][1].ver =
                LastBefore(Writers(k), FirstOf(IF Inserted(k) THEN batch + 1 ELSE batch))
           /\ IF Collected(k) THEN Len(store[k]) = 1
              ELSE store[k][Len(store[k])].ver = LastBefore(Writers(k), FirstOf(batch))
BY WritersFacts DEF ChainOf, Chained, Newest, Oldest

\* And after a step, which leaves the programs as they are.
LEMMA ChainNext ==
  ASSUME UNCHANGED prog, NEW k, Chained(Writers(k), store'[k]),
         store'[k][1].ver =
           LastBefore(Writers(k), FirstOf(IF Inserted(k)' THEN batch' + 1 ELSE batch')),
         IF Collected(k)' THEN Len(store'[k]) = 1
         ELSE store'[k][Len(store'[k])].ver = LastBefore(Writers(k), FirstOf(batch'))
  PROVE  ChainOf(k)'
<1>1. Writers(k)' = Writers(k) /\ \A ver : WriterBefore(k, ver)' = LastBefore(Writers(k), ver)
  BY ProgramsFixed, WritersFacts
<1>2. store'[k] # <<>>
  BY DEF Chained
<1>3. store'[k][1].ver = Newest(k)'
  BY <1>1 DEF Newest
<1>4. \A i \in 1..Len(store'[k]) - 1 :
        store'[k][i + 1].ver = WriterBefore(k, store[k][i].ver)'
  BY <1>1 DEF Chained
<1>5. \A i, j \in 1..Len(store'[k]) : i < j => store'[k][i].ver > store'[k][j].ver
  BY DEF Chained
<1>6. IF Collected(k)' THEN Len(store'[k]) = 1
      ELSE store'[k][Len(store'[k])].ver = Oldest(k)'
  BY <1>1 DEF Oldest
<1> QED
  BY <1>2, <1>3, <1>4, <1>5, <1>6 DEF ChainOf

\* Versions may be written: they stay where they are.
SameVersions ==
  \A k \in Keys : /\ store'[k] \in Seq(Version) /\ Len(store'[k]) = Len(store[k])
                  /\ \A i \in 1..Len(store[k]) : store'[k][i].ver = store[k][i].ver

\* The version of t in row k is written, and no other.
OneWritten(k, t, val) ==
  \A j \in Keys : \A i \in 1..Len(store[j]) :
    IF j = k /\ store[j][i].ver = t
      THEN store'[j][i].word = 0 /\ store'[j][i].val = val
      ELSE store'[j][i] = store[j][i]

Writing(k, t, val) == store' = [store EXCEPT ![k] = SetVersion(@, t, 0, val)]

\* A write of a version is one of those steps.
LEMMA WriteVersions ==
  ASSUME TypeOK, NEW k \in Keys, NEW t \in Txns, NEW val \in Values,
         Writing(k, t, val)
  PROVE  SameVersions /\ OneWritten(k, t, val)
<1>1. \A j \in Keys : store[j] \in Seq(Version)
  BY DEF TypeOK
<1>2. store'[k] = SetVersion(store[k], t, 0, val) /\ \A j \in Keys : j # k => store'[j] = store[j]
  BY DEF TypeOK, Writing
<1>3. Wrote(store'[k], store[k], t, 0, val)
  BY <1>1, <1>2, SetVersionFacts
<1>4. SameVersions
  BY <1>1, <1>2, <1>3 DEF SameVersions, Wrote
<1>5. ASSUME NEW j \in Keys, NEW i \in 1..Len(store[j])
      PROVE  IF j = k /\ store[j][i].ver = t
               THEN store'[j][i].word = 0 /\ store'[j][i].val = val
               ELSE store'[j][i] = store[j][i]
  BY <1>2, <1>3 DEF Wrote
<1> QED
  BY <1>4, <1>5 DEF OneWritten

\* No transaction and no handler moves a version.
LEMMA RunVersions ==
  ASSUME TypeOK, NEW t \in Txns, Run(t)
  PROVE  SameVersions
<1>1. \A k \in Keys : store[k] \in Seq(Version)
  BY DEF TypeOK
<1>2. CASE UNCHANGED store
  BY <1>1, <1>2 DEF SameVersions
<1>3. CASE Read(t) \/ Retry(t) \/ Execute(t) \/ FinishCommit(t)
  BY <1>2, <1>3 DEF Read, Retry, Execute, FinishCommit
<1>4. ASSUME NEW k \in Keys, MarkWritten(t, k) \/ CopyValue(t, k) PROVE SameVersions
  <2>1. PICK val \in Values : Writing(k, t, val)
    BY <1>4 DEF MarkWritten, CopyValue, Values, Writing
  <2> QED
    BY <2>1, WriteVersions
<1> QED
  BY <1>3, <1>4 DEF Run

\* Nor does a handler add or take a version.
LEMMA HandlerVersions ==
  ASSUME Discipline, ChainOK, NEW c \in Channels, Process(c)
  PROVE  SameVersions
<1> DEFINE m == chan[c][1]
<1>1. m \in Message /\ (ReadAt(c, m) \/ Told(c, m) \/ Arrived(c, m))
  BY HandlerShape
<1>2. TypeOK /\ m.txn \in Txns /\ m.key \in Keys
  BY <1>1, FlightFacts DEF Discipline
<1>3. \A k \in Keys : store[k] \in Seq(Version)
  BY <1>2 DEF TypeOK
<1> HIDE DEF m
<1>4. CASE ReadAt(c, m) \/ Told(c, m)
  BY <1>3, <1>4 DEF ReadAt, Told, SameVersions
<1>5. CASE Arrived(c, m)
  <2>1. m.txn \in Values /\ Writing(m.key, m.txn, m.txn)
    BY <1>2, <1>5 DEF Arrived, Values, Writing
  <2> QED
    BY <1>2, <2>1, WriteVersions
<1> QED
  BY <1>1, <1>4, <1>5

\* So that a row keeps its chain while the phase goes on.
LEMMA ChainKept ==
  ASSUME TypeOK, ChainOK, SameVersions, UNCHANGED <<prog, batch, phase, finished>>
  PROVE  ChainOK'
<1> SUFFICES ASSUME NEW k \in Keys PROVE ChainOf(k)'
  BY DEF ChainOK
<1> DEFINE s == store[k]
           r == store'[k]
<1>1. ChainOf(k)
  BY DEF ChainOK
<1>2. /\ Chained(Writers(k), s)
      /\ s[1].ver = LastBefore(Writers(k), FirstOf(IF Inserted(k) THEN batch + 1 ELSE batch))
      /\ IF Collected(k) THEN Len(s) = 1
         ELSE s[Len(s)].ver = LastBefore(Writers(k), FirstOf(batch))
  BY <1>1, ChainParts
<1>3. /\ r \in Seq(Version) /\ Len(r) = Len(s)
      /\ \A i \in 1..Len(s) : r[i].ver = s[i].ver
  BY DEF SameVersions
<1>4. (Inserted(k)' <=> Inserted(k)) /\ (Collected(k)' <=> Collected(k))
  BY ProgramsFixed DEF Inserted, Collected, Current
<1> HIDE DEF s, r
<1>5. Len(s) \in Nat \ {0} /\ 1 \in 1..Len(s) /\ Len(s) \in 1..Len(s)
  BY <1>1, ChainMembers DEF s
<1>6. r # <<>>
  BY <1>3, <1>5
<1>7. \A i \in 1..Len(r) - 1 : r[i + 1].ver = LastBefore(Writers(k), r[i].ver)
  <2> SUFFICES ASSUME NEW i \in 1..Len(s) - 1
               PROVE  r[i + 1].ver = LastBefore(Writers(k), r[i].ver)
    BY <1>3
  <2>1. i \in 1..Len(s) /\ i + 1 \in 1..Len(s)
    BY <1>5
  <2>2. s[i + 1].ver = LastBefore(Writers(k), s[i].ver)
    BY <1>2 DEF Chained
  <2>3. r[i + 1].ver = s[i + 1].ver /\ r[i].ver = s[i].ver
    BY <1>3, <2>1
  <2> QED
    BY <2>2, <2>3
<1>8. \A i, j \in 1..Len(r) : i < j => r[i].ver > r[j].ver
  BY <1>2, <1>3 DEF Chained
<1>9. Chained(Writers(k), r)
  BY <1>6, <1>7, <1>8 DEF Chained
<1>10. r[1].ver = s[1].ver /\ r[Len(r)].ver = s[Len(s)].ver
  BY <1>3, <1>5
<1> QED
  BY <1>2, <1>3, <1>4, <1>9, <1>10, ChainNext DEF r

\* Inserting the versions of a batch extends the chain to its last writer.
LEMMA InsertChain ==
  ASSUME Discipline, ChainOK, NEW n \in Nodes, NEW w \in Workers,
         InsertWriteSets(n, w)
  PROVE  ChainOK'
<1> SUFFICES ASSUME NEW k \in Keys PROVE ChainOf(k)'
  BY DEF ChainOK
<1> DEFINE s == store[k]
           p == Placeholders(k)
           W == Writers(k)
<1>0. TypeOK
  BY DEF Discipline
<1>1. UNCHANGED <<prog, batch, phase>> /\ phase = "Insert" /\ <<n, w>> \notin finished
      /\ finished' = finished \cup {<<n, w>>}
  BY DEF InsertWriteSets, config
<1>2. ChainOf(k) /\ ~Collected(k) /\ ~Collected(k)'
  BY <1>1 DEF ChainOK, Collected
<1>3. /\ Chained(W, s)
      /\ s[1].ver = LastBefore(W, FirstOf(IF Inserted(k) THEN batch + 1 ELSE batch))
      /\ s[Len(s)].ver = LastBefore(W, FirstOf(batch))
  BY <1>2, ChainParts
<1>4. store'[k] = IF Owner[k] = n /\ InserterOf[k] = w THEN p \o s ELSE s
  BY DEF InsertWriteSets
<1>5. CASE Owner[k] = n /\ InserterOf[k] = w
  <2>1. ~Inserted(k) /\ Inserted(k)'
    BY <1>1, <1>5 DEF Inserted
  <2>2. /\ p \in Seq(Version)
        /\ \A i \in 1..Len(p) : p[i].ver \in W /\ BatchOf(p[i].ver) = batch
        /\ \A i, j \in 1..Len(p) : i < j => p[i].ver > p[j].ver
        /\ \A t \in W : BatchOf(t) = batch => \E i \in 1..Len(p) : p[i].ver = t
    BY PlaceholdersFacts
  <2>3. /\ batch \in Nat /\ FirstOf(batch) \in Nat /\ FirstOf(batch) > 0
        /\ FirstOf(batch + 1) \in Nat /\ FirstOf(batch) < FirstOf(batch + 1)
        /\ \A t \in W : /\ t \in Nat
                        /\ t < FirstOf(batch) <=> BatchOf(t) < batch
                        /\ t < FirstOf(batch + 1) <=> BatchOf(t) <= batch
                        /\ BatchOf(t) \in Nat
    <3>1. \A t \in W : t \in Txns
      BY WritersFacts
    <3>2. \A t \in Txns : t \in Nat /\ BatchOf(t) \in Nat
      BY TxnFacts
    <3> QED
      BY <1>0, <3>1, <3>2, FirstIds
  <2>4. s \in Seq(Version) /\ W \in SUBSET Txns
    BY <1>0, WritersFacts DEF TypeOK
  <2> HIDE DEF s, p, W
  <2>5. \A i \in 1..Len(p) : FirstOf(batch) <= p[i].ver /\ p[i].ver < FirstOf(batch + 1)
    BY <2>2, <2>3
  <2>6. \A t \in W : FirstOf(batch) <= t /\ t < FirstOf(batch + 1) =>
          \E i \in 1..Len(p) : p[i].ver = t
    BY <2>2, <2>3
  <2>7. s[1].ver = LastBefore(W, FirstOf(batch))
    BY <1>3, <2>1
  <2>8. /\ Chained(W, p \o s)
        /\ (p \o s)[1].ver = LastBefore(W, FirstOf(batch + 1))
        /\ (p \o s)[Len(p \o s)] = s[Len(s)]
    <3> DEFINE lo == FirstOf(batch)
               hi == FirstOf(batch + 1)
    <3>1. lo \in Nat /\ hi \in Nat /\ 0 < lo /\ lo < hi
      BY <2>3
    <3>2. Chained(W, s) /\ s[1].ver = LastBefore(W, lo)
      BY <1>3, <2>7 DEF s, W
    <3>3. \A i \in 1..Len(p) : p[i].ver \in W /\ lo <= p[i].ver /\ p[i].ver < hi
      BY <2>2, <2>5
    <3>4. \A t \in W : lo <= t /\ t < hi => \E i \in 1..Len(p) : p[i].ver = t
      BY <2>6
    <3> HIDE DEF lo, hi
    <3>5. /\ Chained(W, p \o s)
          /\ (p \o s)[1].ver = LastBefore(W, hi)
          /\ (p \o s)[Len(p \o s)] = s[Len(s)]
      BY <2>2, <2>4, <3>1, <3>2, <3>3, <3>4, ChainGrows
    <3> QED
      BY <3>5 DEF hi
  <2> QED
    BY <1>1, <1>2, <1>3, <1>4, <1>5, <2>1, <2>8, ChainNext DEF W
<1>6. CASE ~(Owner[k] = n /\ InserterOf[k] = w)
  <2>1. Inserted(k)' <=> Inserted(k)
    BY <1>1, <1>6 DEF Inserted
  <2>2. store'[k] = s
    BY <1>4, <1>6
  <2> QED
    BY <1>1, <1>2, <1>3, <2>1, <2>2, ChainNext
<1> QED
  BY <1>5, <1>6

\* Collecting leaves the newest version.
LEMMA CollectChain ==
  ASSUME Discipline, ChainOK, NEW n \in Nodes, NEW w \in Workers,
         GarbageCollect(n, w)
  PROVE  ChainOK'
<1> SUFFICES ASSUME NEW k \in Keys PROVE ChainOf(k)'
  BY DEF ChainOK
<1> DEFINE s == store[k]
           W == Writers(k)
           mine == Owner[k] = n /\ \E t \in Current : k \in Writes(t) /\ SlotOf(t) % NWorkers = w
<1>0. TypeOK
  BY DEF Discipline
<1>1. UNCHANGED <<prog, batch, phase>> /\ phase = "GC"
      /\ finished' = finished \cup {<<n, w>>}
  BY DEF GarbageCollect, config
<1>2. ChainOf(k) /\ Inserted(k) /\ Inserted(k)'
  BY <1>1 DEF ChainOK, Inserted
<1>3. /\ Chained(W, s) /\ s[1].ver = LastBefore(W, FirstOf(batch + 1))
      /\ IF Collected(k) THEN Len(s) = 1 ELSE s[Len(s)].ver = LastBefore(W, FirstOf(batch))
  BY <1>2, ChainParts
<1>4. store'[k] = IF mine THEN <<Head(s)>> ELSE s
  BY ServeShape DEF CollectedRow
<1>5. Current' = Current /\ \A t : Writes(t)' = Writes(t)
  BY <1>1, ProgramsFixed DEF Current
<1>6. CASE mine
  <2>1. Collected(k)'
    BY <1>1, <1>5, <1>6 DEF Collected
  <2>2. s \in Seq(Version) /\ s # <<>>
    BY <1>0, <1>2 DEF TypeOK, ChainOf
  <2> DEFINE r == <<Head(s)>>
  <2>3. Len(r) = 1 /\ r[1] = s[1] /\ r # <<>>
    BY <2>2
  <2> HIDE DEF r
  <2>4. Chained(W, r)
    BY <2>3 DEF Chained
  <2>5. store'[k] = r
    BY <1>4, <1>6 DEF r
  <2> QED
    BY <1>1, <1>2, <1>3, <2>1, <2>3, <2>4, <2>5, ChainNext
<1>7. CASE ~mine
  <2>1. Collected(k)' <=> Collected(k)
    BY <1>1, <1>5, <1>7 DEF Collected
  <2>2. store'[k] = s
    BY <1>4, <1>7
  <2> QED
    BY <1>1, <1>2, <1>3, <2>1, <2>2, ChainNext
<1> QED
  BY <1>6, <1>7

\* After the collection each row has one version left.
LEMMA CollectedAll ==
  ASSUME Discipline, ChainOK, phase = "GC", finished = Nodes \X Workers, NEW k \in Keys
  PROVE  Len(store[k]) = 1
<1> DEFINE s == store[k]
           W == Writers(k)
<1>0. TypeOK /\ ChainOf(k)
  BY DEF Discipline, ChainOK
<1>1. CASE Collected(k)
  BY <1>0, <1>1 DEF ChainOf
<1>2. CASE ~Collected(k)
  <2>1. ASSUME NEW t \in Current, k \in Writes(t) PROVE FALSE
    <3>1. t \in Txns
      BY DEF Current
    <3>2. SlotOf(t) \in Nat
      BY <3>1, TxnFacts, SizeAssumption DEF Slots
    <3>3. SlotOf(t) % NWorkers \in Workers
      BY <3>2, SizeAssumption DEF Workers
    <3>4. <<Owner[k], SlotOf(t) % NWorkers>> \in finished
      BY <3>3, PlacementAssumption
    <3> QED
      BY <1>2, <2>1, <3>4 DEF Collected
  <2>2. /\ Chained(W, s) /\ s[1].ver = LastBefore(W, FirstOf(batch + 1))
        /\ s[Len(s)].ver = LastBefore(W, FirstOf(batch))
    BY <1>0, <1>2, ChainParts DEF Inserted
  <2>3. \A t \in W : t < FirstOf(batch + 1) => t < FirstOf(batch)
    <3> SUFFICES ASSUME NEW t \in W, t < FirstOf(batch + 1) PROVE t < FirstOf(batch)
      OBVIOUS
    <3>1. t \in Txns /\ k \in Writes(t)
      BY WritersFacts
    <3>2. BatchOf(t) <= batch /\ BatchOf(t) \in Nat /\ batch \in Nat
      BY <1>0, <3>1, FirstIds, TxnFacts
    <3>3. BatchOf(t) # batch
      BY <2>1, <3>1 DEF Current
    <3> QED
      BY <1>0, <3>1, <3>2, <3>3, FirstIds
  <2>4. /\ W \in SUBSET Txns /\ FirstOf(batch) \in Nat /\ FirstOf(batch) > 0
        /\ FirstOf(batch + 1) \in Nat /\ FirstOf(batch + 1) > FirstOf(batch)
    BY <1>0, WritersFacts, FirstIds
  <2>5. s[Len(s)].ver \in Nat /\ Len(s) \in Nat \ {0}
    BY <1>0, ChainMembers
  <2> HIDE DEF s, W
  <2>6. IsLastBefore(W, FirstOf(batch), s[Len(s)].ver)
    BY <2>2, <2>4, LastBeforeFacts
  <2>7. IsLastBefore(W, FirstOf(batch + 1), s[Len(s)].ver)
    BY <2>3, <2>4, <2>5, <2>6 DEF IsLastBefore
  <2>8. s[1].ver = s[Len(s)].ver
    BY <2>2, <2>4, <2>7, LastBeforeFacts
  <2>9. ~(1 < Len(s))
    BY <2>2, <2>5, <2>8 DEF Chained
  <2>10. Len(s) = 1
    <3>1. Len(s) \in Nat \ {0} /\ ~(1 < Len(s))
      BY <2>5, <2>9
    <3> HIDE <1>0, <1>2
    <3> QED
      BY <3>1
  <2> QED
    BY <2>10 DEF s
<1> QED
  BY <1>1, <1>2

\* The managers keep the chains.
LEMMA ManageChain ==
  ASSUME Discipline, ChainOK, Manage
  PROVE  ChainOK'
<1> SUFFICES ASSUME NEW k \in Keys PROVE ChainOf(k)'
  BY DEF ChainOK
<1> DEFINE s == store[k]
           W == Writers(k)
<1>0. TypeOK /\ PhasesOK /\ ChainOf(k)
  BY DEF Discipline, ChainOK
<1>1. UNCHANGED <<prog, store>>
  BY DEF Manage, Analyze, EndInsert, EndExecute, EndGC, config
<1>2. /\ Chained(W, s)
      /\ s[1].ver = LastBefore(W, FirstOf(IF Inserted(k) THEN batch + 1 ELSE batch))
      /\ IF Collected(k) THEN Len(s) = 1 ELSE s[Len(s)].ver = LastBefore(W, FirstOf(batch))
  BY <1>0, ChainParts
<1>3. CASE Analyze
  <2>1. batch' = batch /\ finished' = {} /\ phase = "Analysis" /\ phase' = "Insert"
    BY <1>0, <1>3 DEF PhasesOK, Analyze
  <2>2. ~Inserted(k) /\ ~Inserted(k)' /\ ~Collected(k) /\ ~Collected(k)'
    BY <2>1 DEF Inserted, Collected
  <2> QED
    BY <1>1, <1>2, <2>1, <2>2, ChainNext
<1>4. CASE EndInsert
  <2>1. batch' = batch /\ phase = "Insert" /\ phase' = "Execute" /\ finished = Nodes \X Workers
    BY <1>4 DEF EndInsert
  <2>2. Inserted(k) /\ Inserted(k)' /\ ~Collected(k) /\ ~Collected(k)'
    BY <2>1, PlacementAssumption DEF Inserted, Collected
  <2> QED
    BY <1>1, <1>2, <2>1, <2>2, ChainNext
<1>5. CASE EndExecute
  <2>1. batch' = batch /\ phase = "Execute" /\ phase' = "GC" /\ finished' = {}
    BY <1>0, <1>5 DEF EndExecute, PhasesOK
  <2>2. Inserted(k) /\ Inserted(k)' /\ ~Collected(k) /\ ~Collected(k)'
    BY <2>1 DEF Inserted, Collected
  <2> QED
    BY <1>1, <1>2, <2>1, <2>2, ChainNext
<1>6. CASE EndGC
  <2>1. phase = "GC" /\ finished = Nodes \X Workers /\ finished' = {}
    BY <1>6 DEF EndGC
  <2>2. Len(s) = 1 /\ s[1].ver = LastBefore(W, FirstOf(batch + 1))
    BY <1>2, <2>1, CollectedAll DEF Inserted
  <2>3. CASE batch' = batch + 1 /\ phase' = "Analysis"
    <3>1. ~Inserted(k)' /\ ~Collected(k)'
      BY <2>3 DEF Inserted, Collected
    <3>2. s[Len(s)].ver = LastBefore(W, FirstOf(batch + 1))
      BY <2>2
    <3> QED
      BY <1>1, <1>2, <2>2, <2>3, <3>1, <3>2, ChainNext
  <2>4. CASE batch' = batch /\ phase' = "DONE"
    <3>1. Inserted(k)' /\ Collected(k)'
      BY <2>4 DEF Inserted, Collected
    <3> QED
      BY <1>1, <1>2, <2>2, <2>4, <3>1, ChainNext
  <2> QED
    BY <1>6, <2>3, <2>4 DEF EndGC
<1> QED
  BY <1>3, <1>4, <1>5, <1>6 DEF Manage

\* Rows are loaded with one version ...
LEMMA ChainInit == Init => ChainOK
<1> SUFFICES ASSUME Init, NEW k \in Keys PROVE ChainOf(k)
  BY DEF ChainOK
<1>0. TypeOK
  BY TypeInit
<1>1. /\ store[k] = <<Loaded>> /\ phase = "Analysis" /\ batch = 1
      /\ ~Inserted(k) /\ ~Collected(k)
  BY DEF Init, Inserted, Collected
<1> DEFINE s == store[k]
<1>2. Len(s) = 1 /\ s # <<>> /\ s[1].ver = 0
  BY <1>1 DEF Loaded
<1> HIDE DEF s
<1>3. Chained(Writers(k), s)
  BY <1>2 DEF Chained
<1>4. LastBefore(Writers(k), FirstOf(batch)) = 0
  <2>1. \A t \in Writers(k) : ~(t < FirstOf(batch))
    <3> SUFFICES ASSUME NEW t \in Writers(k) PROVE ~(t < FirstOf(batch))
      OBVIOUS
    <3>1. t \in Txns /\ BatchOf(t) \in 1..NBatches
      BY WritersFacts, TxnFacts
    <3> QED
      BY <1>0, <1>1, <3>1, SizeAssumption, FirstIds
  <2>2. Writers(k) \in SUBSET Txns /\ FirstOf(batch) \in Nat /\ FirstOf(batch) > 0
    BY <1>0, WritersFacts, FirstIds
  <2>3. IsLastBefore(Writers(k), FirstOf(batch), 0)
    BY <2>1, <2>2 DEF IsLastBefore
  <2> QED
    BY <2>2, <2>3, LastBeforeFacts
<1>5. /\ Chained(Writers(k), store[k])
      /\ store[k][1].ver =
           LastBefore(Writers(k), FirstOf(IF Inserted(k) THEN batch + 1 ELSE batch))
      /\ IF Collected(k) THEN Len(store[k]) = 1
         ELSE store[k][Len(store[k])].ver = LastBefore(Writers(k), FirstOf(batch))
  BY <1>1, <1>2, <1>3, <1>4 DEF s
<1> QED
  BY <1>5, ChainParts

\* ... and no step breaks the chains.
LEMMA ChainStep == Discipline /\ ChainOK /\ [Next]_vars => ChainOK'
<1> SUFFICES ASSUME Discipline, ChainOK, [Next]_vars PROVE ChainOK'
  OBVIOUS
<1>0. TypeOK
  BY DEF Discipline
<1>1. CASE UNCHANGED vars
  <2>1. UNCHANGED <<prog, batch, phase, finished, store>>
    BY <1>1 DEF vars
  <2>2. SameVersions
    BY <1>0, <2>1 DEF SameVersions, TypeOK
  <2> QED
    BY <1>0, <2>1, <2>2, ChainKept
<1>2. ASSUME NEW t \in Txns, Run(t) PROVE ChainOK'
  BY <1>0, <1>2, RunShape, RunVersions, ChainKept
<1>3. ASSUME NEW c \in Channels, Process(c) PROVE ChainOK'
  <2>1. UNCHANGED <<prog, batch, phase, finished>>
    BY <1>3, HandlerShape
  <2> QED
    BY <1>0, <1>3, <2>1, HandlerVersions, ChainKept
<1>4. ASSUME NEW n \in Nodes, NEW w \in Workers, Serve(n, w) PROVE ChainOK'
  BY <1>4, InsertChain, CollectChain DEF Serve
<1>5. CASE Manage
  BY <1>5, ManageChain
<1> QED
  BY <1>1, <1>2, <1>3, <1>4, <1>5 DEF Next

-----------------------------------------------------------------------------
(* What is written stays written.                                          *)

\* No step changes a program or the flag.
LEMMA ConfigStep == [Next]_vars => UNCHANGED <<sameBatch, prog>>
<1>1. ASSUME NEW t \in Txns, Run(t) PROVE UNCHANGED <<sameBatch, prog>>
  BY <1>1 DEF Run, Read, Retry, Execute, FinishCommit, MarkWritten, CopyValue, config
<1>2. ASSUME NEW c \in Channels, Process(c) PROVE UNCHANGED <<sameBatch, prog>>
  BY <1>2 DEF Process, ReadRequest, ReadResponse, WriteRequest, config
<1>3. ASSUME NEW n \in Nodes, NEW w \in Workers, Serve(n, w)
      PROVE  UNCHANGED <<sameBatch, prog>>
  BY <1>3 DEF Serve, InsertWriteSets, GarbageCollect, config
<1>4. Manage => UNCHANGED <<sameBatch, prog>>
  BY DEF Manage, Analyze, EndInsert, EndExecute, EndGC, config
<1> QED
  BY <1>1, <1>2, <1>3, <1>4 DEF Next, vars

\* Who commits goes on to be done, and who is done stays so.
LEMMA StatusMoves ==
  ASSUME TypeOK, [Next]_vars, NEW u \in Txns
  PROVE  /\ status[u] = "done" => status'[u] = "done"
         /\ status[u] = "committing" => status'[u] \in {"committing", "done"}
         /\ status'[u] \in {"committing", "done"} /\ status[u] \notin {"committing", "done"} =>
              Execute(u)
<1>1. ASSUME NEW t \in Txns, Run(t)
      PROVE  /\ status[u] = "done" => status'[u] = "done"
             /\ status[u] = "committing" => status'[u] \in {"committing", "done"}
             /\ status'[u] \in {"committing", "done"} /\ status[u] \notin {"committing", "done"} =>
                  Execute(u)
  <2>1. CASE u # t
    BY <1>1, <2>1, RunShape
  <2>2. CASE u = t
    <3>1. Read(t) => status[u] = "new" /\ status'[u] = "waiting"
      BY <2>2 DEF TypeOK, Read
    <3>2. Retry(t) => status[u] = "waiting" /\ status'[u] = "new"
      BY <2>2 DEF TypeOK, Retry
    <3>3. Execute(t) => status[u] = "waiting" /\ Execute(u)
      BY <2>2 DEF Execute
    <3>4. FinishCommit(t) => status[u] = "committing" /\ status'[u] = "done"
      BY <2>2 DEF TypeOK, FinishCommit
    <3>5. \A k : MarkWritten(t, k) \/ CopyValue(t, k) => status' = status
      BY DEF MarkWritten, CopyValue
    <3> QED
      BY <1>1, <3>1, <3>2, <3>3, <3>4, <3>5 DEF Run
  <2> QED
    BY <2>1, <2>2
<1>2. ASSUME NEW c \in Channels, Process(c) PROVE status' = status
  BY <1>2 DEF Process, ReadRequest, ReadResponse, WriteRequest
<1>3. ASSUME NEW n \in Nodes, NEW w \in Workers, Serve(n, w) PROVE status' = status
  BY <1>3 DEF Serve, InsertWriteSets, GarbageCollect
<1>4. Manage => status' = status
  BY DEF Manage, Analyze, EndInsert, EndExecute, EndGC
<1>5. UNCHANGED vars => status' = status
  BY DEF vars
<1> QED
  BY <1>1, <1>2, <1>3, <1>4, <1>5 DEF Next

\* What a step of a transaction adds to the messages in flight.
LEMMA RunFlight ==
  ASSUME TypeOK, NEW t \in Txns, Run(t)
  PROVE  \/ Read(t) /\ Flight' = Flight \cup Asked("READ", t, need[t])
         \/ FinishCommit(t) /\ Flight' = Flight \cup Asked("WRITE", t, Writes(t))
         \/ Flight' = Flight
<1>1. CASE Read(t)
  <2>1. Send(Asked("READ", t, need[t])) /\ need[t] \in SUBSET Keys
    BY <1>1 DEF TypeOK, Read, Asked
  <2> QED
    BY <1>1, <2>1, SentFacts
<1>2. CASE FinishCommit(t)
  <2>1. Send(Asked("WRITE", t, Writes(t))) /\ Writes(t) \in SUBSET Keys
    BY <1>2, AccessFacts DEF FinishCommit, Asked
  <2> QED
    BY <1>2, <2>1, SentFacts
<1>3. CASE \/ Retry(t) \/ Execute(t)
           \/ \E k \in Keys : MarkWritten(t, k) \/ CopyValue(t, k)
  <2>1. chan' = chan
    BY <1>3 DEF Retry, Execute, MarkWritten, CopyValue
  <2> QED
    BY <2>1 DEF Flight
<1> QED
  BY <1>1, <1>2, <1>3 DEF Run

\* What a handler does to them.
LEMMA HandlerFlight ==
  ASSUME Discipline, ChainOK, NEW c \in Channels, Process(c),
         NEW m, m = chan[c][1]
  PROVE  LET v == Prev(store[m.key], m.txn)
         IN  /\ Flight \subseteq Flight' \cup {m}
             /\ \/ ReadAt(c, m) /\ Flight' \subseteq Flight \cup {Answer(m, v)}
                \/ (Told(c, m) \/ Arrived(c, m)) /\ Flight' \subseteq Flight
             /\ Arrived(c, m) => ~InFlight("WRITE", m.txn, m.key)'
<1> DEFINE v == Prev(store[m.key], m.txn)
<1>1. 1 \in 1..Len(chan[c]) /\ (ReadAt(c, m) \/ Told(c, m) \/ Arrived(c, m))
  BY HandlerShape
<1>2. ReadAt(c, m) => Taken(c, {Answer(m, v)})
  BY DEF ReadAt
<1>3. Told(c, m) \/ Arrived(c, m) => Taken(c, {})
  BY DEF Told, Arrived
<1>4. ASSUME Arrived(c, m), InFlight("WRITE", m.txn, m.key)' PROVE FALSE
  <2>1. PICK n \in Flight' : n.type = "WRITE" /\ n.txn = m.txn /\ n.key = m.key
    BY <1>4 DEF InFlight
  <2>2. PICK d \in Channels : \E i \in 1..Len(chan'[d]) : n = chan'[d][i]
    BY DEF Flight
  <2>3. PICK i \in 1..Len(chan'[d]) : n = chan'[d][i]
    BY <2>2
  <2>4. i + Off(c, d) \in 1..Len(chan[d]) /\ n = chan[d][i + Off(c, d)]
    BY <1>3, <1>4, <2>3 DEF Taken
  <2>5. m.type = "WRITE"
    BY <1>4 DEF Arrived
  <2>6. d = c /\ i + Off(c, d) = 1
    BY <1>1, <2>1, <2>4, <2>5 DEF Discipline, NoTwins
  <2> QED
    BY <2>6 DEF Off
<1> HIDE DEF v
<1>5. CASE ReadAt(c, m)
  <2>1. Flight' \subseteq Flight \cup {Answer(m, v)} /\ Flight \subseteq Flight' \cup {chan[c][1]}
    BY <1>2, <1>5, FlightTaken
  <2> QED
    BY <1>4, <1>5, <2>1 DEF v
<1>6. CASE Told(c, m) \/ Arrived(c, m)
  <2>1. Flight' \subseteq Flight \cup {} /\ Flight \subseteq Flight' \cup {chan[c][1]}
    BY <1>3, <1>6, FlightTaken
  <2> QED
    BY <1>4, <1>6, <2>1 DEF v
<1> QED
  BY <1>1, <1>5, <1>6

\* A new write in flight comes from a commit that ends.
LEMMA NewWrites ==
  ASSUME Discipline, ChainOK, [Next]_vars, NEW m \in Flight', m.type = "WRITE"
  PROVE  \/ m \in Flight
         \/ /\ m.txn \in Txns /\ FinishCommit(m.txn) /\ status[m.txn] = "committing"
            /\ m.key \in Remote(m.txn, Writes(m.txn)) /\ m.key \in Keys
<1>0. TypeOK
  BY DEF Discipline
<1>1. ASSUME NEW t \in Txns, Run(t), m \notin Flight
      PROVE  /\ m.txn \in Txns /\ FinishCommit(m.txn) /\ status[m.txn] = "committing"
             /\ m.key \in Remote(m.txn, Writes(m.txn)) /\ m.key \in Keys
  <2>1. CASE Read(t) /\ Flight' = Flight \cup Asked("READ", t, need[t])
    <3>1. m \in Asked("READ", t, need[t]) /\ need[t] \in SUBSET Keys
      BY <1>0, <1>1, <2>1 DEF TypeOK
    <3>2. m.type = "READ"
      BY <3>1 DEF Asked, Requests
    <3> QED
      BY <3>2
  <2>2. CASE FinishCommit(t) /\ Flight' = Flight \cup Asked("WRITE", t, Writes(t))
    <3>1. m \in Asked("WRITE", t, Writes(t)) /\ Writes(t) \in SUBSET Keys
      BY <1>0, <1>1, <2>2, AccessFacts
    <3>2. m.txn = t /\ m.key \in Remote(t, Writes(t))
      BY <3>1 DEF Asked, Requests
    <3>3. m.key \in Keys
      BY <3>1, <3>2 DEF Remote
    <3> QED
      BY <2>2, <3>2, <3>3 DEF FinishCommit
  <2> QED
    BY <1>0, <1>1, <2>1, <2>2, RunFlight
<1>2. ASSUME NEW c \in Channels, Process(c) PROVE m \in Flight
  <2>0. PICK h : h = chan[c][1]
    OBVIOUS
  <2> DEFINE v == Prev(store[h.key], h.txn)
  <2>1. \/ ReadAt(c, h) /\ Flight' \subseteq Flight \cup {Answer(h, v)}
        \/ Flight' \subseteq Flight
    BY <1>2, <2>0, HandlerFlight
  <2>2. ReadAt(c, h) => Answer(h, v).type = "READ"
    <3> HIDE DEF v
    <3>1. ReadAt(c, h) => h.type = "READ"
      BY DEF ReadAt
    <3> QED
      BY <3>1 DEF Answer
  <2> HIDE DEF v
  <2> QED
    BY <2>1, <2>2
<1>3. ASSUME NEW n \in Nodes, NEW w \in Workers, Serve(n, w) PROVE chan' = chan
  BY <1>3 DEF Serve, InsertWriteSets, GarbageCollect
<1>4. Manage => chan' = chan
  BY DEF Manage, Analyze, EndInsert, EndExecute, EndGC
<1>5. UNCHANGED vars => chan' = chan
  BY DEF vars
<1>6. chan' = chan => Flight' = Flight
  BY DEF Flight
<1> QED
  BY <1>1, <1>2, <1>3, <1>4, <1>5, <1>6 DEF Next

\* What is written stays written.
LEMMA WrittenStays ==
  ASSUME Discipline, ChainOK, [Next]_vars, NEW t \in Txns, NEW k, Written(t, k)
  PROVE  Written(t, k)'
<1>0. TypeOK
  BY DEF Discipline
<1>1. /\ status[t] \in {"committing", "done"}
      /\ Owner[k] # HomeOf(t) => status[t] = "done"
      /\ ~InFlight("WRITE", t, k)
  BY DEF Written
<1>2. /\ status'[t] \in {"committing", "done"}
      /\ Owner[k] # HomeOf(t) => status'[t] = "done"
  BY <1>0, <1>1, StatusMoves
<1>3. ~InFlight("WRITE", t, k)'
  <2> SUFFICES ASSUME NEW m \in Flight', m.type = "WRITE", m.txn = t, m.key = k
               PROVE  FALSE
    BY DEF InFlight
  <2>1. m \notin Flight
    BY <1>1 DEF InFlight
  <2>2. status[t] = "committing" /\ k \in Remote(t, Writes(t))
    BY <2>1, NewWrites
  <2> QED
    BY <1>1, <2>2 DEF Remote
<1> QED
  BY <1>2, <1>3 DEF Written

\* So does what was written before the first transaction.
LEMMA SettledStays ==
  ASSUME Discipline, ChainOK, [Next]_vars, NEW t \in {0} \cup Txns, NEW k, Settled(t, k)
  PROVE  Settled(t, k)'
BY WrittenStays DEF Settled

\* And so does what the last writer before a transaction has written.
LEMMA BeforeStays ==
  ASSUME Discipline, ChainOK, [Next]_vars, NEW t \in Txns, NEW k,
         Settled(WriterBefore(k, t), k)
  PROVE  Settled(WriterBefore(k, t), k)'
<1>1. WriterBefore(k, t) \in {0} \cup Txns
  BY TxnFacts, WriterBeforeFacts
<1>2. \A q \in {0} \cup Txns : Settled(q, k) => Settled(q, k)'
  BY SettledStays
<1>3. WriterBefore(k, t)' = WriterBefore(k, t)
  BY ConfigStep, ProgramsFixed
<1>4. Settled(WriterBefore(k, t), k)' <=> \E q : q = WriterBefore(k, t) /\ Settled(q, k)'
  BY <1>3 DEF Settled, Written, InFlight
<1> QED
  BY <1>1, <1>2, <1>4

\* A reader that has met a torn version stays noted.
LEMMA TornStays ==
  ASSUME [Next]_vars, torn
  PROVE  torn'
<1>1. ASSUME NEW t \in Txns, Run(t) PROVE torn'
  BY <1>1 DEF Run, Read, Retry, Execute, FinishCommit, MarkWritten, CopyValue
<1>2. ASSUME NEW c \in Channels, Process(c) PROVE torn'
  BY <1>2 DEF Process, ReadRequest, ReadResponse, WriteRequest
<1>3. ASSUME NEW n \in Nodes, NEW w \in Workers, Serve(n, w) PROVE torn'
  BY <1>3 DEF Serve, InsertWriteSets, GarbageCollect
<1>4. Manage => torn'
  BY DEF Manage, Analyze, EndInsert, EndExecute, EndGC
<1> QED
  BY <1>1, <1>2, <1>3, <1>4 DEF Next, vars

-----------------------------------------------------------------------------
(* What the versions hold.                                                 *)

\* A version that is not written in the step is as good as before.
LEMMA VersionStays ==
  ASSUME Discipline, ChainOK, ContentsOK, [Next]_vars,
         NEW k \in Keys, NEW i \in 1..Len(store[k]), NEW v, v = store[k][i],
         v.ver # 0 /\ k \in left[v.ver] => k \in left'[v.ver]
  PROVE  VersionOK(k, v)'
<1>1. VersionOK(k, v) /\ v.ver \in {0} \cup Txns
  BY ChainMembers DEF ContentsOK, ChainOK, Discipline
<1> SUFFICES ASSUME Ready(v)
             PROVE  /\ Settled(v.ver, k)'
                    /\ v.val = v.ver \/ (v.ver # 0 /\ v.val = Unwritten /\ k \in left'[v.ver])
  BY DEF VersionOK
<1>2. Settled(v.ver, k)
  BY <1>1 DEF VersionOK
<1>3. Settled(v.ver, k)'
  BY <1>1, <1>2, SettledStays
<1>4. v.val = v.ver \/ (v.ver # 0 /\ v.val = Unwritten /\ k \in left[v.ver])
  BY <1>1 DEF VersionOK
<1> QED
  BY <1>3, <1>4

\* It is enough to look at each version after the step.
LEMMA ContentsNext ==
  ASSUME \A k \in Keys : \A i \in 1..Len(store'[k]) : \A v :
           v = store'[k][i] => VersionOK(k, v)'
  PROVE  ContentsOK'
BY DEF ContentsOK, VersionOK

\* A step that takes nothing off a row's versions but some of them, or adds
\* some that are not ready, and leaves the commits alone.
LEMMA ContentsKept ==
  ASSUME Discipline, ChainOK, ContentsOK, [Next]_vars,
         \A u \in Txns : left[u] \subseteq left'[u],
         \A k \in Keys : \A i \in 1..Len(store'[k]) :
           \/ ~Ready(store'[k][i])
           \/ \E j \in 1..Len(store[k]) : store'[k][i] = store[k][j]
  PROVE  ContentsOK'
<1> SUFFICES ASSUME NEW k \in Keys, NEW i \in 1..Len(store'[k]), NEW v, v = store'[k][i]
             PROVE  VersionOK(k, v)'
  BY ContentsNext
<1>1. CASE ~Ready(v)
  BY <1>1 DEF VersionOK
<1>2. CASE \E j \in 1..Len(store[k]) : v = store[k][j]
  <2>1. PICK j \in 1..Len(store[k]) : v = store[k][j]
    BY <1>2
  <2>2. v.ver \in {0} \cup Txns
    BY <2>1, ChainMembers DEF ChainOK, Discipline
  <2> QED
    BY <2>1, <2>2, VersionStays
<1> QED
  BY <1>1, <1>2

\* A commit marks a version of its own row and then copies the value: nobody
\* else has a write of it on the way.
LEMMA ContentsWrite ==
  ASSUME Discipline, ChainOK, ContentsOK, NEW t \in Txns, NEW k \in Keys,
         MarkWritten(t, k) \/ CopyValue(t, k)
  PROVE  ContentsOK'
<1>0. TypeOK /\ WaitsOf(t) /\ [Next]_vars
  BY DEF Discipline, WaitsOK, Next, Run
<1>1. status[t] = "committing" /\ k \in left[t]
  <2>1. MarkWritten(t, k) => k \in left[t]
    BY DEF MarkWritten
  <2>2. CopyValue(t, k) => k \in left[t]
    BY DEF CopyValue
  <2> QED
    BY <2>1, <2>2 DEF MarkWritten, CopyValue
<1>2. Written(t, k)
  <2>1. Owner[k] = HomeOf(t)
    BY <1>0, <1>1 DEF WaitsOf, Local
  <2>2. ~InFlight("WRITE", t, k)
    BY <1>1, MessageFacts DEF InFlight
  <2> QED
    BY <1>1, <2>1, <2>2 DEF Written
<1>3. Written(t, k)'
  BY <1>0, <1>2, WrittenStays
<1>4. PICK val \in Values :
        /\ Writing(k, t, val)
        /\ \/ val = Unwritten /\ left' = left
           \/ val = t /\ left'[t] = left[t] \ {k} /\ \A u \in Txns : u # t => left'[u] = left[u]
  <2>1. MarkWritten(t, k) => Writing(k, t, Unwritten) /\ left' = left
    BY DEF MarkWritten, Writing
  <2>2. CopyValue(t, k) => Writing(k, t, t)
    BY DEF CopyValue, Writing
  <2>3. CopyValue(t, k) => left'[t] = left[t] \ {k} /\ \A u \in Txns : u # t => left'[u] = left[u]
    BY <1>0 DEF CopyValue, TypeOK
  <2>4. Unwritten \in Values /\ t \in Values
    BY DEF Values
  <2> QED
    BY <2>1, <2>2, <2>3, <2>4
<1>5. SameVersions /\ OneWritten(k, t, val)
  BY <1>0, <1>4, WriteVersions
<1> SUFFICES ASSUME NEW j \in Keys, NEW i \in 1..Len(store'[j]), NEW v, v = store'[j][i]
             PROVE  VersionOK(j, v)'
  BY ContentsNext
<1>6. i \in 1..Len(store[j]) /\ v.ver = store[j][i].ver
  BY <1>5 DEF SameVersions
<1>7. CASE j = k /\ store[j][i].ver = t
  <2>1. v.val = val /\ v.ver = t
    BY <1>5, <1>6, <1>7 DEF OneWritten
  <2>2. v.val = v.ver \/ (v.ver # 0 /\ v.val = Unwritten /\ j \in left'[v.ver])
    BY <1>1, <1>4, <1>7, <2>1, TxnFacts
  <2>3. Settled(v.ver, j)'
    BY <1>3, <1>7, <2>1 DEF Settled
  <2> QED
    BY <2>2, <2>3 DEF VersionOK
<1>8. CASE ~(j = k /\ store[j][i].ver = t)
  <2>1. v = store[j][i]
    BY <1>5, <1>6, <1>8 DEF OneWritten
  <2>2. v.ver \in {0} \cup Txns
    BY <1>6, <2>1, ChainMembers DEF ChainOK, Discipline
  <2>3. v.ver # 0 /\ j \in left[v.ver] => j \in left'[v.ver]
    BY <1>4, <1>8, <2>1, <2>2
  <2> QED
    BY <1>0, <1>6, <2>1, <2>3, VersionStays
<1> QED
  BY <1>7, <1>8

\* The transactions keep the versions right.
LEMMA ContentsRun ==
  ASSUME Discipline, ChainOK, ContentsOK, NEW t \in Txns, Run(t)
  PROVE  ContentsOK'
<1>0. TypeOK /\ WaitsOf(t) /\ [Next]_vars
  BY DEF Discipline, WaitsOK, Next
<1>1. CASE Read(t) \/ Retry(t) \/ Execute(t) \/ FinishCommit(t)
  <2>1. store' = store
    BY <1>1 DEF Read, Retry, Execute, FinishCommit
  <2>2. \A u \in Txns : left[u] \subseteq left'[u]
    <3>1. \A u \in Txns : u # t => left'[u] = left[u]
      BY <1>0, RunShape
    <3>2. left[t] \subseteq left'[t]
      <4>1. Read(t) \/ Retry(t) \/ FinishCommit(t) => left' = left
        BY DEF Read, Retry, FinishCommit
      <4>2. Execute(t) => left[t] = {}
        BY <1>0 DEF Execute, WaitsOf
      <4> QED
        BY <1>1, <4>1, <4>2
    <3> QED
      BY <3>1, <3>2
  <2> QED
    BY <1>0, <2>1, <2>2, ContentsKept
<1>2. ASSUME NEW k \in Keys, MarkWritten(t, k) \/ CopyValue(t, k) PROVE ContentsOK'
  BY <1>2, ContentsWrite
<1> QED
  BY <1>1, <1>2 DEF Run

\* A write that has arrived is no longer on its way.
LEMMA ContentsHandler ==
  ASSUME Discipline, ChainOK, ContentsOK, NEW c \in Channels, Process(c)
  PROVE  ContentsOK'
<1>0. TypeOK /\ [Next]_vars
  BY DEF Discipline, Next
<1>1. PICK m : m = chan[c][1]
  OBVIOUS
<1>2. /\ m \in Message /\ m \in Flight
      /\ UNCHANGED <<sameBatch, prog, batch, phase, finished, status, left>>
      /\ ReadAt(c, m) \/ Told(c, m) \/ Arrived(c, m)
  BY <1>1, HandlerShape
<1>3. m.txn \in Txns /\ m.key \in Keys
  BY <1>0, <1>2, FlightFacts
<1>4. CASE ReadAt(c, m) \/ Told(c, m)
  <2>1. store' = store
    BY <1>4 DEF ReadAt, Told
  <2> QED
    BY <1>0, <1>2, <2>1, ContentsKept
<1>5. CASE Arrived(c, m)
  <2>1. m.txn \in Values /\ Writing(m.key, m.txn, m.txn)
    BY <1>3, <1>5 DEF Arrived, Values, Writing
  <2>2. SameVersions /\ OneWritten(m.key, m.txn, m.txn)
    BY <1>0, <1>3, <2>1, WriteVersions
  <2>3. Settled(m.txn, m.key)'
    <3>1. status[m.txn] = "done" /\ status' = status
      BY <1>2, <1>5, MessageFacts DEF Arrived
    <3>2. ~InFlight("WRITE", m.txn, m.key)'
      BY <1>1, <1>5, HandlerFlight
    <3> QED
      BY <3>1, <3>2 DEF Settled, Written
  <2> SUFFICES ASSUME NEW j \in Keys, NEW i \in 1..Len(store'[j]), NEW v, v = store'[j][i]
               PROVE  VersionOK(j, v)'
    BY ContentsNext
  <2>4. i \in 1..Len(store[j]) /\ v.ver = store[j][i].ver
    BY <2>2 DEF SameVersions
  <2>5. CASE j = m.key /\ store[j][i].ver = m.txn
    <3>1. v.val = m.txn /\ v.ver = m.txn
      BY <2>2, <2>4, <2>5 DEF OneWritten
    <3>2. Settled(v.ver, j)'
      BY <2>3, <2>5, <3>1
    <3> QED
      BY <3>1, <3>2 DEF VersionOK
  <2>6. CASE ~(j = m.key /\ store[j][i].ver = m.txn)
    <3>1. v = store[j][i]
      BY <2>2, <2>4, <2>6 DEF OneWritten
    <3> QED
      BY <1>0, <1>2, <2>4, <3>1, VersionStays
  <2> QED
    BY <2>5, <2>6
<1> QED
  BY <1>2, <1>4, <1>5

\* A new version is not ready, and collection only takes versions away.
LEMMA ContentsServe ==
  ASSUME Discipline, ChainOK, ContentsOK, NEW n \in Nodes, NEW w \in Workers, Serve(n, w)
  PROVE  ContentsOK'
<1>0. TypeOK /\ [Next]_vars
  BY DEF Discipline, Next
<1>1. left' = left
  BY DEF Serve, InsertWriteSets, GarbageCollect
<1>2. \A k \in Keys : store[k] \in Seq(Version) /\ store[k] # <<>> /\ Len(store[k]) \in Nat \ {0}
  BY <1>0, ChainMembers DEF ChainOK, ChainOf
<1>3. ASSUME NEW k \in Keys, NEW i \in 1..Len(store'[k])
      PROVE  \/ ~Ready(store'[k][i])
             \/ \E j \in 1..Len(store[k]) : store'[k][i] = store[k][j]
  <2> DEFINE p == Placeholders(k)
             s == store[k]
  <2>1. /\ p \in Seq(Version) /\ Len(p) \in Nat
        /\ \A j \in 1..Len(p) : ~Ready(p[j])
    BY PlaceholdersFacts
  <2>2. s \in Seq(Version) /\ s # <<>> /\ Len(s) \in Nat \ {0}
    BY <1>2
  <2>3. store'[k] = p \o s \/ store'[k] = s \/ store'[k] = <<Head(s)>>
    BY ServeShape DEF Serve, InsertedRow, CollectedRow
  <2> HIDE DEF p, s
  <2>4. CASE store'[k] = p \o s
    <3>1. Len(p \o s) = Len(p) + Len(s)
      BY <2>1, <2>2
    <3>2. CASE i \in 1..Len(p)
      BY <2>1, <2>2, <2>4, <3>2
    <3>3. CASE i \notin 1..Len(p)
      <4>1. i - Len(p) \in 1..Len(s) /\ (p \o s)[i] = s[i - Len(p)]
        BY <2>1, <2>2, <2>4, <3>1, <3>3
      <4> QED
        BY <2>4, <4>1 DEF s
    <3> QED
      BY <3>2, <3>3
  <2>5. CASE store'[k] = s
    BY <2>5 DEF s
  <2>6. CASE store'[k] = <<Head(s)>>
    <3>1. i = 1 /\ store'[k][i] = s[1] /\ 1 \in 1..Len(s)
      BY <2>2, <2>6
    <3> QED
      BY <3>1 DEF s
  <2> QED
    BY <2>3, <2>4, <2>5, <2>6
<1> QED
  BY <1>0, <1>1, <1>3, ContentsKept

\* No step puts a wrong value into a version.
LEMMA ContentsStep == Discipline /\ ChainOK /\ ContentsOK /\ [Next]_vars => ContentsOK'
<1> SUFFICES ASSUME Discipline, ChainOK, ContentsOK, [Next]_vars PROVE ContentsOK'
  OBVIOUS
<1>1. CASE UNCHANGED vars \/ Manage
  <2>1. UNCHANGED <<store, left>>
    BY <1>1 DEF vars, Manage, Analyze, EndInsert, EndExecute, EndGC
  <2> QED
    BY <2>1, ContentsKept
<1>2. ASSUME NEW t \in Txns, Run(t) PROVE ContentsOK'
  BY <1>2, ContentsRun
<1>3. ASSUME NEW c \in Channels, Process(c) PROVE ContentsOK'
  BY <1>3, ContentsHandler
<1>4. ASSUME NEW n \in Nodes, NEW w \in Workers, Serve(n, w) PROVE ContentsOK'
  BY <1>4, ContentsServe
<1> QED
  BY <1>1, <1>2, <1>3, <1>4 DEF Next

\* The loaded versions hold what they say.
LEMMA ContentsInit == Init => ContentsOK
<1> SUFFICES ASSUME Init, NEW k \in Keys, NEW i \in 1..Len(store[k])
             PROVE  VersionOK(k, store[k][i])
  BY DEF ContentsOK
<1>1. store[k] = <<Loaded>>
  BY DEF Init
<1>2. store[k][i].ver = 0 /\ store[k][i].val = 0
  BY <1>1 DEF Loaded
<1> QED
  BY <1>2 DEF VersionOK, Settled

-----------------------------------------------------------------------------
(* What has been read.                                                     *)

HasRead(t, k) ==
  /\ torn \/ seen[t][k] = WriterBefore(k, ReadAs(t))
  /\ ~Repeats(t) => Settled(WriterBefore(k, t), k)

\* What ReadsOK says.
LEMMA ReadParts == ReadsOK <=> \A t \in Txns : \A k \in Reads(t) \ need[t] : HasRead(t, k)
BY DEF ReadsOK, HasRead

\* The version before a transaction's own is that of the last writer before
\* it, and when it is ready it holds what that one has written.
LEMMA ReadyVersion ==
  ASSUME Discipline, ChainOK, ContentsOK, NEW t \in Txns, BatchOf(t) = batch,
         phase = "Execute", NEW k \in Keys, NEW v, v = Prev(store[k], t), Ready(v)
  PROVE  /\ Settled(WriterBefore(k, t), k)
         /\ v.val = Unwritten \/ v.val = WriterBefore(k, t)
<1>0. TypeOK
  BY DEF Discipline
<1>1. PICK i \in 1..Len(store[k]) : v = store[k][i] /\ v.ver = WriterBefore(k, t)
  BY <1>0, PrevVersion DEF ChainOK
<1>2. VersionOK(k, v)
  BY <1>1 DEF ContentsOK
<1> QED
  BY <1>1, <1>2 DEF VersionOK

\* What has been read stays read.
LEMMA HasReadStays ==
  ASSUME Discipline, ChainOK, [Next]_vars, NEW t \in Txns, NEW k, HasRead(t, k),
         seen'[t][k] = seen[t][k]
  PROVE  HasRead(t, k)'
<1>1. UNCHANGED <<sameBatch, prog>>
  BY ConfigStep
<1>2. /\ ReadAs(t)' = ReadAs(t) /\ (Repeats(t)' <=> Repeats(t))
      /\ \A ver : WriterBefore(k, ver)' = WriterBefore(k, ver)
  BY <1>1, ProgramsFixed DEF ReadAs, Repeats
<1>4. Settled(WriterBefore(k, t), k) => Settled(WriterBefore(k, t), k)'
  BY BeforeStays
<1>5. torn => torn'
  BY TornStays
<1>6. seen[t][k] = WriterBefore(k, ReadAs(t)) => seen'[t][k] = WriterBefore(k, ReadAs(t))'
  BY <1>2
<1> QED
  BY <1>2, <1>4, <1>5, <1>6 DEF HasRead

\* A transaction reads what the last writer before it has written, or meets a
\* torn version.
LEMMA ReadsRun ==
  ASSUME Discipline, ChainOK, ContentsOK, ReadsOK, NEW t \in Txns, Run(t)
  PROVE  ReadsOK'
<1>0. TypeOK /\ WaitsOf(t) /\ [Next]_vars
  BY DEF Discipline, WaitsOK, Next
<1>1. UNCHANGED <<sameBatch, prog>>
  BY <1>0, RunShape
<1>2. \A u : Reads(u)' = Reads(u)
  BY <1>1, ProgramsFixed
<1>3. ASSUME NEW u \in Txns, NEW k \in Reads(u) \ need[u], u # t PROVE HasRead(u, k)'
  <2>1. seen'[u] = seen[u]
    BY <1>0, <1>3, RunShape
  <2>2. HasRead(u, k)
    BY ReadParts
  <2> QED
    BY <1>0, <2>1, <2>2, HasReadStays
<1>4. \A u \in Txns : u # t => need'[u] = need[u]
  BY <1>0, RunShape
<1>5. ASSUME NEW k \in Reads(t) \ need'[t] PROVE HasRead(t, k)'
  <2>1. CASE Read(t)
    <3>1. /\ need'[t] = need[t] \ Found(t)
          /\ \A j \in Keys : seen'[t][j] = IF j \in Found(t) THEN Prev(store[j], t).val
                                                            ELSE seen[t][j]
          /\ torn' <=> torn \/ \E j \in Found(t) : Prev(store[j], t).val = Unwritten
      BY <1>0, <2>1, ReadShape
    <3>2. k \in Keys
      BY <1>0, AccessFacts
    <3>3. CASE k \notin Found(t)
      <4>1. k \in Reads(t) \ need[t] /\ seen'[t][k] = seen[t][k]
        BY <1>5, <3>1, <3>2, <3>3
      <4> QED
        BY <1>0, <4>1, HasReadStays, ReadParts
    <3>4. CASE k \in Found(t)
      <4>1. PICK v : v = Prev(store[k], t)
        OBVIOUS
      <4>2. /\ k \in need[t] /\ Ready(v) /\ BatchOf(t) = batch /\ phase = "Execute"
            /\ ~prog[t].rollback
        BY <2>1, <3>4, <4>1, TurnFacts DEF Found, Local, Read
      <4>3. ~Repeats(t)
        BY <1>0, <4>2 DEF WaitsOf, Analyzed
      <4>4. Settled(WriterBefore(k, t), k) /\ (v.val = Unwritten \/ v.val = WriterBefore(k, t))
        BY <3>2, <4>1, <4>2, ReadyVersion
      <4>5. torn' \/ seen'[t][k] = WriterBefore(k, t)
        BY <3>1, <3>2, <3>4, <4>1, <4>4
      <4>6. ReadAs(t) = t /\ ReadAs(t)' = t /\ ~Repeats(t)'
        BY <1>1, <4>3, ReadAsFacts DEF ReadAs, Repeats
      <4>7. \A ver : WriterBefore(k, ver)' = WriterBefore(k, ver)
        BY <1>1, ProgramsFixed
      <4>8. Settled(WriterBefore(k, t), k)'
        BY <1>0, <4>4, BeforeStays
      <4> QED
        BY <4>5, <4>6, <4>7, <4>8 DEF HasRead
    <3> QED
      BY <3>3, <3>4
  <2>2. CASE UNCHANGED <<seen, need>>
    BY <1>0, <1>5, <2>2, HasReadStays, ReadParts
  <2>3. ~Read(t) => UNCHANGED <<seen, need>>
    BY DEF Run, Retry, Execute, FinishCommit, MarkWritten, CopyValue
  <2> QED
    BY <2>1, <2>2, <2>3
<1>6. \A u \in Txns : \A k \in Reads(u) \ need'[u] : HasRead(u, k)'
  BY <1>3, <1>4, <1>5
<1> QED
  BY <1>2, <1>6 DEF ReadsOK, HasRead

\* So do the answers.
LEMMA ReadsHandler ==
  ASSUME Discipline, ChainOK, ReadsOK, AnswersOK, NEW c \in Channels, Process(c)
  PROVE  ReadsOK'
<1>0. TypeOK /\ [Next]_vars
  BY DEF Discipline, Next
<1>1. PICK m : m = chan[c][1]
  OBVIOUS
<1>2. /\ m \in Message /\ m \in Flight
      /\ UNCHANGED <<sameBatch, prog, batch, phase, finished, status, left>>
      /\ ReadAt(c, m) \/ Told(c, m) \/ Arrived(c, m)
  BY <1>1, HandlerShape
<1>3. m.txn \in Txns /\ m.key \in Keys
  BY <1>0, <1>2, FlightFacts
<1>4. \A u : Reads(u)' = Reads(u)
  BY <1>2, ProgramsFixed
<1>5. CASE UNCHANGED <<seen, need>>
  <2>1. \A u \in Txns : \A k \in Reads(u) \ need'[u] : HasRead(u, k)'
    BY <1>0, <1>5, HasReadStays, ReadParts
  <2> QED
    BY <1>4, <2>1 DEF ReadsOK, HasRead
<1>6. CASE Told(c, m) /\ m.ok
  <2>1. m.type = "READ" /\ m.answer /\ m.ok
    BY <1>6 DEF Told
  <2>2. \A u \in Txns, k \in Keys :
          /\ ~(u = m.txn /\ k = m.key) => seen'[u][k] = seen[u][k] /\
                                          (k \in need[u] => k \in need'[u])
          /\ u = m.txn /\ k = m.key => seen'[u][k] = m.val
    <3>1. seen' = [seen EXCEPT ![m.txn][m.key] = m.val]
      BY <1>6 DEF Told
    <3>2. need' = [need EXCEPT ![m.txn] = @ \ {m.key}]
      BY <1>6 DEF Told
    <3>3. \A u \in Txns, k \in Keys :
            /\ ~(u = m.txn /\ k = m.key) => seen'[u][k] = seen[u][k]
            /\ u = m.txn /\ k = m.key => seen'[u][k] = m.val
      BY <1>0, <1>3, <3>1 DEF TypeOK
    <3>4. \A u \in Txns, k \in Keys :
            ~(u = m.txn /\ k = m.key) => (k \in need[u] => k \in need'[u])
      BY <1>0, <1>3, <3>2 DEF TypeOK
    <3> QED
      BY <3>3, <3>4
  <2> SUFFICES ASSUME NEW u \in Txns, NEW k \in Reads(u) \ need'[u]
               PROVE  HasRead(u, k)'
    BY <1>4 DEF ReadsOK, HasRead
  <2>3. k \in Keys
    BY <1>0, AccessFacts
  <2>4. CASE ~(u = m.txn /\ k = m.key)
    <3>1. k \in Reads(u) \ need[u] /\ seen'[u][k] = seen[u][k]
      BY <2>2, <2>3, <2>4
    <3> QED
      BY <1>0, <3>1, HasReadStays, ReadParts
  <2>5. CASE u = m.txn /\ k = m.key
    <3>1. /\ k \in need[u] /\ BatchOf(u) = batch /\ phase = "Execute" /\ ~prog[u].rollback
          /\ WaitsOf(u)
      BY <1>2, <2>1, <2>5, MessageFacts DEF Discipline, WaitsOK
    <3>2. ~Repeats(u)
      BY <3>1 DEF WaitsOf, Analyzed
    <3>3. (torn \/ m.val = WriterBefore(k, u)) /\ Settled(WriterBefore(k, u), k)
      BY <1>2, <2>1, <2>5 DEF AnswersOK
    <3>4. torn => torn'
      BY <1>0, TornStays
    <3>5. ReadAs(u) = u /\ ReadAs(u)' = u /\ ~Repeats(u)'
      BY <1>2, <3>2, ReadAsFacts DEF ReadAs, Repeats
    <3>6. \A ver : WriterBefore(k, ver)' = WriterBefore(k, ver)
      BY <1>2, ProgramsFixed
    <3>7. Settled(WriterBefore(k, u), k)'
      BY <1>0, <3>3, BeforeStays
    <3>8. seen'[u][k] = m.val
      BY <2>2, <2>3, <2>5
    <3> QED
      BY <3>3, <3>4, <3>5, <3>6, <3>7, <3>8 DEF HasRead
  <2> QED
    BY <2>4, <2>5
<1> QED
  BY <1>2, <1>5, <1>6 DEF ReadAt, Told, Arrived

\* A batch that repeats the first one's programs repeats what it has read.
LEMMA ReadsManage ==
  ASSUME Discipline, ChainOK, ReadsOK, Manage
  PROVE  ReadsOK'
<1>0. TypeOK /\ [Next]_vars /\ PhasesOK
  BY DEF Discipline, Next
<1>1. UNCHANGED <<sameBatch, prog>>
  BY <1>0, ConfigStep
<1>2. \A u : Reads(u)' = Reads(u)
  BY <1>1, ProgramsFixed
<1> SUFFICES ASSUME NEW u \in Txns, NEW k \in Reads(u) \ need'[u]
             PROVE  HasRead(u, k)'
  BY <1>2 DEF ReadsOK, HasRead
<1>3. CASE seen'[u] = seen[u] /\ need'[u] = need[u]
  BY <1>0, <1>3, HasReadStays, ReadParts
<1>4. CASE ~(seen'[u] = seen[u] /\ need'[u] = need[u])
  <2>1. /\ Analyze /\ sameBatch /\ batch > 1 /\ u \in Current
        /\ need' = [t \in Txns |-> IF t \in Current THEN need[t - BatchSize] ELSE need[t]]
        /\ seen' = [t \in Txns |-> IF t \in Current THEN seen[t - BatchSize] ELSE seen[t]]
    <3>1. Analyze
      BY <1>4 DEF Manage, EndInsert, EndExecute, EndGC
    <3>2. /\ sameBatch /\ batch > 1
          /\ need' = [t \in Txns |-> IF t \in Current THEN need[t - BatchSize] ELSE need[t]]
          /\ seen' = [t \in Txns |-> IF t \in Current THEN seen[t - BatchSize] ELSE seen[t]]
      BY <1>4, <3>1 DEF Analyze
    <3>3. u \in Current
      BY <1>4, <3>2
    <3> QED
      BY <3>1, <3>2, <3>3
  <2> DEFINE v == u - BatchSize
  <2>2. need'[u] = need[v] /\ seen'[u] = seen[v] /\ BatchOf(u) > 1
    BY <2>1 DEF Current
  <2>3. v \in Txns /\ SlotOf(v) = SlotOf(u) /\ ReadAs(u) = ReadAs(v)
    BY <2>1, <2>2, BeforeFacts, ReadAsFacts
  <2> HIDE DEF v
  <2>4. k \in Reads(v) \ need[v]
    BY <1>0, <2>1, <2>2, <2>3 DEF PhasesOK, Reads
  <2>5. torn \/ seen[v][k] = WriterBefore(k, ReadAs(v))
    BY <2>3, <2>4, ReadParts DEF HasRead
  <2>6. ReadAs(u)' = ReadAs(u) /\ Repeats(u)'
    BY <1>1, <2>1, <2>2 DEF ReadAs, Repeats
  <2>7. \A ver : WriterBefore(k, ver)' = WriterBefore(k, ver)
    BY <1>1, ProgramsFixed
  <2>8. torn => torn'
    BY <1>0, TornStays
  <2> QED
    BY <2>2, <2>3, <2>5, <2>6, <2>7, <2>8 DEF HasRead
<1> QED
  BY <1>3, <1>4

\* No step makes a read wrong.
LEMMA ReadsStep ==
  Discipline /\ ChainOK /\ ContentsOK /\ ReadsOK /\ AnswersOK /\ [Next]_vars => ReadsOK'
<1> SUFFICES ASSUME Discipline, ChainOK, ContentsOK, ReadsOK, AnswersOK, [Next]_vars
             PROVE  ReadsOK'
  OBVIOUS
<1>1. CASE UNCHANGED <<sameBatch, prog, seen, need>>
  <2>1. \A u \in Txns : \A k \in Reads(u) \ need'[u] : HasRead(u, k)'
    BY <1>1, HasReadStays, ReadParts
  <2>2. \A u : Reads(u)' = Reads(u)
    BY <1>1, ProgramsFixed
  <2> QED
    BY <2>1, <2>2 DEF ReadsOK, HasRead
<1>2. ASSUME NEW t \in Txns, Run(t) PROVE ReadsOK'
  BY <1>2, ReadsRun
<1>3. ASSUME NEW c \in Channels, Process(c) PROVE ReadsOK'
  BY <1>3, ReadsHandler
<1>4. ASSUME NEW n \in Nodes, NEW w \in Workers, Serve(n, w) PROVE ReadsOK'
  BY <1>1, <1>4 DEF Serve, InsertWriteSets, GarbageCollect, config
<1>5. CASE Manage
  BY <1>5, ReadsManage
<1>6. CASE UNCHANGED vars
  BY <1>1, <1>6 DEF vars
<1> QED
  BY <1>2, <1>3, <1>4, <1>5, <1>6 DEF Next

-----------------------------------------------------------------------------
(* The answers on their way.                                               *)

\* A new answer in flight comes from a read of the row.
LEMMA NewAnswers ==
  ASSUME Discipline, ChainOK, [Next]_vars, NEW m \in Flight', m.answer
  PROVE  \/ m \in Flight
         \/ \E c \in Channels : \E h \in Flight :
              ReadAt(c, h) /\ m = Answer(h, Prev(store[h.key], h.txn))
<1>0. TypeOK
  BY DEF Discipline
<1>1. ASSUME NEW t \in Txns, Run(t) PROVE m \in Flight
  <2>1. \A type, keys : m \notin Asked(type, t, keys)
    BY DEF Asked, Requests
  <2> QED
    BY <1>0, <1>1, <2>1, RunFlight
<1>2. ASSUME NEW c \in Channels, Process(c), m \notin Flight
      PROVE  \E h \in Flight : ReadAt(c, h) /\ m = Answer(h, Prev(store[h.key], h.txn))
  <2>1. PICK h : h = chan[c][1]
    OBVIOUS
  <2>2. h \in Flight
    BY <1>2, <2>1, HandlerShape
  <2>3. \/ ReadAt(c, h) /\ Flight' \subseteq Flight \cup {Answer(h, Prev(store[h.key], h.txn))}
        \/ Flight' \subseteq Flight
    BY <1>2, <2>1, HandlerFlight
  <2> QED
    BY <1>2, <2>2, <2>3
<1>3. ASSUME NEW n \in Nodes, NEW w \in Workers, Serve(n, w) PROVE chan' = chan
  BY <1>3 DEF Serve, InsertWriteSets, GarbageCollect
<1>4. Manage => chan' = chan
  BY DEF Manage, Analyze, EndInsert, EndExecute, EndGC
<1>5. UNCHANGED vars => chan' = chan
  BY DEF vars
<1>6. chan' = chan => Flight' = Flight
  BY DEF Flight
<1> QED
  BY <1>1, <1>2, <1>3, <1>4, <1>5, <1>6 DEF Next

\* What an answer says.
AnswerOK(m) ==
  /\ torn \/ m.val = WriterBefore(m.key, m.txn)
  /\ Settled(WriterBefore(m.key, m.txn), m.key)

\* No step makes an answer wrong, or sends a wrong one.
LEMMA AnswersStep ==
  Discipline /\ ChainOK /\ ContentsOK /\ AnswersOK /\ [Next]_vars => AnswersOK'
<1> SUFFICES ASSUME Discipline, ChainOK, ContentsOK, AnswersOK, [Next]_vars,
                    NEW m \in Flight', m.type = "READ" /\ m.answer /\ m.ok
             PROVE  AnswerOK(m)'
  BY DEF AnswersOK, AnswerOK
<1>0. TypeOK
  BY DEF Discipline
<1>1. m \in Flight => m.txn \in Txns /\ AnswerOK(m)
  BY <1>0, FlightFacts DEF AnswersOK, AnswerOK
<1>2. ASSUME m.txn \in Txns, Settled(WriterBefore(m.key, m.txn), m.key),
             torn' \/ m.val = WriterBefore(m.key, m.txn)
      PROVE  AnswerOK(m)'
  <2>1. PICK t \in Txns : t = m.txn
    BY <1>2
  <2>2. PICK k : k = m.key
    OBVIOUS
  <2>3. Settled(WriterBefore(k, t), k)'
    BY <1>2, <2>1, <2>2, BeforeStays
  <2>4. WriterBefore(m.key, m.txn)' = WriterBefore(m.key, m.txn)
        /\ WriterBefore(k, t)' = WriterBefore(k, t)
    BY ConfigStep, ProgramsFixed
  <2>5. Settled(WriterBefore(m.key, m.txn), m.key)'
    BY <2>1, <2>2, <2>3, <2>4 DEF Settled, Written, InFlight
  <2> QED
    BY <1>2, <2>4, <2>5 DEF AnswerOK
<1>3. CASE m \in Flight
  BY <1>1, <1>2, <1>3, TornStays DEF AnswerOK
<1>4. CASE m \notin Flight
  <2>1. PICK c \in Channels :
          \E h \in Flight : ReadAt(c, h) /\ m = Answer(h, Prev(store[h.key], h.txn))
    BY <1>4, NewAnswers
  <2>2. PICK h \in Flight : ReadAt(c, h) /\ m = Answer(h, Prev(store[h.key], h.txn))
    BY <2>1
  <2>3. PICK v : v = Prev(store[h.key], h.txn)
    OBVIOUS
  <2>4. /\ h \in Message /\ h.txn \in Txns /\ h.key \in Keys
        /\ BatchOf(h.txn) = batch /\ phase = "Execute"
    BY <2>2, MessageFacts DEF ReadAt
  <2>5. m.txn = h.txn /\ m.key = h.key /\ m.ok = Ready(v) /\ m.val = v.val
    BY <2>2, <2>3, <2>4 DEF Answer, Message
  <2>6. torn' = (torn \/ (Ready(v) /\ v.val = Unwritten))
    BY <2>2, <2>3 DEF ReadAt
  <2>7. /\ Settled(WriterBefore(h.key, h.txn), h.key)
        /\ v.val = Unwritten \/ v.val = WriterBefore(h.key, h.txn)
    BY <2>3, <2>4, <2>5, ReadyVersion
  <2> QED
    BY <1>2, <2>4, <2>5, <2>6, <2>7
<1> QED
  BY <1>3, <1>4

\* At the start nothing has been read, and nothing is on its way.
LEMMA ReadsInit == Init => ReadsOK /\ AnswersOK
BY DEF Init, ReadsOK, AnswersOK, Flight

-----------------------------------------------------------------------------
(* Who overtakes a write, and the version that waits for it.               *)

\* A writer of the row between t and u, u included, has not waited.
Overtaken(t, u, k) == \E b \in Writers(k) : t < b /\ b <= u /\ Blind(b, k)

\* Who executes has read all it reads.
LEMMA ExecuteHasRead ==
  ASSUME Discipline, ReadsOK, NEW u \in Txns, Execute(u), NEW k \in Reads(u),
         ~Repeats(u)
  PROVE  Settled(WriterBefore(k, u), k)
<1>1. status[u] = "waiting" /\ pend[u] = {} /\ ~notReady[u] /\ WaitsOf(u)
  BY DEF Execute, Discipline, WaitsOK
<1>2. need[u] = {}
  BY <1>1 DEF WaitsOf
<1> QED
  BY <1>2 DEF ReadsOK

\* A writer that has read the row has waited for the writer before it, which
\* has waited in turn, or not.
LEMMA OvertakersStep ==
  Discipline /\ ChainOK /\ ReadsOK /\ OvertakersBlind /\ [Next]_vars => OvertakersBlind'
<1> SUFFICES ASSUME Discipline, ChainOK, ReadsOK, OvertakersBlind, [Next]_vars
             PROVE  OvertakersBlind'
  OBVIOUS
<1>0. TypeOK /\ UNCHANGED <<sameBatch, prog>>
  BY ConfigStep DEF Discipline
<1>5. \A k : Writers(k)' = Writers(k) /\ \A b : Blind(b, k)' <=> Blind(b, k)
  BY <1>0, ProgramsFixed DEF Blind
<1> SUFFICES ASSUME NEW k \in Keys, NEW t \in Writers(k), NEW u \in Writers(k),
                    t < u, ~Written(t, k)', status'[u] \in {"committing", "done"}
             PROVE  Overtaken(t, u, k)
  BY <1>5 DEF OvertakersBlind, Overtaken
<1>1. /\ t \in Txns /\ u \in Txns /\ t \in Nat /\ t > 0 /\ u \in Nat /\ u > 0
  BY WritersFacts, TxnFacts
<1>2. ~Written(t, k)
  BY <1>1, WrittenStays
<1>3. CASE status[u] \in {"committing", "done"}
  BY <1>2, <1>3 DEF OvertakersBlind, Overtaken
<1>4. CASE status[u] \notin {"committing", "done"}
  <2>1. Execute(u)
    BY <1>0, <1>1, <1>4, StatusMoves
  <2>2. CASE Blind(u, k)
    BY <1>1, <2>2 DEF Overtaken
  <2>3. CASE ~Blind(u, k)
    <3>1. k \in Reads(u) /\ ~Repeats(u)
      BY <2>3 DEF Blind, Repeats
    <3>2. PICK p : p = WriterBefore(k, u)
      OBVIOUS
    <3>3. Settled(p, k)
      BY <1>1, <2>1, <3>1, <3>2, ExecuteHasRead
    <3>4. p \in {0} \cup Writers(k) /\ p \in Nat /\ p < u /\ t <= p
      BY <1>1, <3>2, WriterBeforeFacts
    <3>5. p \in Writers(k) /\ Written(p, k) /\ t < p
      BY <1>1, <1>2, <3>3, <3>4 DEF Settled
    <3>6. status[p] \in {"committing", "done"}
      BY <3>5 DEF Written
    <3>7. PICK b \in Writers(k) : t < b /\ b <= p /\ Blind(b, k)
      BY <1>2, <3>5, <3>6 DEF OvertakersBlind
    <3>8. b \in Nat
      BY WritersFacts, TxnFacts
    <3> QED
      BY <3>4, <3>7, <3>8 DEF Overtaken
  <2> QED
    BY <2>2, <2>3
<1> QED
  BY <1>3, <1>4

\* Collection takes the version of a write on its way only if a blind writer
\* has overtaken it.
LEMMA CollectWaits ==
  ASSUME Discipline, ChainOK, OvertakersBlind, NEW n \in Nodes, NEW w \in Workers,
         GarbageCollect(n, w), NEW k \in Keys, NEW t \in Writers(k), ~Written(t, k),
         Has(store[k], t)
  PROVE  Has(store'[k], t) \/ \E b \in Writers(k) : b > t /\ Blind(b, k)
<1> DEFINE s == store[k]
<1>0. TypeOK /\ StatusOK
  BY DEF Discipline
<1>1. t \in Txns /\ t \in Nat /\ t > 0
  BY WritersFacts, TxnFacts
<1>2. /\ s \in Seq(Version) /\ Len(s) \in Nat \ {0} /\ 1 \in 1..Len(s)
      /\ \A i \in 1..Len(s) : s[i].ver \in {0} \cup Writers(k) /\ s[i].ver \in Nat
  BY <1>0, ChainMembers DEF ChainOK
<1>3. phase = "GC"
  BY DEF GarbageCollect
<1>4. store'[k] = s \/ store'[k] = <<Head(s)>>
  BY ServeShape DEF CollectedRow
<1>5. PICK i \in 1..Len(s) : s[i].ver = t
  BY <1>2 DEF Has
<1>6. CASE i = 1 /\ store'[k] = <<Head(s)>>
  <2>1. store'[k] = <<s[1]>> /\ s[1].ver = t
    BY <1>2, <1>5, <1>6
  <2> QED
    BY <2>1 DEF Has
<1>7. CASE i # 1
  <2> DEFINE u == s[1].ver
  <2>1. u > t
    <3>1. 1 < i
      BY <1>2, <1>7
    <3> QED
      BY <1>2, <1>5, <3>1 DEF ChainOK, ChainOf
  <2>2. u \in Writers(k) /\ u \in Nat
    BY <1>1, <1>2, <2>1
  <2>3. u \in Txns /\ ~prog[u].rollback
    BY <2>2, WritersFacts
  <2>4. u < FirstOf(batch + 1)
    <3>1. u = WriterBefore(k, FirstOf(batch + 1))
      BY <1>3 DEF ChainOK, ChainOf, Newest, Inserted
    <3> QED
      BY <1>0, <3>1, FirstIds, WriterBeforeFacts
  <2> HIDE DEF u
  <2>5. BatchOf(u) <= batch /\ BatchOf(u) \in Nat /\ batch \in Nat
    BY <1>0, <2>3, <2>4, FirstIds, TxnFacts
  <2>6. Passed(u)
    BY <1>3, <2>5 DEF Passed
  <2>7. status[u] = "done"
    BY <1>0, <2>3, <2>6 DEF StatusOK, StatusOf
  <2>8. PICK b \in Writers(k) : t < b /\ b <= u /\ Blind(b, k)
    BY <2>1, <2>2, <2>7 DEF OvertakersBlind
  <2>9. b \in Nat
    BY WritersFacts, TxnFacts
  <2> QED
    BY <1>1, <2>8, <2>9
<1> QED
  BY <1>4, <1>6, <1>7

\* A write finds its version, or is overtaken.
Awaited(t, k) == Has(store[k], t) \/ \E u \in Writers(k) : u > t /\ Blind(u, k)

\* The writes that are on their way have not been written yet.
LEMMA FlyingWrites ==
  ASSUME Discipline, NEW m \in Flight, m.type = "WRITE"
  PROVE  /\ m.txn \in Writers(m.key) /\ m.txn \in Txns /\ m.key \in Keys
         /\ ~Written(m.txn, m.key)
<1>1. /\ m.txn \in Txns /\ m.key \in Keys /\ m.key \in Writes(m.txn)
      /\ ~prog[m.txn].rollback
  BY MessageFacts
<1>2. InFlight("WRITE", m.txn, m.key)
  BY DEF InFlight
<1> QED
  BY <1>1, <1>2 DEF Writers, Written

\* A version that keeps its place is still found.
LEMMA HasStays ==
  ASSUME TypeOK, SameVersions, NEW k \in Keys, NEW t, Has(store[k], t)
  PROVE  Has(store'[k], t)
<1>1. store[k] \in Seq(Version) /\ store'[k] \in Seq(Version)
      /\ Len(store'[k]) = Len(store[k])
  BY DEF TypeOK, SameVersions
<1>2. PICK i \in 1..Len(store[k]) : store[k][i].ver = t
  BY <1>1 DEF Has
<1>3. store'[k][i].ver = t /\ i \in 1..Len(store'[k])
  BY <1>1, <1>2 DEF SameVersions
<1>4. DOMAIN store'[k] = 1..Len(store'[k])
  BY <1>1
<1> QED
  BY <1>3, <1>4 DEF Has

\* No step takes the version away from a write that is on its way, unless a
\* blind writer has overtaken it.
LEMMA WritesWaitStep ==
  /\ Discipline /\ ChainOK /\ OvertakersBlind /\ WritesWait /\ [Next]_vars
  => WritesWait'
<1> SUFFICES ASSUME Discipline, ChainOK, OvertakersBlind, WritesWait, [Next]_vars
             PROVE  WritesWait'
  OBVIOUS
<1>0. TypeOK /\ UNCHANGED <<sameBatch, prog>>
  BY ConfigStep DEF Discipline
<1>1. \A k : Writers(k)' = Writers(k) /\ \A b : Blind(b, k)' <=> Blind(b, k)
  BY <1>0, ProgramsFixed DEF Blind
<1> SUFFICES ASSUME NEW m \in Flight', m.type = "WRITE"
             PROVE  \/ Has(store'[m.key], m.txn)
                    \/ \E u \in Writers(m.key) : u > m.txn /\ Blind(u, m.key)
  BY <1>1 DEF WritesWait
<1>2. CASE m \notin Flight
  <2>1. /\ m.txn \in Txns /\ FinishCommit(m.txn) /\ status[m.txn] = "committing"
        /\ m.key \in Writes(m.txn) /\ m.key \in Keys
    BY <1>2, NewWrites DEF Remote
  <2>2. BatchOf(m.txn) = batch /\ phase = "Execute" /\ ~prog[m.txn].rollback
    BY <2>1, RunningFacts
  <2>3. m.txn \in Writers(m.key)
    BY <2>1, <2>2 DEF Writers
  <2>4. Has(store[m.key], m.txn)
    BY <1>0, <2>1, <2>2, <2>3, WriterHasVersion DEF ChainOK
  <2>5. store' = store
    BY <2>1 DEF FinishCommit
  <2> QED
    BY <2>4, <2>5
<1>3. CASE m \in Flight
  <2>1. PICK k : k = m.key
    OBVIOUS
  <2>2. PICK t : t = m.txn
    OBVIOUS
  <2>3. t \in Writers(k) /\ t \in Txns /\ k \in Keys /\ ~Written(t, k)
    BY <1>3, <2>1, <2>2, FlyingWrites
  <2>4. Awaited(t, k)
    BY <1>3, <2>1, <2>2 DEF WritesWait, Awaited
  <2> SUFFICES ASSUME Has(store[k], t)
               PROVE  Has(store'[k], t) \/ \E u \in Writers(k) : u > t /\ Blind(u, k)
    BY <2>1, <2>2, <2>4 DEF Awaited
  <2>5. ASSUME NEW u \in Txns, Run(u) PROVE Has(store'[k], t)
    BY <1>0, <2>3, <2>5, RunVersions, HasStays
  <2>6. ASSUME NEW c \in Channels, Process(c) PROVE Has(store'[k], t)
    BY <1>0, <2>3, <2>6, HandlerVersions, HasStays
  <2>7. ASSUME NEW n \in Nodes, NEW w \in Workers, InsertWriteSets(n, w)
        PROVE  Has(store'[k], t)
    <3> DEFINE p == Placeholders(k)
               s == store[k]
    <3>1. p \in Seq(Version) /\ s \in Seq(Version)
      BY <1>0, <2>3, PlaceholdersFacts DEF TypeOK
    <3>2. store'[k] = p \o s \/ store'[k] = s
      BY <2>3, <2>7, ServeShape DEF InsertedRow
    <3>3. PICK i \in 1..Len(s) : s[i].ver = t
      BY <3>1 DEF Has
    <3> HIDE DEF p, s
    <3>4. (p \o s)[Len(p) + i] = s[i] /\ Len(p) + i \in DOMAIN (p \o s)
      BY <3>1, <3>3
    <3>5. Has(p \o s, t)
      BY <3>3, <3>4 DEF Has
    <3> QED
      BY <3>2, <3>5 DEF s
  <2>8. ASSUME NEW n \in Nodes, NEW w \in Workers, GarbageCollect(n, w)
        PROVE  Has(store'[k], t) \/ \E u \in Writers(k) : u > t /\ Blind(u, k)
    BY <2>3, <2>8, CollectWaits
  <2>9. Manage \/ UNCHANGED vars => store' = store
    BY DEF Manage, Analyze, EndInsert, EndExecute, EndGC, vars
  <2> QED
    BY <2>5, <2>6, <2>7, <2>8, <2>9 DEF Next, Serve
<1> QED
  BY <1>2, <1>3

-----------------------------------------------------------------------------
(* The theorems.                                                           *)

\* The invariant holds at the start ...
LEMMA VersionInit == Init => VersionInv
<1> SUFFICES ASSUME Init PROVE VersionInv
  OBVIOUS
<1>1. OvertakersBlind
  <2> SUFFICES ASSUME NEW k \in Keys, NEW u \in Writers(k) PROVE status[u] = "new"
    BY DEF OvertakersBlind
  <2> QED
    BY WritersFacts DEF Init
<1>2. WritesWait
  BY DEF Init, WritesWait, Flight
<1> QED
  BY <1>1, <1>2, DisciplineInit, ChainInit, ContentsInit, ReadsInit DEF VersionInv

\* ... and every step keeps it.
LEMMA VersionStep == VersionInv /\ [Next]_vars => VersionInv'
BY DisciplineStep, ChainStep, ContentsStep, ReadsStep, AnswersStep, OvertakersStep,
   WritesWaitStep DEF VersionInv

\* Versions follow their writers, what is ready is written and what has been
\* read was, and the writes on their way find their versions unless a blind
\* writer has overtaken them: for every cluster, workload, number of workers,
\* batch size and number of batches.
THEOREM VersionInvHolds == Spec => []VersionInv
<1>1. Init => VersionInv
  BY VersionInit
<1>2. VersionInv /\ [Next]_vars => VersionInv'
  BY VersionStep
<1> QED
  BY <1>1, <1>2, PTL DEF Spec

\* The variables of the batches keep their types: among others, a reader never
\* runs off the end of a list of versions.
THEOREM VersionTypeCorrect == Spec => []TypeOK
<1>1. VersionInv => TypeOK
  BY DEF VersionInv, Discipline
<1> QED
  BY <1>1, VersionInvHolds, PTL

\* Before a batch is inserted, and after the last one, a row has one version.
LEMMA OneVersion ==
  ASSUME Discipline, NEW k \in Keys, ChainOf(k), phase \in {"Analysis", "DONE"}
  PROVE  Len(store[k]) = 1
<1> DEFINE s == store[k]
<1>0. TypeOK
  BY DEF Discipline
<1>1. CASE phase = "DONE"
  BY <1>1 DEF ChainOf, Collected
<1>2. CASE phase = "Analysis"
  <2>1. ~Inserted(k) /\ ~Collected(k)
    BY <1>2 DEF Inserted, Collected
  <2>2. s[1].ver = WriterBefore(k, FirstOf(batch)) /\ s[Len(s)].ver = WriterBefore(k, FirstOf(batch))
    BY <2>1 DEF ChainOf, Newest, Oldest
  <2>3. Len(s) \in Nat \ {0} /\ 1 \in 1..Len(s) /\ Len(s) \in 1..Len(s) /\ s[1].ver \in Nat
    BY <1>0, ChainMembers
  <2>4. 1 < Len(s) => s[1].ver > s[Len(s)].ver
    BY <2>3 DEF ChainOf
  <2>5. ~(1 < Len(s))
    BY <2>2, <2>3, <2>4
  <2>6. \A n \in Nat \ {0} : ~(1 < n) => n = 1
    OBVIOUS
  <2> HIDE DEF s
  <2>7. Len(s) = 1
    BY <2>3, <2>5, <2>6
  <2> QED
    BY <2>7 DEF s
<1> QED
  BY <1>1, <1>2

\* The chains are what VersionsExact says of the rows.
LEMMA ChainsAreExact == VersionInv => VersionsExact
<1> SUFFICES ASSUME VersionInv PROVE VersionsExact
  OBVIOUS
<1>0. TypeOK /\ Discipline /\ ChainOK
  BY DEF VersionInv, Discipline
<1> SUFFICES
      ASSUME NEW k \in Keys
      PROVE  LET vers == [i \in DOMAIN store[k] |-> store[k][i].ver]
             IN  /\ vers # <<>>
                 /\ \A i \in 1..Len(vers) - 1 : vers[i + 1] = WriterBefore(k, vers[i])
                 /\ phase \in {"Execute", "GC"} =>
                      vers[1] = WriterBefore(k, (batch + 1) * BatchSize)
                 /\ phase \in {"Insert", "Execute", "GC"} =>
                      \/ vers[Len(vers)] = WriterBefore(k, batch * BatchSize)
                      \/ (phase = "GC" /\ Len(vers) = 1)
                 /\ phase \in {"Analysis", "DONE"} => Len(vers) = 1
  BY <1>0 DEF VersionsExact
<1> DEFINE s == store[k]
           vers == [i \in DOMAIN s |-> s[i].ver]
<1>1. ChainOf(k)
  BY <1>0 DEF ChainOK
<1>2. /\ s \in Seq(Version) /\ Len(s) \in Nat \ {0} /\ 1 \in 1..Len(s)
      /\ Len(s) \in 1..Len(s) /\ \A i \in 1..Len(s) : s[i].ver \in Nat
  BY <1>0, <1>1, ChainMembers
<1>3. /\ s[1].ver = Newest(k)
      /\ \A i \in 1..Len(s) - 1 : s[i + 1].ver = WriterBefore(k, s[i].ver)
      /\ IF Collected(k) THEN Len(s) = 1 ELSE s[Len(s)].ver = Oldest(k)
  BY <1>1 DEF ChainOf
<1>4. phase \in {"Analysis", "DONE"} => Len(s) = 1
  BY <1>0, <1>1, OneVersion
<1> HIDE DEF s
<1>5. /\ vers \in Seq(Nat) /\ Len(vers) = Len(s) /\ vers # <<>>
      /\ \A i \in 1..Len(s) : vers[i] = s[i].ver
  <2>1. DOMAIN s = 1..Len(s)
    BY <1>2
  <2>2. vers \in [1..Len(s) -> Nat]
    BY <1>2, <2>1
  <2>3. vers \in Seq(Nat) /\ Len(vers) = Len(s)
    BY <1>2, <2>2
  <2>4. vers # <<>>
    BY <1>2, <2>3
  <2> QED
    BY <2>1, <2>3, <2>4
<1> HIDE DEF vers
<1>6. \A i \in 1..Len(vers) - 1 : vers[i + 1] = WriterBefore(k, vers[i])
  <2> SUFFICES ASSUME NEW i \in 1..Len(vers) - 1
               PROVE  vers[i + 1] = WriterBefore(k, vers[i])
    OBVIOUS
  <2>1. i \in 1..Len(s) - 1 /\ i \in 1..Len(s) /\ i + 1 \in 1..Len(s)
    BY <1>2, <1>5
  <2>2. vers[i] = s[i].ver /\ vers[i + 1] = s[i + 1].ver
    BY <1>5, <2>1
  <2> QED
    BY <1>3, <2>1, <2>2
<1>7. phase \in {"Execute", "GC"} => vers[1] = WriterBefore(k, (batch + 1) * BatchSize)
  BY <1>2, <1>3, <1>5 DEF Newest, Inserted, FirstOf
<1>8. phase \in {"Insert", "Execute", "GC"} =>
        \/ vers[Len(vers)] = WriterBefore(k, batch * BatchSize)
        \/ (phase = "GC" /\ Len(vers) = 1)
  BY <1>2, <1>3, <1>5 DEF Oldest, Collected, FirstOf
<1>9. phase \in {"Analysis", "DONE"} => Len(vers) = 1
  BY <1>4, <1>5
<1>10. /\ vers # <<>>
       /\ \A i \in 1..Len(vers) - 1 : vers[i + 1] = WriterBefore(k, vers[i])
       /\ phase \in {"Execute", "GC"} => vers[1] = WriterBefore(k, (batch + 1) * BatchSize)
       /\ phase \in {"Insert", "Execute", "GC"} =>
            \/ vers[Len(vers)] = WriterBefore(k, batch * BatchSize)
            \/ (phase = "GC" /\ Len(vers) = 1)
       /\ phase \in {"Analysis", "DONE"} => Len(vers) = 1
  BY <1>5, <1>6, <1>7, <1>8, <1>9
<1> QED
  BY <1>10 DEF vers, s

\* Between two batches a row has one version, that of its last writer, and in
\* a batch those of its writers on top of it.
THEOREM VersionsExactHolds == Spec => []VersionsExact
BY ChainsAreExact, VersionInvHolds, PTL

\* A write on its way is not written yet, so that the version it finds is not.
LEMMA WritesFindTheirs == VersionInv => WritesFindVersions
<1> SUFFICES ASSUME VersionInv, NEW c \in Channels, NEW i \in DOMAIN chan[c],
                    NEW m, m = chan[c][i], m.type = "WRITE"
             PROVE  \/ (Has(store[m.key], m.txn) /\ ~Ready(Find(store[m.key], m.txn)))
                    \/ \E u \in Writers(m.key) : u > m.txn /\ Blind(u, m.key)
  BY DEF WritesFindVersions
<1>0. TypeOK /\ Discipline /\ ContentsOK /\ WritesWait
  BY DEF VersionInv, Discipline
<1>1. i \in 1..Len(chan[c])
  BY <1>0 DEF TypeOK
<1>2. m \in Flight
  BY <1>0, <1>1, FlightFacts
<1>3. /\ m.txn \in Writers(m.key) /\ m.txn \in Txns /\ m.key \in Keys
      /\ ~Written(m.txn, m.key)
  BY <1>0, <1>2, FlyingWrites
<1>4. ASSUME Has(store[m.key], m.txn) PROVE ~Ready(Find(store[m.key], m.txn))
  <2>1. store[m.key] \in Seq(Version)
    BY <1>0, <1>3 DEF TypeOK
  <2>2. PICK j \in 1..Len(store[m.key]) :
          Find(store[m.key], m.txn) = store[m.key][j] /\ store[m.key][j].ver = m.txn
    BY <1>4, <2>1, FindFacts
  <2>3. VersionOK(m.key, store[m.key][j])
    BY <1>0, <1>3 DEF ContentsOK
  <2>4. m.txn # 0
    BY <1>3, TxnFacts
  <2> QED
    BY <1>3, <2>2, <2>3, <2>4 DEF VersionOK, Settled
<1> QED
  BY <1>0, <1>2, <1>4 DEF WritesWait

\* A write that is on its way finds its version, not yet written, however late
\* it comes, unless a blind writer has overtaken it.
THEOREM WritesFindVersionsHolds == Spec => []WritesFindVersions
BY WritesFindTheirs, VersionInvHolds, PTL

\* What is read and what is written is that of the serial execution.
LEMMA SerialUnlessTorn == VersionInv => SerializableUnlessTorn
<1> SUFFICES ASSUME VersionInv, ~torn PROVE SerialExecution
  BY DEF SerializableUnlessTorn
<1>0. TypeOK /\ Discipline /\ WaitsOK /\ ContentsOK /\ ReadsOK /\ ChainOK
  BY DEF VersionInv, Discipline
<1>1. ASSUME NEW t \in Txns, status[t] \in {"committing", "done"}, NEW k \in Reads(t)
      PROVE  seen[t][k] = WriterBefore(k, ReadAs(t))
  <2>1. need[t] = {}
    BY <1>0, <1>1 DEF WaitsOK, WaitsOf
  <2> QED
    BY <1>0, <2>1 DEF ReadsOK
<1>2. ASSUME NEW k \in Keys, NEW i \in DOMAIN store[k], NEW v, v = store[k][i], Ready(v)
      PROVE  v.val = v.ver \/ (v.val = Unwritten /\ k \in left[v.ver])
  <2>1. i \in 1..Len(store[k])
    BY <1>0 DEF TypeOK
  <2>2. VersionOK(k, v)
    BY <1>0, <1>2, <2>1 DEF ContentsOK
  <2> QED
    BY <1>2, <2>2 DEF VersionOK
<1> QED
  BY <1>1, <1>2 DEF SerialExecution

\* Unless a reader has come between the two steps of an update, the outcome is
\* that of running the transactions one after the other in the order of their
\* ids, over all batches, nodes and workers.
THEOREM SerializableUnlessTornHolds == Spec => []SerializableUnlessTorn
BY SerialUnlessTorn, VersionInvHolds, PTL
=============================================================================
