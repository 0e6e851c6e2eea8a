--------------------------- MODULE AriaBatch_proofs ---------------------------
(***************************************************************************)
(* Proofs about AriaBatch, for every cluster, schedule and program: the    *)
(* parts of BatchInv are inductive one after the other, and together they  *)
(* make the batches of Aria serializable as long as no message outlives    *)
(* the phase that sent it.                                                 *)
(***************************************************************************)
EXTENDS AriaBatchInv, FiniteSetTheorems, TLAPS

\* flush_messages writes the requests of one destination one after the other,
\* each once.
LEMMA SetToSeqFacts ==
  ASSUME NEW S, IsFiniteSet(S)
  PROVE  /\ SetToSeq(S) \in Seq(S)
         /\ \A x \in S : \E i \in 1..Len(SetToSeq(S)) : SetToSeq(S)[i] = x
         /\ \A i, j \in 1..Len(SetToSeq(S)) :
              SetToSeq(S)[i] = SetToSeq(S)[j] => i = j
<1> DEFINE n == Cardinality(S)
<1>1. n \in Nat /\ ExistsBijection(1..n, S)
  BY FS_CardinalityType
<1>2. PICK g \in Bijection(1..n, S) : TRUE
  BY <1>1 DEF ExistsBijection
<1>3. g \in [1..n -> S] /\ IsInjective(g)
  BY <1>2 DEF Bijection, Injection
<1>4. SetToSeq(S) \in [1..n -> S] /\ IsInjective(SetToSeq(S))
  BY <1>3 DEF SetToSeq
<1>5. SetToSeq(S) \in Seq(S) /\ Len(SetToSeq(S)) = n
  BY <1>1, <1>4
<1>6. IsFiniteSet(1..n) /\ Cardinality(1..n) = n
  BY <1>1, FS_Interval
<1>7. SetToSeq(S) \in Surjection(1..n, S)
  BY <1>4, <1>6, FS_Injection DEF Injection
<1> QED
  BY <1>1, <1>4, <1>5, <1>7 DEF IsInjective, Surjection

\* A row is asked for once: the requests of a transaction are finitely many
\* and tell each other apart by their ids.
LEMMA RequestsFacts ==
  ASSUME NEW type \in Types, NEW t \in Txns, NEW keys \in SUBSET Keys,
         NEW write \in BOOLEAN
  PROVE  /\ Requests(type, t, keys, write) \subseteq Message
         /\ IsFiniteSet(Requests(type, t, keys, write))
<1> DEFINE R == Requests(type, t, keys, write)
           Req(k) == [type |-> type, answer |-> FALSE, txn |-> t, key |-> k,
                      write |-> write, val |-> NoTxn, found |-> {}]
           f == [k \in keys |-> Req(k)]
<1>1. R = {Req(k) : k \in keys}
  BY DEF Requests
<1>2. R \subseteq Message
  <2>1. ASSUME NEW k \in Keys PROVE Req(k) \in Message
    BY DEF Message
  <2> HIDE DEF Req
  <2> QED
    BY <1>1, <2>1
<1>3. f \in Surjection(keys, R)
  BY <1>1 DEF Surjection
<1>4. IsFiniteSet(keys)
  BY TopologyAssumption, FS_Subset
<1>5. IsFiniteSet(R)
  <2> HIDE DEF f, R
  <2> QED
    BY <1>3, <1>4, FS_Surjection
<1> QED
  BY <1>2, <1>5

\* What Send does to the channels: the old messages stay where they are, the
\* new ones follow, each once and on the channel it is routed to.
Extended(msgs) ==
  /\ chan' \in [Channels -> Seq(Message)]
  /\ \A c \in Channels : \A i \in 1..Len(chan[c]) :
       i \in 1..Len(chan'[c]) /\ chan'[c][i] = chan[c][i]
  /\ \A c \in Channels : \A i \in 1..Len(chan'[c]) :
       \/ i \in 1..Len(chan[c])
       \/ i > Len(chan[c]) /\ chan'[c][i] \in msgs /\ Route(chan'[c][i]) = c
  /\ \A c \in Channels : \A i, j \in 1..Len(chan'[c]) :
       i > Len(chan[c]) /\ j > Len(chan[c]) /\ chan'[c][i] = chan'[c][j] => i = j
  /\ \A m \in msgs : Route(m) \in Channels =>
       \E i \in 1..Len(chan'[Route(m)]) : chan'[Route(m)][i] = m

\* Sending adds the messages behind those in the queues, each to its route
\* and once.
LEMMA SendFacts ==
  ASSUME chan \in [Channels -> Seq(Message)], NEW msgs \in SUBSET Message,
         IsFiniteSet(msgs), Send(msgs)
  PROVE  Extended(msgs)
<1> DEFINE S(c) == SetToSeq({m \in msgs : Route(m) = c})
<1>1. \A c \in Channels : chan'[c] = chan[c] \o S(c)
  BY DEF Send
<1>2. \A c : /\ S(c) \in Seq(Message) /\ Len(S(c)) \in Nat
             /\ \A i \in 1..Len(S(c)) : S(c)[i] \in msgs /\ Route(S(c)[i]) = c
             /\ \A m \in msgs : Route(m) = c => \E i \in 1..Len(S(c)) : S(c)[i] = m
             /\ \A i, j \in 1..Len(S(c)) : S(c)[i] = S(c)[j] => i = j
  <2> TAKE c
  <2> DEFINE T == {m \in msgs : Route(m) = c}
             s == SetToSeq(T)
  <2>1. IsFiniteSet(T)
    BY FS_Subset
  <2> HIDE DEF T
  <2>2. /\ s \in Seq(T)
        /\ \A x \in T : \E i \in 1..Len(s) : s[i] = x
        /\ \A i, j \in 1..Len(s) : s[i] = s[j] => i = j
    BY <2>1, SetToSeqFacts
  <2> HIDE DEF s
  <2>3. Len(s) \in Nat /\ \A i \in 1..Len(s) : s[i] \in T
    BY <2>2
  <2>4. s \in Seq(Message)
    BY <2>2, <2>3 DEF T
  <2> QED
    BY <2>2, <2>3, <2>4 DEF T, s
<1> HIDE DEF S
<1>3. \A c \in Channels : S(c) \in Seq(Message) /\ Len(S(c)) \in Nat
  BY <1>2
<1>4. \A c \in Channels : /\ Len(chan[c]) \in Nat
                          /\ Len(chan'[c]) = Len(chan[c]) + Len(S(c))
                          /\ chan'[c] \in Seq(Message)
  <2> TAKE c \in Channels
  <2>1. chan[c] \in Seq(Message) /\ S(c) \in Seq(Message) /\ chan'[c] = chan[c] \o S(c)
    BY <1>1, <1>3
  <2> QED
    BY <2>1
<1>5. chan' \in [Channels -> Seq(Message)]
  BY <1>4 DEF Send
<1>6. \A c \in Channels : \A i \in 1..Len(chan[c]) :
        i \in 1..Len(chan'[c]) /\ chan'[c][i] = chan[c][i]
  BY <1>1, <1>3, <1>4
<1>7. \A c \in Channels : \A i \in 1..Len(chan'[c]) : i > Len(chan[c]) =>
        /\ i - Len(chan[c]) \in 1..Len(S(c))
        /\ chan'[c][i] = S(c)[i - Len(chan[c])]
  BY <1>1, <1>3, <1>4
<1>8. \A c \in Channels : \A i \in 1..Len(S(c)) :
        S(c)[i] \in msgs /\ Route(S(c)[i]) = c
  BY <1>2
<1>9. \A c \in Channels : \A i \in 1..Len(S(c)) :
        /\ Len(chan[c]) + i \in 1..Len(chan'[c])
        /\ chan'[c][Len(chan[c]) + i] = S(c)[i]
  BY <1>1, <1>3, <1>4
<1>10. \A c \in Channels : \A i \in 1..Len(chan'[c]) :
         \/ i \in 1..Len(chan[c])
         \/ i > Len(chan[c]) /\ chan'[c][i] \in msgs /\ Route(chan'[c][i]) = c
  BY <1>4, <1>7, <1>8
<1>11. \A c \in Channels : \A i, j \in 1..Len(chan'[c]) :
         i > Len(chan[c]) /\ j > Len(chan[c]) /\ chan'[c][i] = chan'[c][j] => i = j
  <2> TAKE c \in Channels
  <2> TAKE i, j \in 1..Len(chan'[c])
  <2> HAVE i > Len(chan[c]) /\ j > Len(chan[c]) /\ chan'[c][i] = chan'[c][j]
  <2>0. S(c)[i - Len(chan[c])] = S(c)[j - Len(chan[c])]
    BY <1>7
  <2>1. i - Len(chan[c]) = j - Len(chan[c])
    BY <2>0, <1>2, <1>7
  <2> QED
    BY <2>1, <1>4
<1>12. \A m \in msgs : Route(m) \in Channels =>
         \E i \in 1..Len(chan'[Route(m)]) : chan'[Route(m)][i] = m
  <2> SUFFICES ASSUME NEW m \in msgs, Route(m) \in Channels
               PROVE  \E i \in 1..Len(chan'[Route(m)]) : chan'[Route(m)][i] = m
    OBVIOUS
  <2>1. PICK i \in 1..Len(S(Route(m))) : S(Route(m))[i] = m
    BY <1>2
  <2> QED
    BY <2>1, <1>9
<1> QED
  BY <1>5, <1>6, <1>10, <1>11, <1>12 DEF Extended

\* What taking the head of c does to the channels: every other message keeps
\* its place in the queue, and an answer, if there is one, ends up at the end
\* of the way back.
Off(c, d) == IF c = d THEN 1 ELSE 0

Taken(c, answers) ==
  /\ chan' \in [Channels -> Seq(Message)]
  /\ \A d \in Channels : \A i \in 1..Len(chan'[d]) :
       \/ i + Off(c, d) \in 1..Len(chan[d]) /\ chan'[d][i] = chan[d][i + Off(c, d)]
       \/ d = Back(c) /\ i = Len(chan[d]) + 1 /\ chan'[d][i] \in answers
  /\ \A d \in Channels : \A i \in 1..Len(chan[d]) :
       \/ d = c /\ i = 1
       \/ i - Off(c, d) \in 1..Len(chan'[d]) /\ chan'[d][i - Off(c, d)] = chan[d][i]

\* The way back leads to another channel, and back again.
LEMMA BackFacts ==
  ASSUME NEW c \in Channels
  PROVE  Back(c) \in Channels /\ Back(c) # c /\ Back(Back(c)) = c
BY DEF Channels, Back

\* What is left of a queue without its head.
LEMMA TailFacts ==
  ASSUME NEW T, NEW s \in Seq(T), s # <<>>
  PROVE  /\ Tail(s) \in Seq(T) /\ Len(Tail(s)) = Len(s) - 1
         /\ Len(s) \in Nat \ {0}
         /\ Head(s) = s[1] /\ s[1] \in T
         /\ \A i \in 1..Len(s) - 1 : Tail(s)[i] = s[i + 1]
OBVIOUS

\* A handler that does not answer only takes the head.
LEMMA DropFacts ==
  ASSUME chan \in [Channels -> Seq(Message)], NEW c \in Channels,
         chan[c] # <<>>, Drop(c)
  PROVE  Taken(c, {})
<1>1. \A d \in Channels : chan[d] \in Seq(Message) /\ Len(chan[d]) \in Nat
  OBVIOUS
<1>2. /\ Tail(chan[c]) \in Seq(Message) /\ Len(Tail(chan[c])) = Len(chan[c]) - 1
      /\ Len(chan[c]) \in Nat \ {0}
      /\ \A i \in 1..Len(chan[c]) - 1 : Tail(chan[c])[i] = chan[c][i + 1]
  BY <1>1, TailFacts
<1>3. chan'[c] = Tail(chan[c]) /\ \A d \in Channels : d # c => chan'[d] = chan[d]
  BY DEF Drop
<1>4. chan' \in [Channels -> Seq(Message)]
  BY <1>2 DEF Drop
<1>5. ASSUME NEW d \in Channels, NEW i \in 1..Len(chan'[d])
      PROVE  i + Off(c, d) \in 1..Len(chan[d]) /\ chan'[d][i] = chan[d][i + Off(c, d)]
  <2>1. CASE d = c
    <3>1. Off(c, d) = 1 /\ chan'[d] = Tail(chan[c]) /\ i \in 1..Len(chan[c]) - 1
      BY <1>2, <1>3, <2>1 DEF Off
    <3>2. i + 1 \in 1..Len(chan[c]) /\ Tail(chan[c])[i] = chan[c][i + 1]
      BY <1>2, <3>1
    <3> QED
      BY <2>1, <3>1, <3>2
  <2>2. CASE d # c
    BY <1>1, <1>3, <2>2 DEF Off
  <2> QED
    BY <2>1, <2>2
<1>6. ASSUME NEW d \in Channels, NEW i \in 1..Len(chan[d]), ~(d = c /\ i = 1)
      PROVE  i - Off(c, d) \in 1..Len(chan'[d]) /\ chan'[d][i - Off(c, d)] = chan[d][i]
  <2>1. CASE d = c
    <3>1. i - 1 \in 1..Len(chan[c]) - 1
      BY <1>2, <1>6, <2>1
    <3> QED
      BY <1>2, <1>3, <2>1, <3>1, SMTT(30) DEF Off
  <2>2. CASE d # c
    BY <1>1, <1>3, <2>2 DEF Off
  <2> QED
    BY <2>1, <2>2
<1> QED
  BY <1>4, <1>5, <1>6 DEF Taken

\* A handler that answers takes the head and appends the answer on the way
\* back.
LEMMA ReplyFacts ==
  ASSUME chan \in [Channels -> Seq(Message)], NEW c \in Channels,
         chan[c] # <<>>, NEW m \in Message,
         NEW val \in Txns \cup {NoTxn}, NEW found \in SUBSET Flags,
         Reply(c, m, val, found)
  PROVE  /\ [m EXCEPT !.answer = TRUE, !.val = val, !.found = found] \in Message
         /\ Taken(c, {[m EXCEPT !.answer = TRUE, !.val = val, !.found = found]})
<1> DEFINE a == [m EXCEPT !.answer = TRUE, !.val = val, !.found = found]
           b == Back(c)
<1>0. a \in Message
  BY DEF Message
<1> HIDE DEF a
<1>1. \A d \in Channels : chan[d] \in Seq(Message) /\ Len(chan[d]) \in Nat
  OBVIOUS
<1>2. /\ Tail(chan[c]) \in Seq(Message) /\ Len(Tail(chan[c])) = Len(chan[c]) - 1
      /\ Len(chan[c]) \in Nat \ {0}
      /\ \A i \in 1..Len(chan[c]) - 1 : Tail(chan[c])[i] = chan[c][i + 1]
  BY <1>1, TailFacts
<1>3. b \in Channels /\ b # c
  BY BackFacts
<1>4. /\ chan'[c] = Tail(chan[c]) /\ chan'[b] = Append(chan[b], a)
      /\ \A d \in Channels : d # c /\ d # b => chan'[d] = chan[d]
  BY <1>3 DEF Reply, a
<1>5. /\ Append(chan[b], a) \in Seq(Message)
      /\ Len(Append(chan[b], a)) = Len(chan[b]) + 1
      /\ \A i \in 1..Len(chan[b]) : Append(chan[b], a)[i] = chan[b][i]
      /\ Append(chan[b], a)[Len(chan[b]) + 1] = a
  BY <1>0, <1>1, <1>3
<1>6. chan' \in [Channels -> Seq(Message)]
  BY <1>2, <1>3, <1>5 DEF Reply, a
<1>7. ASSUME NEW d \in Channels, NEW i \in 1..Len(chan'[d])
      PROVE  \/ i + Off(c, d) \in 1..Len(chan[d]) /\ chan'[d][i] = chan[d][i + Off(c, d)]
             \/ d = b /\ i = Len(chan[d]) + 1 /\ chan'[d][i] \in {a}
  <2>1. CASE d = c
    <3>1. Off(c, d) = 1 /\ chan'[d] = Tail(chan[c]) /\ i \in 1..Len(chan[c]) - 1
      BY <1>2, <1>4, <2>1 DEF Off
    <3>2. i + 1 \in 1..Len(chan[c]) /\ Tail(chan[c])[i] = chan[c][i + 1]
      BY <1>2, <3>1
    <3> QED
      BY <2>1, <3>1, <3>2
  <2>2. CASE d = b
    BY <1>1, <1>3, <1>4, <1>5, <2>2 DEF Off
  <2>3. CASE d # c /\ d # b
    BY <1>1, <1>4, <2>3 DEF Off
  <2> QED
    BY <2>1, <2>2, <2>3
<1>8. ASSUME NEW d \in Channels, NEW i \in 1..Len(chan[d]), ~(d = c /\ i = 1)
      PROVE  i - Off(c, d) \in 1..Len(chan'[d]) /\ chan'[d][i - Off(c, d)] = chan[d][i]
  <2>1. CASE d = c
    <3>1. i - 1 \in 1..Len(chan[c]) - 1
      BY <1>2, <1>8, <2>1
    <3>2. Off(c, d) = 1 /\ chan'[d] = Tail(chan[c])
      BY <1>4, <2>1 DEF Off
    <3>3. Tail(chan[c])[i - 1] = chan[c][(i - 1) + 1] /\ (i - 1) + 1 = i
      BY <1>2, <3>1
    <3> QED
      BY <1>2, <2>1, <3>1, <3>2, <3>3
  <2>2. CASE d = b
    BY <1>1, <1>3, <1>4, <1>5, <2>2 DEF Off
  <2>3. CASE d # c /\ d # b
    BY <1>1, <1>4, <2>3 DEF Off
  <2> QED
    BY <2>1, <2>2, <2>3
<1> QED
  BY <1>0, <1>6, <1>7, <1>8 DEF Taken, a

-----------------------------------------------------------------------------

\* The positions do not matter to most of the invariant: what Send adds to the
\* messages in flight.
LEMMA FlightExtended ==
  ASSUME TypeOK, NEW msgs, Extended(msgs), \A m \in msgs : Route(m) \in Channels
  PROVE  Flight' = Flight \cup msgs
<1>1. ASSUME NEW m \in Flight' PROVE m \in Flight \cup msgs
  <2>0. PICK c \in Channels : \E i \in 1..Len(chan'[c]) : m = chan'[c][i]
    BY <1>1 DEF Flight
  <2>1. PICK i \in 1..Len(chan'[c]) : m = chan'[c][i]
    BY <2>0
  <2>2. CASE i \in 1..Len(chan[c])
    BY <2>1, <2>2 DEF Extended, Flight
  <2>3. CASE i \notin 1..Len(chan[c])
    BY <2>1, <2>3 DEF Extended
  <2> QED
    BY <2>2, <2>3
<1>2. ASSUME NEW m \in Flight PROVE m \in Flight'
  <2>0. PICK c \in Channels : \E i \in 1..Len(chan[c]) : m = chan[c][i]
    BY <1>2 DEF Flight
  <2>1. PICK i \in 1..Len(chan[c]) : m = chan[c][i]
    BY <2>0
  <2>2. i \in 1..Len(chan'[c]) /\ chan'[c][i] = m
    BY <2>1 DEF Extended
  <2> QED
    BY <2>2 DEF Flight
<1>3. ASSUME NEW m \in msgs PROVE m \in Flight'
  BY <1>3 DEF Extended, Flight
<1> QED
  BY <1>1, <1>2, <1>3

\* What a handler does to the messages in flight: the head goes, an answer
\* may come.
LEMMA FlightTaken ==
  ASSUME NEW c \in Channels, NEW answers, Taken(c, answers)
  PROVE  /\ Flight' \subseteq Flight \cup answers
         /\ Flight \subseteq Flight' \cup {chan[c][1]}
<1>1. ASSUME NEW m \in Flight' PROVE m \in Flight \cup answers
  <2>0. PICK d \in Channels : \E i \in 1..Len(chan'[d]) : m = chan'[d][i]
    BY <1>1 DEF Flight
  <2>1. PICK i \in 1..Len(chan'[d]) : m = chan'[d][i]
    BY <2>0
  <2>2. CASE i + Off(c, d) \in 1..Len(chan[d]) /\ m = chan[d][i + Off(c, d)]
    BY <2>2 DEF Flight
  <2>3. CASE m \in answers
    BY <2>3
  <2> QED
    BY <2>1, <2>2, <2>3 DEF Taken
<1>2. ASSUME NEW m \in Flight PROVE m \in Flight' \cup {chan[c][1]}
  <2>0. PICK d \in Channels : \E i \in 1..Len(chan[d]) : m = chan[d][i]
    BY <1>2 DEF Flight
  <2>1. PICK i \in 1..Len(chan[d]) : m = chan[d][i]
    BY <2>0
  <2>2. CASE d = c /\ i = 1
    BY <2>1, <2>2
  <2>3. CASE i - Off(c, d) \in 1..Len(chan'[d]) /\ chan'[d][i - Off(c, d)] = m
    BY <2>3 DEF Flight
  <2> QED
    BY <2>1, <2>2, <2>3 DEF Taken
<1> QED
  BY <1>1, <1>2
-----------------------------------------------------------------------------
(* Type correctness.                                                       *)

\* An epoch that fits its field is stored as it is.
LEMMA StoredEpochFacts ==
  ASSUME NEW e \in Nat
  PROVE  StoredEpoch(e) \in Nat /\ (e < EpochModulus => StoredEpoch(e) = e)
BY EpochModulusAssumption DEF StoredEpoch

\* Reserving keeps a word a word.
LEMMA ReserveTypes ==
  ASSUME NEW w \in Word, NEW e \in Nat, NEW tid \in Nat
  PROVE  ReserveRead(w, e, tid) \in Word /\ ReserveWrite(w, e, tid) \in Word
BY StoredEpochFacts DEF ReserveRead, ReserveWrite, Word

\* The numbers of a transaction.
LEMMA ConstantTypes ==
  ASSUME NEW t \in Txns
  PROVE  BatchOf[t] \in Nat \ {0} /\ Tid[t] \in Nat \ {0}
BY BatchAssumption, TidAssumption

\* A transaction accesses rows.
LEMMA AccessTypes ==
  ASSUME TypeOK, NEW t \in Txns
  PROVE  Reads(t) \subseteq Keys /\ Writes(t) \subseteq Keys
BY ProgramAssumption DEF TypeOK, Program, Reads, Writes

\* What one transaction asks for at the rows of other nodes.
Asked(type, t, r, w) ==
  Requests(type, t, Remote(t, r), FALSE) \cup Requests(type, t, Remote(t, w), TRUE)

Ids(msgs) == {Id(m) : m \in msgs}

\* The messages that one transaction sends have their type.
LEMMA AskedTypes ==
  ASSUME TypeOK, NEW t \in Txns, NEW type \in Types,
         NEW r \in SUBSET Reads(t), NEW w \in SUBSET Writes(t)
  PROVE  /\ Asked(type, t, r, w) \in SUBSET Message
         /\ IsFiniteSet(Asked(type, t, r, w))
         /\ Ids(Asked(type, t, r, w)) \subseteq Types \X Keys \X BOOLEAN
<1>1. Remote(t, r) \in SUBSET Keys /\ Remote(t, w) \in SUBSET Keys
  BY AccessTypes DEF Remote
<1>2. /\ Requests(type, t, Remote(t, r), FALSE) \subseteq Message
      /\ Requests(type, t, Remote(t, w), TRUE) \subseteq Message
      /\ IsFiniteSet(Requests(type, t, Remote(t, r), FALSE))
      /\ IsFiniteSet(Requests(type, t, Remote(t, w), TRUE))
  BY <1>1, RequestsFacts
<1>3. \A m \in Message : Id(m) \in Types \X Keys \X BOOLEAN
  BY DEF Message, Id
<1>4. IsFiniteSet(Asked(type, t, r, w))
  BY <1>2, FS_Union DEF Asked
<1> QED
  BY <1>2, <1>3, <1>4 DEF Ids, Asked

\* The requests of one transaction for its remote rows.
LEMMA AskedShape ==
  ASSUME TypeOK, NEW t \in Txns, NEW type \in Types,
         NEW r \in SUBSET Reads(t), NEW w \in SUBSET Writes(t)
  PROVE  \A m \in Asked(type, t, r, w) :
         /\ m = [type |-> type, answer |-> FALSE, txn |-> t, key |-> m.key,
                 write |-> m.write, val |-> NoTxn, found |-> {}]
         /\ m.txn = t /\ m.type = type /\ m.answer = FALSE
         /\ m.write \in BOOLEAN /\ m.key \in Keys
         /\ m.key \in Remote(t, IF m.write THEN w ELSE r)
         /\ m.key \in Accesses(t, m.write) /\ Home[t] # Owner[m.key]
         /\ Id(m) = <<type, m.key, m.write>>
         /\ Route(m) = <<Home[t], Owner[m.key], WorkerOf[t]>>
         /\ Route(m) \in Channels
<1> TAKE m \in Asked(type, t, r, w)
<1>1. PICK write \in BOOLEAN : m \in Requests(type, t, Remote(t, IF write THEN w ELSE r), write)
  BY DEF Asked
<1>2. PICK k \in Remote(t, IF write THEN w ELSE r) :
        m = [type |-> type, answer |-> FALSE, txn |-> t, key |-> k,
             write |-> write, val |-> NoTxn, found |-> {}]
  BY <1>1 DEF Requests
<1>3. k \in Accesses(t, write) /\ k \in Keys /\ Home[t] # Owner[k]
  BY <1>2, AccessTypes DEF Remote, Accesses
<1>4. <<Home[t], Owner[k], WorkerOf[t]>> \in Channels
  BY <1>3, TopologyAssumption DEF Channels
<1> QED
  BY <1>2, <1>3, <1>4 DEF Id, Route

\* Every remote row is asked for.
LEMMA AskedMembers ==
  ASSUME NEW t, NEW type, NEW r, NEW w, NEW write \in BOOLEAN,
         NEW k \in Remote(t, IF write THEN w ELSE r)
  PROVE  \E m \in Asked(type, t, r, w) : IsRequest(m, type, t, k, write)
<1> DEFINE m == [type |-> type, answer |-> FALSE, txn |-> t, key |-> k,
                 write |-> write, val |-> NoTxn, found |-> {}]
<1>1. m \in Asked(type, t, r, w)
  BY DEF Asked, Requests
<1> QED
  BY <1>1 DEF IsRequest

\* Sending a transaction's requests adds them behind the messages in flight.
LEMMA SentFacts ==
  ASSUME TypeOK, NEW t \in Txns, NEW type \in Types,
         NEW r \in SUBSET Reads(t), NEW w \in SUBSET Writes(t),
         Send(Asked(type, t, r, w))
  PROVE  /\ chan' \in [Channels -> Seq(Message)]
         /\ Extended(Asked(type, t, r, w))
         /\ Flight' = Flight \cup Asked(type, t, r, w)
<1>1. Extended(Asked(type, t, r, w))
  BY AskedTypes, SendFacts DEF TypeOK
<1>2. \A m \in Asked(type, t, r, w) : Route(m) \in Channels
  BY AskedShape
<1>3. Flight' = Flight \cup Asked(type, t, r, w)
  BY <1>1, <1>2, FlightExtended
<1> QED
  BY <1>1, <1>3 DEF Extended

\* Asking also keeps the ids that are waited for well typed.
LEMMA AskFacts ==
  ASSUME TypeOK, NEW t \in Txns, NEW type \in Types,
         NEW r \in SUBSET Reads(t), NEW w \in SUBSET Writes(t),
         Ask(t, Asked(type, t, r, w))
  PROVE  /\ Send(Asked(type, t, r, w))
         /\ pend' \in [Txns -> SUBSET (Types \X Keys \X BOOLEAN)]
         /\ pend' = [pend EXCEPT ![t] = @ \cup Ids(Asked(type, t, r, w))]
<1> DEFINE P == Types \X Keys \X BOOLEAN
           ids == Ids(Asked(type, t, r, w))
<1>1. Send(Asked(type, t, r, w)) /\ pend' = [pend EXCEPT ![t] = pend[t] \cup ids]
  BY DEF Ask, Ids
<1>2. ids \subseteq P /\ pend \in [Txns -> SUBSET P]
  BY AskedTypes DEF TypeOK
<1> HIDE DEF P, ids
<1>3. pend' \in [Txns -> SUBSET P]
  BY <1>1, <1>2
<1> QED
  BY <1>1, <1>3 DEF P, ids

\* The message at the head of a queue, and what it leads to.
LEMMA HeadTypes ==
  ASSUME TypeOK, NEW c \in Channels, chan[c] # <<>>
  PROVE  LET m == Head(chan[c])
         IN  /\ m \in Message /\ m = chan[c][1] /\ 1 \in 1..Len(chan[c])
             /\ m \in Flight
             /\ m.txn \in Txns /\ m.key \in Keys /\ m.write \in BOOLEAN
             /\ m.type \in Types /\ m.answer \in BOOLEAN
             /\ m.val \in Txns \cup {NoTxn} /\ m.found \in SUBSET Flags
<1>1. chan[c] \in Seq(Message)
  BY DEF TypeOK
<1>2. Head(chan[c]) = chan[c][1] /\ chan[c][1] \in Message /\ Len(chan[c]) \in Nat \ {0}
  BY <1>1, TailFacts
<1>3. 1 \in 1..Len(chan[c]) /\ chan[c][1] \in Flight
  BY <1>2 DEF Flight
<1> QED
  BY <1>2, <1>3 DEF Message

\* A row answers with flags.
LEMMA FlagTypes ==
  ASSUME NEW w, NEW e, NEW tid
  PROVE  ReadFlags(w, e, tid) \subseteq Flags /\ WriteFlags(w, e, tid) \subseteq Flags
BY DEF ReadFlags, WriteFlags, Flags

\* The answer to a message, and the conflicts a check finds.
Answer(m, val, found) == [m EXCEPT !.answer = TRUE, !.val = val, !.found = found]

Found(m) == IF m.write THEN WriteFlags(word[m.key], BatchOf[m.txn], Tid[m.txn])
                       ELSE ReadFlags(word[m.key], BatchOf[m.txn], Tid[m.txn])

Reserve1(m, w) == IF m.write THEN ReserveWrite(w, BatchOf[m.txn], Tid[m.txn])
                             ELSE ReserveRead(w, BatchOf[m.txn], Tid[m.txn])

\* What becomes of the message at the head of a queue.
Searched(c, m) ==
  /\ m.type = "SEARCH" /\ ~m.answer
  /\ Taken(c, {Answer(m, db[m.key], {})})
  /\ UNCHANGED <<seen, pend, flags, word, db>>

Seen(c, m) ==
  /\ m.type = "SEARCH" /\ m.answer
  /\ Taken(c, {})
  /\ seen' = [seen EXCEPT ![m.txn] = [@ EXCEPT ![m.key] = m.val]]
  /\ pend' = [pend EXCEPT ![m.txn] = @ \ {Id(m)}]
  /\ UNCHANGED <<flags, word, db>>

ReservedAt(c, m) ==
  /\ m.type = "RESERVE" /\ ~m.answer
  /\ Taken(c, {})
  /\ BatchOf[m.txn] >= word[m.key].epoch
  /\ word' = [word EXCEPT ![m.key] = Reserve1(m, @)]
  /\ UNCHANGED <<seen, pend, flags, db>>

Checked(c, m) ==
  /\ m.type = "CHECK" /\ ~m.answer
  /\ Taken(c, {Answer(m, NoTxn, Found(m))})
  /\ UNCHANGED <<seen, pend, flags, word, db>>

Told(c, m) ==
  /\ m.type = "CHECK" /\ m.answer
  /\ Taken(c, {})
  /\ flags' = [flags EXCEPT ![m.txn] = @ \cup m.found]
  /\ pend' = [pend EXCEPT ![m.txn] = @ \ {Id(m)}]
  /\ UNCHANGED <<seen, word, db>>

Written(c, m) ==
  /\ m.type = "WRITE" /\ ~m.answer
  /\ Taken(c, {})
  /\ db' = [db EXCEPT ![m.key] = m.txn]
  /\ UNCHANGED <<seen, pend, flags, word>>

\* An answer is a message about the same access.
LEMMA AnswerFacts ==
  ASSUME NEW m \in Message, NEW val \in Txns \cup {NoTxn}, NEW found \in SUBSET Flags
  PROVE  /\ Answer(m, val, found) \in Message
         /\ Answer(m, val, found).type = m.type
         /\ Answer(m, val, found).answer = TRUE
         /\ Answer(m, val, found).txn = m.txn
         /\ Answer(m, val, found).key = m.key
         /\ Answer(m, val, found).write = m.write
         /\ Answer(m, val, found).val = val
         /\ Answer(m, val, found).found = found
         /\ Id(Answer(m, val, found)) = Id(m)
BY DEF Answer, Message, Id

\* Every handler is one of these, and only they touch the queues.
LEMMA HandlerShape ==
  ASSUME TypeOK, NEW c \in Channels, Process(c)
  PROVE  LET m == chan[c][1]
         IN  /\ chan[c] # <<>> /\ Head(chan[c]) = m /\ m \in Message
             /\ m \in Flight /\ 1 \in 1..Len(chan[c])
             /\ m.txn \in Txns /\ m.key \in Keys /\ m.write \in BOOLEAN
             /\ m.val \in Txns \cup {NoTxn} /\ m.found \in SUBSET Flags
             /\ UNCHANGED <<batch, phase, prog, step, outcome, lateReserve, lateWrite>>
             /\ \/ Searched(c, m) \/ Seen(c, m) \/ ReservedAt(c, m)
                \/ Checked(c, m) \/ Told(c, m) \/ Written(c, m)
<1> DEFINE m == chan[c][1]
<1>1. /\ chan[c] # <<>>
      /\ UNCHANGED <<batch, phase, prog, step, outcome, lateReserve, lateWrite>>
  BY DEF Process, SearchRequest, SearchResponse, ReserveRequest, CheckRequest,
         CheckResponse, WriteRequest, Take, late
<1>2. /\ Head(chan[c]) = m /\ m \in Message /\ m \in Flight /\ 1 \in 1..Len(chan[c])
      /\ m.txn \in Txns /\ m.key \in Keys /\ m.write \in BOOLEAN /\ m.answer \in BOOLEAN
      /\ m.val \in Txns \cup {NoTxn} /\ m.found \in SUBSET Flags
  BY <1>1, HeadTypes
<1>3. Drop(c) => Taken(c, {})
  BY <1>1, DropFacts DEF TypeOK
<1>4. ASSUME NEW val \in Txns \cup {NoTxn}, NEW found \in SUBSET Flags,
             Reply(c, m, val, found)
      PROVE  Taken(c, {Answer(m, val, found)})
  BY <1>1, <1>2, <1>4, ReplyFacts DEF TypeOK, Answer
<1> HIDE DEF m
<1>5. CASE SearchRequest(c)
  <2>1. /\ m.type = "SEARCH" /\ ~m.answer /\ Reply(c, m, db[m.key], {})
        /\ UNCHANGED <<seen, pend, flags, word, db>>
    BY <1>2, <1>5 DEF SearchRequest, Take
  <2>2. db[m.key] \in Txns \cup {NoTxn} /\ {} \in SUBSET Flags
    BY <1>2 DEF TypeOK
  <2>3. Searched(c, m)
    BY <1>4, <2>1, <2>2 DEF Searched
  <2> QED
    BY <1>1, <1>2, <2>3 DEF m
<1>6. CASE SearchResponse(c)
  <2>1. Seen(c, m)
    BY <1>2, <1>3, <1>6 DEF SearchResponse, Take, Seen, Answered
  <2> QED
    BY <1>1, <1>2, <2>1 DEF m
<1>7. CASE ReserveRequest(c)
  <2>1. ReservedAt(c, m)
    BY <1>2, <1>3, <1>7 DEF ReserveRequest, Take, ReservedAt, Reserve1
  <2> QED
    BY <1>1, <1>2, <2>1 DEF m
<1>8. CASE CheckRequest(c)
  <2>1. /\ m.type = "CHECK" /\ ~m.answer /\ Reply(c, m, NoTxn, Found(m))
        /\ UNCHANGED <<seen, pend, flags, word, db>>
    BY <1>2, <1>8 DEF CheckRequest, Take, Found
  <2>2. Found(m) \in SUBSET Flags
    BY FlagTypes DEF Found
  <2>3. Checked(c, m)
    BY <1>4, <2>1, <2>2 DEF Checked
  <2> QED
    BY <1>1, <1>2, <2>3 DEF m
<1>9. CASE CheckResponse(c)
  <2>1. Told(c, m)
    BY <1>2, <1>3, <1>9 DEF CheckResponse, Take, Told, Answered
  <2> QED
    BY <1>1, <1>2, <2>1 DEF m
<1>10. CASE WriteRequest(c)
  <2>1. Written(c, m)
    BY <1>2, <1>3, <1>10 DEF WriteRequest, Take, Written
  <2> QED
    BY <1>1, <1>2, <2>1 DEF m
<1> QED
  BY <1>5, <1>6, <1>7, <1>8, <1>9, <1>10 DEF Process

\* The types hold at the start.
LEMMA TypeInit == Init => TypeOK
<1> SUFFICES ASSUME Init PROVE TypeOK
  OBVIOUS
<1>1. batch \in 1..NBatches /\ phase \in {"READ", "COMMIT", "DONE"}
  BY BatchAssumption DEF Init
<1>2. chan \in [Channels -> Seq(Message)]
  BY DEF Init
<1>3. pend \in [Txns -> SUBSET (Types \X Keys \X BOOLEAN)]
  BY DEF Init
<1>4. ZeroWord \in Word
  BY DEF ZeroWord, Word
<1>5. step \in [Txns -> Generated..Decided]
  BY DEF Init, Generated, Decided
<1> QED
  BY <1>1, <1>2, <1>3, <1>4, <1>5 DEF Init, TypeOK

\* The points of a batch are numbers.
LEMMA StepTypes ==
  /\ Generated..Decided = {Generated, Executed, Reserved, Analyzed, Decided}
  /\ Generated = 0 /\ Executed = 1 /\ Reserved = 2 /\ Analyzed = 3 /\ Decided = 4
BY DEF Generated, Executed, Reserved, Analyzed, Decided

\* What a worker does for one transaction: the point it brings it to, the
\* messages in flight, and the rest of what changes.
Moves(t, from, to) ==
  /\ t \in Current /\ step[t] = from
  /\ step' = [step EXCEPT ![t] = to]

Sends(type, t, r, w) ==
  /\ chan' \in [Channels -> Seq(Message)]
  /\ Extended(Asked(type, t, r, w))
  /\ Flight' = Flight \cup Asked(type, t, r, w)

Waits(type, t, r, w) ==
  /\ pend' \in [Txns -> SUBSET (Types \X Keys \X BOOLEAN)]
  /\ pend' = [pend EXCEPT ![t] = @ \cup Ids(Asked(type, t, r, w))]

RolledBack(t) ==
  /\ phase = "READ" /\ Moves(t, Generated, Decided)
  /\ prog[t].rollback
  /\ outcome' = [outcome EXCEPT ![t] = "no_retry"]
  /\ UNCHANGED <<seen, pend, flags, word, db, chan>>

HasRead(t) ==
  /\ phase = "READ" /\ Moves(t, Generated, Executed)
  /\ ~prog[t].rollback
  /\ seen' = [seen EXCEPT ![t] = [k \in Keys |-> IF k \in Local(t, Reads(t))
                                                 THEN db[k] ELSE @[k]]]
  /\ Sends("SEARCH", t, Reads(t), {}) /\ Waits("SEARCH", t, Reads(t), {})
  /\ UNCHANGED <<flags, outcome, word, db>>

ReservesNothing(t) ==
  /\ phase = "READ" /\ Moves(t, Executed, Reserved)
  /\ pend[t] = {}
  /\ Unreserved(t)
  /\ UNCHANGED <<seen, pend, flags, outcome, word, db, chan>>

Reserves(t) ==
  /\ phase = "READ" /\ Moves(t, Executed, Reserved)
  /\ pend[t] = {}
  /\ ~Unreserved(t)
  /\ word' = [k \in Keys |-> ReservedWord(t, k)]
  /\ Sends("RESERVE", t, Reads(t), Writes(t))
  /\ UNCHANGED <<seen, pend, flags, outcome, db>>

AnalyzesNothing(t) ==
  /\ phase = "COMMIT" /\ Moves(t, Reserved, Analyzed)
  /\ Unreserved(t)
  /\ UNCHANGED <<seen, pend, flags, outcome, word, db, chan>>

Analyzes(t, asked) ==
  /\ phase = "COMMIT" /\ Moves(t, Reserved, Analyzed)
  /\ ~Unreserved(t)
  /\ asked \subseteq Remote(t, Reads(t))
  /\ "raw" \notin LocalFlags(t) => asked = Remote(t, Reads(t))
  /\ flags' = [flags EXCEPT ![t] = @ \cup LocalFlags(t)]
  /\ Sends("CHECK", t, asked, Writes(t)) /\ Waits("CHECK", t, asked, Writes(t))
  /\ UNCHANGED <<seen, outcome, word, db>>

Commits(t) ==
  /\ phase = "COMMIT" /\ Moves(t, Analyzed, Decided)
  /\ pend[t] = {} /\ MayCommit(t)
  /\ outcome' = [outcome EXCEPT ![t] = "committed"]
  /\ db' = [k \in Keys |-> IF k \in Local(t, Writes(t)) THEN t ELSE db[k]]
  /\ Sends("WRITE", t, {}, Writes(t))
  /\ UNCHANGED <<seen, pend, flags, word>>

Aborts(t) ==
  /\ phase = "COMMIT" /\ Moves(t, Analyzed, Decided)
  /\ pend[t] = {} /\ ~MayCommit(t)
  /\ outcome' = [outcome EXCEPT ![t] = "aborted"]
  /\ UNCHANGED <<seen, pend, flags, word, db, chan>>

\* Every step of a worker is one of these.
LEMMA WorkShape ==
  ASSUME TypeOK, NEW t \in Txns, Work(t)
  PROVE  /\ UNCHANGED <<batch, phase, prog, lateReserve, lateWrite>>
         /\ \/ RolledBack(t) \/ HasRead(t) \/ ReservesNothing(t) \/ Reserves(t)
            \/ AnalyzesNothing(t) \/ Commits(t) \/ Aborts(t)
            \/ \E asked \in SUBSET Reads(t) : Analyzes(t, asked)
<1>1. UNCHANGED <<batch, phase, prog, lateReserve, lateWrite>>
  BY DEF Work, Rollback, Execute, Reserve, Analyze, Commit, Abort, late
<1>2. \A from, to : Turn(t, from) /\ Advance(t, to) => Moves(t, from, to)
  BY DEF Turn, Advance, Moves
<1>3. ASSUME NEW type \in Types, NEW r \in SUBSET Reads(t), NEW w \in SUBSET Writes(t)
      PROVE  /\ Send(Asked(type, t, r, w)) => Sends(type, t, r, w)
             /\ Ask(t, Asked(type, t, r, w)) => Sends(type, t, r, w) /\ Waits(type, t, r, w)
  BY SentFacts, AskFacts DEF Sends, Waits
<1>4. /\ Reads(t) \in SUBSET Reads(t) /\ {} \in SUBSET Reads(t)
      /\ Writes(t) \in SUBSET Writes(t) /\ {} \in SUBSET Writes(t)
      /\ "SEARCH" \in Types /\ "RESERVE" \in Types /\ "CHECK" \in Types /\ "WRITE" \in Types
  BY DEF Types
<1>5. \A type, write : Requests(type, t, Remote(t, {}), write) = {}
  BY DEF Requests, Remote
<1>6. CASE Rollback(t)
  BY <1>1, <1>2, <1>6 DEF Rollback, RolledBack
<1>7. CASE Execute(t)
  <2>1. Ask(t, Asked("SEARCH", t, Reads(t), {}))
    BY <1>5, <1>7 DEF Execute, Asked
  <2>2. Sends("SEARCH", t, Reads(t), {}) /\ Waits("SEARCH", t, Reads(t), {})
    BY <1>3, <1>4, <2>1
  <2>3. HasRead(t)
    BY <1>2, <1>7, <2>2 DEF Execute, HasRead
  <2> QED
    BY <1>1, <2>3
<1>8. CASE Reserve(t)
  <2>1. CASE Unreserved(t)
    <3>1. ReservesNothing(t)
      BY <1>2, <1>8, <2>1 DEF Reserve, ReservesNothing
    <3> QED
      BY <1>1, <3>1
  <2>2. CASE ~Unreserved(t)
    <3>1. Send(Asked("RESERVE", t, Reads(t), Writes(t)))
      BY <1>8, <2>2 DEF Reserve, Reservations, Asked
    <3>2. Sends("RESERVE", t, Reads(t), Writes(t))
      BY <1>3, <1>4, <3>1
    <3>3. Reserves(t)
      BY <1>2, <1>8, <2>2, <3>2 DEF Reserve, Reserves
    <3> QED
      BY <1>1, <3>3
  <2> QED
    BY <2>1, <2>2
<1>9. CASE Analyze(t)
  <2>1. CASE Unreserved(t)
    <3>1. AnalyzesNothing(t)
      BY <1>2, <1>9, <2>1 DEF Analyze, AnalyzesNothing
    <3> QED
      BY <1>1, <3>1
  <2>2. CASE ~Unreserved(t)
    <3>1. PICK asked \in SUBSET Remote(t, Reads(t)) :
              /\ "raw" \notin LocalFlags(t) => asked = Remote(t, Reads(t))
              /\ flags' = [flags EXCEPT ![t] = @ \cup LocalFlags(t)]
              /\ Ask(t, Requests("CHECK", t, asked, FALSE) \cup
                        Requests("CHECK", t, Remote(t, Writes(t)), TRUE))
      BY <1>9, <2>2 DEF Analyze
    <3>2. asked \in SUBSET Reads(t) /\ asked = Remote(t, asked)
      BY DEF Remote
    <3>3. Ask(t, Asked("CHECK", t, asked, Writes(t)))
      BY <3>1, <3>2 DEF Asked
    <3>4. Sends("CHECK", t, asked, Writes(t)) /\ Waits("CHECK", t, asked, Writes(t))
      BY <1>3, <1>4, <3>2, <3>3
    <3>5. Analyzes(t, asked)
      BY <1>2, <1>9, <2>2, <3>1, <3>4 DEF Analyze, Analyzes
    <3> QED
      BY <1>1, <3>2, <3>5
  <2> QED
    BY <2>1, <2>2
<1>10. CASE Commit(t)
  <2>1. Send(Asked("WRITE", t, {}, Writes(t)))
    BY <1>5, <1>10 DEF Commit, Asked
  <2>2. Sends("WRITE", t, {}, Writes(t))
    BY <1>3, <1>4, <2>1
  <2>3. Commits(t)
    BY <1>2, <1>10, <2>2 DEF Commit, Commits
  <2> QED
    BY <1>1, <2>3
<1>11. CASE Abort(t)
  BY <1>1, <1>2, <1>11 DEF Abort, Aborts
<1> QED
  BY <1>6, <1>7, <1>8, <1>9, <1>10, <1>11 DEF Work

\* Every step keeps the types.
LEMMA TypeStep == TypeOK /\ [Next]_vars => TypeOK'
<1> SUFFICES ASSUME TypeOK, [Next]_vars
             PROVE  TypeOK'
  OBVIOUS
<1>0. /\ step \in [Txns -> Generated..Decided]
      /\ Generated \in Generated..Decided /\ Executed \in Generated..Decided
      /\ Reserved \in Generated..Decided /\ Analyzed \in Generated..Decided
      /\ Decided \in Generated..Decided
  BY StepTypes DEF TypeOK
<1>1. ASSUME NEW t \in Txns, Work(t) PROVE TypeOK'
  <2>0. /\ UNCHANGED <<batch, phase, prog, lateReserve, lateWrite>>
        /\ \/ RolledBack(t) \/ HasRead(t) \/ ReservesNothing(t) \/ Reserves(t)
           \/ AnalyzesNothing(t) \/ Commits(t) \/ Aborts(t)
           \/ \E asked \in SUBSET Reads(t) : Analyzes(t, asked)
    BY <1>1, WorkShape
  <2>1. CASE RolledBack(t)
    BY <1>0, <2>0, <2>1 DEF RolledBack, Moves, TypeOK
  <2>2. CASE HasRead(t)
    <3>1. [k \in Keys |-> IF k \in Local(t, Reads(t)) THEN db[k] ELSE seen[t][k]]
            \in [Keys -> Txns \cup {NoTxn}]
      BY DEF TypeOK
    <3>2. seen' \in [Txns -> [Keys -> Txns \cup {NoTxn}]]
      BY <2>2, <3>1 DEF HasRead, TypeOK
    <3> QED
      BY <1>0, <2>0, <2>2, <3>2 DEF HasRead, Moves, Sends, Waits, TypeOK
  <2>3. CASE ReservesNothing(t)
    BY <1>0, <2>0, <2>3 DEF ReservesNothing, Moves, TypeOK
  <2>4. CASE Reserves(t)
    <3>1. ASSUME NEW k \in Keys PROVE ReservedWord(t, k) \in Word
      <4>1. word[k] \in Word /\ batch \in Nat /\ Tid[t] \in Nat
        BY ConstantTypes, BatchAssumption DEF TypeOK
      <4> QED
        BY <4>1, ReserveTypes DEF ReservedWord
    <3>2. word' \in [Keys -> Word]
      BY <2>4, <3>1 DEF Reserves
    <3> QED
      BY <1>0, <2>0, <2>4, <3>2 DEF Reserves, Moves, Sends, TypeOK
  <2>5. CASE AnalyzesNothing(t)
    BY <1>0, <2>0, <2>5 DEF AnalyzesNothing, Moves, TypeOK
  <2>6. ASSUME NEW asked \in SUBSET Reads(t), Analyzes(t, asked) PROVE TypeOK'
    <3>1. LocalFlags(t) \subseteq Flags
      BY FlagTypes DEF LocalFlags
    <3>2. flags' \in [Txns -> SUBSET Flags]
      BY <2>6, <3>1 DEF Analyzes, TypeOK
    <3> QED
      BY <1>0, <2>0, <2>6, <3>2 DEF Analyzes, Moves, Sends, Waits, TypeOK
  <2>7. CASE Commits(t)
    BY <1>0, <2>0, <2>7 DEF Commits, Moves, Sends, TypeOK
  <2>8. CASE Aborts(t)
    BY <1>0, <2>0, <2>8 DEF Aborts, Moves, TypeOK
  <2> QED
    BY <2>0, <2>1, <2>2, <2>3, <2>4, <2>5, <2>6, <2>7, <2>8
<1>2. ASSUME NEW c \in Channels, Process(c) PROVE TypeOK'
  <2> DEFINE m == chan[c][1]
             P == Types \X Keys \X BOOLEAN
  <2>0. /\ m \in Message /\ m.txn \in Txns /\ m.key \in Keys
        /\ m.val \in Txns \cup {NoTxn} /\ m.found \in SUBSET Flags
        /\ UNCHANGED <<batch, phase, prog, step, outcome, lateReserve, lateWrite>>
        /\ \/ Searched(c, m) \/ Seen(c, m) \/ ReservedAt(c, m)
           \/ Checked(c, m) \/ Told(c, m) \/ Written(c, m)
    BY <1>2, HandlerShape
  <2>1. chan' \in [Channels -> Seq(Message)]
    BY <2>0 DEF Searched, Seen, ReservedAt, Checked, Told, Written, Taken
  <2> HIDE DEF m
  <2>2. pend' \in [Txns -> SUBSET P]
    <3>1. pend \in [Txns -> SUBSET P]
      BY DEF TypeOK
    <3> HIDE DEF P
    <3> QED
      BY <2>0, <3>1 DEF Searched, Seen, ReservedAt, Checked, Told, Written
  <2>3. seen' \in [Txns -> [Keys -> Txns \cup {NoTxn}]]
    <3>1. CASE Seen(c, m)
      <4>1. seen[m.txn] \in [Keys -> Txns \cup {NoTxn}]
        BY <2>0 DEF TypeOK
      <4>2. [seen[m.txn] EXCEPT ![m.key] = m.val] \in [Keys -> Txns \cup {NoTxn}]
        BY <2>0, <4>1
      <4> QED
        BY <2>0, <3>1, <4>2 DEF Seen, TypeOK
    <3> QED
      BY <2>0, <3>1 DEF Searched, ReservedAt, Checked, Told, Written, TypeOK
  <2>4. word' \in [Keys -> Word]
    <3>1. CASE ReservedAt(c, m)
      <4>1. word[m.key] \in Word /\ BatchOf[m.txn] \in Nat /\ Tid[m.txn] \in Nat
        BY <2>0, ConstantTypes DEF TypeOK
      <4>2. Reserve1(m, word[m.key]) \in Word
        BY <4>1, ReserveTypes DEF Reserve1
      <4> QED
        BY <3>1, <4>2 DEF ReservedAt, TypeOK
    <3> QED
      BY <2>0, <3>1 DEF Searched, Seen, Checked, Told, Written, TypeOK
  <2>5. flags' \in [Txns -> SUBSET Flags]
    <3>1. flags' = flags \/ flags' = [flags EXCEPT ![m.txn] = @ \cup m.found]
      BY <2>0 DEF Searched, Seen, ReservedAt, Checked, Told, Written
    <3> QED
      BY <2>0, <3>1 DEF TypeOK
  <2>6. db' \in [Keys -> Txns \cup {NoTxn}]
    <3>1. db' = db \/ db' = [db EXCEPT ![m.key] = m.txn]
      BY <2>0 DEF Searched, Seen, ReservedAt, Checked, Told, Written
    <3> QED
      BY <2>0, <3>1 DEF TypeOK
  <2> QED
    BY <2>0, <2>1, <2>2, <2>3, <2>4, <2>5, <2>6 DEF TypeOK
<1>3. CASE EndRead
  <2>1. lateReserve' \in BOOLEAN
    BY <1>3 DEF EndRead, InFlight, TypeOK
  <2> QED
    BY <1>3, <2>1 DEF EndRead, TypeOK
<1>4. CASE EndBatch
  <2>1. lateWrite' \in BOOLEAN
    BY <1>4 DEF EndBatch, InFlight, TypeOK
  <2>2. batch' \in 1..NBatches /\ phase' \in {"READ", "COMMIT", "DONE"}
    BY <1>4, BatchAssumption DEF EndBatch, TypeOK
  <2> QED
    BY <1>4, <2>1, <2>2 DEF EndBatch, TypeOK
<1>5. CASE UNCHANGED vars
  BY <1>5 DEF vars, TypeOK
<1> QED
  BY <1>1, <1>2, <1>3, <1>4, <1>5 DEF Next

\* Every state of every execution is well typed.
THEOREM TypeCorrect == Spec => []TypeOK
<1> QED
  BY TypeInit, TypeStep, PTL DEF Spec

-----------------------------------------------------------------------------
(* Messages: every one is on its way, none is in flight twice, and who has *)
(* asked waits at the right point of its batch.                            *)

\* What a transaction accesses stays what it was.
LEMMA ProgramsFixed ==
  ASSUME prog' = prog, NEW t
  PROVE  /\ Reads(t)' = Reads(t) /\ Writes(t)' = Writes(t)
         /\ Unreserved(t)' <=> Unreserved(t)
         /\ Reserving(t)' <=> Reserving(t)
         /\ \A write : Accesses(t, write)' = Accesses(t, write)
BY DEF Reads, Writes, Unreserved, IsReadOnly, Accesses, Reserving

\* Every message in a queue is one.
LEMMA PositionTypes ==
  ASSUME TypeOK
  PROVE  \A c \in Channels : \A i \in 1..Len(chan[c]) :
           LET m == chan[c][i]
           IN  /\ m \in Message /\ m \in Flight
               /\ m.txn \in Txns /\ m.key \in Keys /\ m.write \in BOOLEAN
               /\ m.type \in Types /\ m.answer \in BOOLEAN
<1> SUFFICES ASSUME NEW c \in Channels, NEW i \in 1..Len(chan[c])
             PROVE  chan[c][i] \in Message /\ chan[c][i] \in Flight
  BY DEF Message
<1>1. chan[c] \in Seq(Message)
  BY DEF TypeOK
<1>2. chan[c][i] \in Message
  BY <1>1
<1> QED
  BY <1>2 DEF Flight

\* Every message in flight is one, and one that is as it should be.
LEMMA FlightFacts ==
  ASSUME TypeOK, MessagesOK, NEW m \in Flight
  PROVE  /\ m \in Message
         /\ m.txn \in Txns /\ m.key \in Keys /\ m.write \in BOOLEAN
         /\ m.type \in Types /\ m.answer \in BOOLEAN
         /\ m.key \in Accesses(m.txn, m.write) /\ Home[m.txn] # Owner[m.key]
         /\ IF Counted(m) THEN Id(m) \in pend[m.txn] ELSE ~m.answer
         /\ m.type = "WRITE" => m.write /\ outcome[m.txn] = "committed"
         /\ BatchOf[m.txn] <= batch
<1>1. PICK c \in Channels : \E i \in 1..Len(chan[c]) : m = chan[c][i]
  BY DEF Flight
<1>2. PICK i \in 1..Len(chan[c]) : m = chan[c][i]
  BY <1>1
<1>3. MessageOK(c, m)
  BY <1>2 DEF MessagesOK
<1>4. /\ m \in Message /\ m.txn \in Txns /\ m.key \in Keys /\ m.write \in BOOLEAN
      /\ m.type \in Types /\ m.answer \in BOOLEAN
  BY <1>2, PositionTypes
<1> QED
  BY <1>3, <1>4 DEF MessageOK

\* Messages with the same id are about the same access.
LEMMA SameId ==
  ASSUME NEW m, NEW n, Id(m) = Id(n)
  PROVE  /\ m.type = n.type /\ m.key = n.key /\ m.write = n.write
         /\ Counted(m) <=> Counted(n)
BY DEF Id, Counted

\* Sending keeps to the discipline: the requests are new, so that none is in
\* flight twice, and those that are counted are waited for.
LEMMA SendMessages ==
  ASSUME TypeOK, MessagesOK, NoDuplicates, prog' = prog, batch' = batch,
         NEW t \in Current, NEW type \in Types,
         NEW r \in SUBSET Reads(t), NEW w \in SUBSET Writes(t),
         Sends(type, t, r, w),
         \A u \in Txns : pend[u] \subseteq pend'[u],
         \A u \in Txns : outcome[u] = "committed" => outcome'[u] = "committed",
         type = "WRITE" => r = {} /\ outcome'[t] = "committed",
         type \in {"SEARCH", "CHECK"} =>
           /\ Ids(Asked(type, t, r, w)) \subseteq pend'[t]
           /\ \A id \in pend[t] : id[1] # type
  PROVE  MessagesOK' /\ NoDuplicates'
<1> DEFINE msgs == Asked(type, t, r, w)
<1>0. t \in Txns /\ BatchOf[t] = batch
  BY DEF Current
<1>2. \A m \in msgs :
         /\ m = [type |-> type, answer |-> FALSE, txn |-> t, key |-> m.key,
                 write |-> m.write, val |-> NoTxn, found |-> {}]
         /\ m.txn = t /\ m.type = type /\ m.answer = FALSE
         /\ m.write \in BOOLEAN /\ m.key \in Keys
         /\ m.key \in Remote(t, IF m.write THEN w ELSE r)
         /\ m.key \in Accesses(t, m.write) /\ Home[t] # Owner[m.key]
         /\ Id(m) = <<type, m.key, m.write>>
         /\ Route(m) = <<Home[t], Owner[m.key], WorkerOf[t]>>
         /\ Route(m) \in Channels
  BY <1>0, AskedShape, Zenon
<1>3. type \in {"SEARCH", "CHECK"} =>
        (\A m \in msgs : Id(m) \in pend'[t]) /\ \A id \in pend[t] : id[1] # type
  BY DEF Ids
<1>5. Extended(msgs)
  BY DEF Sends
<1> HIDE DEF msgs
<1>6. MessagesOK'
  <2> SUFFICES ASSUME NEW c \in Channels, NEW i \in 1..Len(chan'[c])
               PROVE  MessageOK(c, chan[c][i])'
    BY DEF MessagesOK
  <2>1. CASE i \in 1..Len(chan[c])
    <3>1. chan'[c][i] = chan[c][i] /\ MessageOK(c, chan[c][i])
      BY <1>5, <2>1 DEF Extended, MessagesOK
    <3>2. chan[c][i].txn \in Txns
      BY <2>1, PositionTypes
    <3> QED
      BY <3>1, <3>2, ProgramsFixed DEF MessageOK
  <2>2. CASE i > Len(chan[c]) /\ chan'[c][i] \in msgs /\ Route(chan'[c][i]) = c
    <3> DEFINE m == chan'[c][i]
    <3>1. /\ m.txn = t /\ m.answer = FALSE /\ m.key \in Accesses(t, m.write)
          /\ Home[t] # Owner[m.key] /\ m.type = type
          /\ m.key \in Remote(t, IF m.write THEN w ELSE r)
      BY <1>2, <2>2
    <3>2. Counted(m) => Id(m) \in pend'[t]
      BY <1>3, <2>2, <3>1 DEF Counted
    <3>3. c = Route(m)
      BY <2>2
    <3>4. m.type = "WRITE" => m.write /\ outcome'[t] = "committed"
      BY <3>1 DEF Remote
    <3>5. BatchOf[t] <= batch
      BY <1>0, ConstantTypes
    <3> QED
      BY <3>1, <3>2, <3>3, <3>4, <3>5 DEF MessageOK, Accesses, Reads, Writes, Counted
  <2> QED
    BY <1>5, <2>1, <2>2 DEF Extended
<1>7. NoDuplicates'
  <2> SUFFICES ASSUME NEW c \in Channels, NEW d \in Channels,
                      NEW i \in 1..Len(chan'[c]), NEW j \in 1..Len(chan'[d]),
                      Counted(chan'[c][i]), chan'[c][i].txn = chan'[d][j].txn,
                      Id(chan'[c][i]) = Id(chan'[d][j])
               PROVE  c = d /\ i = j
    BY DEF NoDuplicates
  <2>1. /\ chan'[c][i].type = chan'[d][j].type /\ chan'[c][i].key = chan'[d][j].key
        /\ chan'[c][i].write = chan'[d][j].write
    BY SameId
  <2>2. Counted(chan'[d][j])
    BY SameId
  <2>3. ASSUME NEW e \in Channels, NEW n \in 1..Len(chan[e]), Counted(chan[e][n]),
               chan[e][n].txn = t
        PROVE  chan[e][n].type # type
    BY <1>3, <2>3 DEF MessagesOK, MessageOK, Id, Counted
  <2>4. CASE i \in 1..Len(chan[c]) /\ j \in 1..Len(chan[d])
    <3>1. chan'[c][i] = chan[c][i] /\ chan'[d][j] = chan[d][j]
      BY <1>5, <2>4 DEF Extended
    <3> QED
      BY <2>4, <3>1, SMTT(30) DEF NoDuplicates
  <2>5. CASE i \notin 1..Len(chan[c]) /\ j \notin 1..Len(chan[d])
    <3>1. /\ i > Len(chan[c]) /\ chan'[c][i] \in msgs /\ Route(chan'[c][i]) = c
          /\ j > Len(chan[d]) /\ chan'[d][j] \in msgs /\ Route(chan'[d][j]) = d
      BY <1>5, <2>5 DEF Extended
    <3>2. /\ chan'[c][i].key = chan'[d][j].key
          /\ chan'[c][i].write = chan'[d][j].write
      BY <2>1
    <3>3. chan'[c][i] = chan'[d][j] /\ c = d
      BY <1>2, <3>1, <3>2
    <3> QED
      BY <1>5, <3>1, <3>3 DEF Extended
  <2>6. CASE i \in 1..Len(chan[c]) /\ j \notin 1..Len(chan[d])
    <3>1. chan'[c][i] = chan[c][i] /\ chan'[d][j] \in msgs
      BY <1>5, <2>6 DEF Extended
    <3> QED
      BY <1>2, <2>1, <2>3, <2>6, <3>1
  <2>7. CASE i \notin 1..Len(chan[c]) /\ j \in 1..Len(chan[d])
    <3>1. chan'[d][j] = chan[d][j] /\ chan'[c][i] \in msgs
      BY <1>5, <2>7 DEF Extended
    <3> QED
      BY <1>2, <2>1, <2>2, <2>3, <2>7, <3>1
  <2> QED
    BY <2>4, <2>5, <2>6, <2>7
<1> QED
  BY <1>6, <1>7

\* Taking keeps to the discipline: an answer takes the place of its request,
\* and what is no longer waited for is no longer in flight.
LEMMA TakeMessages ==
  ASSUME TypeOK, MessagesOK, NoDuplicates, UNCHANGED <<prog, batch, outcome>>,
         NEW c \in Channels, chan[c] # <<>>, NEW answers, Taken(c, answers),
         \A a \in answers : /\ a.txn = chan[c][1].txn /\ Id(a) = Id(chan[c][1])
                            /\ a.answer /\ ~chan[c][1].answer /\ Counted(chan[c][1]),
         \/ pend' = pend
         \/ /\ answers = {} /\ Counted(chan[c][1])
            /\ pend' = [pend EXCEPT ![chan[c][1].txn] = @ \ {Id(chan[c][1])}]
  PROVE  MessagesOK' /\ NoDuplicates'
<1> DEFINE m == chan[c][1]
<1>1. /\ m \in Message /\ m.txn \in Txns /\ m.key \in Keys /\ m.write \in BOOLEAN
      /\ m = Head(chan[c]) /\ 1 \in 1..Len(chan[c])
  BY HeadTypes
<1>2. MessageOK(c, m)
  BY <1>1 DEF MessagesOK
<1>3. Back(c) \in Channels /\ Back(c) # c /\ Back(Back(c)) = c
  BY BackFacts
<1>8. /\ \A u \in Txns : u # m.txn => pend'[u] = pend[u]
      /\ \/ pend'[m.txn] = pend[m.txn]
         \/ /\ answers = {} /\ Counted(m)
            /\ pend'[m.txn] = pend[m.txn] \ {Id(m)}
  BY <1>1 DEF TypeOK
\* A message that stays is not the one that was taken.
<1>4. ASSUME NEW d \in Channels, NEW i \in 1..Len(chan'[d]),
             i + Off(c, d) \in 1..Len(chan[d]),
             Counted(chan[d][i + Off(c, d)]), chan[d][i + Off(c, d)].txn = m.txn
      PROVE  Id(chan[d][i + Off(c, d)]) # Id(m)
  <2>1. ~(d = c /\ i + Off(c, d) = 1)
    BY DEF Off
  <2> QED
    BY <1>1, <1>4, <2>1 DEF NoDuplicates
<1>5. MessagesOK'
  <2> SUFFICES ASSUME NEW d \in Channels, NEW i \in 1..Len(chan'[d])
               PROVE  MessageOK(d, chan[d][i])'
    BY DEF MessagesOK
  <2>1. CASE i + Off(c, d) \in 1..Len(chan[d]) /\ chan'[d][i] = chan[d][i + Off(c, d)]
    <3> DEFINE n == chan[d][i + Off(c, d)]
    <3>1. MessageOK(d, n) /\ n.txn \in Txns
      BY <2>1, PositionTypes DEF MessagesOK
    <3>2. Counted(n) => Id(n) \in pend'[n.txn]
      BY <1>4, <1>8, <2>1, <3>1 DEF MessageOK
    <3> HIDE DEF n
    <3> QED
      BY <2>1, <3>1, <3>2 DEF MessageOK, Accesses, Reads, Writes, Counted, n
  <2>2. CASE d = Back(c) /\ i = Len(chan[d]) + 1 /\ chan'[d][i] \in answers
    <3> DEFINE a == chan'[d][i]
    <3>1. /\ a.txn = m.txn /\ Id(a) = Id(m) /\ a.answer /\ ~m.answer /\ Counted(m)
          /\ pend'[m.txn] = pend[m.txn]
      BY <1>8, <2>2
    <3>2. a.type = m.type /\ a.key = m.key /\ a.write = m.write /\ Counted(a)
      BY <3>1, SameId
    <3>3. Route(a) = Route(m) /\ c = Route(m)
      BY <1>2, <3>1, <3>2 DEF Route, MessageOK
    <3> HIDE DEF m
    <3> QED
      BY <1>2, <2>2, <3>1, <3>2, <3>3 DEF MessageOK, Accesses, Reads, Writes, Counted
  <2> QED
    BY <2>1, <2>2 DEF Taken
<1>6. NoDuplicates'
  <2> SUFFICES ASSUME NEW d \in Channels, NEW e \in Channels,
                      NEW i \in 1..Len(chan'[d]), NEW j \in 1..Len(chan'[e]),
                      Counted(chan'[d][i]), chan'[d][i].txn = chan'[e][j].txn,
                      Id(chan'[d][i]) = Id(chan'[e][j])
               PROVE  d = e /\ i = j
    BY DEF NoDuplicates
  <2>1. Counted(chan'[e][j])
    BY SameId
  <2>2. \A f \in Channels : \A n \in 1..Len(chan'[f]) :
          \/ n + Off(c, f) \in 1..Len(chan[f]) /\ chan'[f][n] = chan[f][n + Off(c, f)]
          \/ /\ f = Back(c) /\ n = Len(chan[f]) + 1
             /\ chan'[f][n].txn = m.txn /\ Id(chan'[f][n]) = Id(m)
    BY DEF Taken
  <2>3. CASE /\ i + Off(c, d) \in 1..Len(chan[d]) /\ chan'[d][i] = chan[d][i + Off(c, d)]
             /\ j + Off(c, e) \in 1..Len(chan[e]) /\ chan'[e][j] = chan[e][j + Off(c, e)]
    <3> DEFINE x == i + Off(c, d)
               y == j + Off(c, e)
    <3>0. /\ x \in 1..Len(chan[d]) /\ y \in 1..Len(chan[e])
          /\ Counted(chan[d][x]) /\ chan[d][x].txn = chan[e][y].txn
          /\ Id(chan[d][x]) = Id(chan[e][y])
      BY <2>3
    <3> HIDE DEF x, y
    <3>1. d = e /\ x = y
      BY <3>0 DEF NoDuplicates
    <3>2. \A f \in Channels : chan'[f] \in Seq(Message) /\ Len(chan'[f]) \in Nat
      BY DEF Taken
    <3> QED
      BY <3>1, <3>2 DEF Off, x, y
  <2>4. CASE /\ i + Off(c, d) \in 1..Len(chan[d]) /\ chan'[d][i] = chan[d][i + Off(c, d)]
             /\ chan'[e][j].txn = m.txn /\ Id(chan'[e][j]) = Id(m)
    BY <1>4, <2>4
  <2>5. CASE /\ j + Off(c, e) \in 1..Len(chan[e]) /\ chan'[e][j] = chan[e][j + Off(c, e)]
             /\ chan'[d][i].txn = m.txn /\ Id(chan'[d][i]) = Id(m)
    BY <1>4, <2>1, <2>5
  <2>6. CASE d = Back(c) /\ i = Len(chan[d]) + 1 /\ e = Back(c) /\ j = Len(chan[e]) + 1
    BY <2>6
  <2> QED
    BY <2>2, <2>3, <2>4, <2>5, <2>6
<1> QED
  BY <1>5, <1>6

\* What a transaction waits for is an access.
LEMMA WaitTypes ==
  ASSUME TypeOK, NEW t \in Txns, NEW id \in pend[t]
  PROVE  id[1] \in Types /\ id[2] \in Keys /\ id[3] \in BOOLEAN
<1>1. id \in Types \X Keys \X BOOLEAN
  BY DEF TypeOK
<1> QED
  BY <1>1

\* What has been asked for are accesses.
LEMMA AskedIds ==
  ASSUME TypeOK, NEW t \in Txns, NEW type \in Types,
         NEW r \in SUBSET Reads(t), NEW w \in SUBSET Writes(t),
         NEW id \in Ids(Asked(type, t, r, w))
  PROVE  id[1] = type /\ id[2] \in Accesses(t, id[3])
<1>1. PICK m \in Asked(type, t, r, w) : id = Id(m)
  BY DEF Ids
<1>2. \A n \in Asked(type, t, r, w) :
         /\ n = [type |-> type, answer |-> FALSE, txn |-> t, key |-> n.key,
                 write |-> n.write, val |-> NoTxn, found |-> {}]
         /\ n.txn = t /\ n.type = type /\ n.answer = FALSE
         /\ n.write \in BOOLEAN /\ n.key \in Keys
         /\ n.key \in Remote(t, IF n.write THEN w ELSE r)
         /\ n.key \in Accesses(t, n.write) /\ Home[t] # Owner[n.key]
         /\ Id(n) = <<type, n.key, n.write>>
         /\ Route(n) = <<Home[t], Owner[n.key], WorkerOf[t]>>
         /\ Route(n) \in Channels
  BY AskedShape, Zenon
<1>3. Id(m) = <<type, m.key, m.write>> /\ m.key \in Accesses(t, m.write)
  BY <1>2
<1> QED
  BY <1>1, <1>3

\* A worker whose transaction is not between a request and its answers waits
\* for nothing.
LEMMA NothingAsked ==
  ASSUME Discipline, NEW t \in Txns,
         t \in Current => step[t] \in {Generated, Reserved, Decided}
  PROVE  pend[t] = {}
BY StepTypes DEF Discipline, WaitsOK, WaitOK

\* How far a transaction may move, and what may become of it on the way.
LEMMA MovesSteps ==
  ASSUME Discipline, NEW t \in Txns, NEW from, NEW to \in Generated..Decided,
         Moves(t, from, to), from < to, UNCHANGED <<batch, phase, prog>>,
         \A u \in Txns : u # t => outcome'[u] = outcome[u],
         phase = "READ" => to <= Reserved \/ outcome'[t] = "no_retry",
         phase = "COMMIT" => to >= Reserved,
         phase # "DONE",
         outcome'[t] = "none" <=> to # Decided,
         outcome'[t] = "no_retry" => prog[t].rollback,
         outcome'[t] # "no_retry" => ~prog[t].rollback
  PROVE  StepsOK'
<1>0. TypeOK /\ StepsOK
  BY DEF Discipline
<1>1. t \in Current /\ BatchOf[t] = batch /\ step'[t] = to
      /\ \A u \in Txns : u # t => step'[u] = step[u]
  BY <1>0 DEF Moves, Current, TypeOK
<1>2. Current' = Current /\ batch \in Nat /\ \A u \in Txns : BatchOf[u] \in Nat
  BY <1>0, BatchAssumption DEF Current, TypeOK
<1>3. ASSUME NEW u \in Txns
      PROVE  (/\ BatchOf[u] < batch => step[u] = Decided
              /\ BatchOf[u] > batch => step[u] = Generated
              /\ u \in Current =>
                   /\ phase = "READ" => step[u] \in Generated..Reserved \/ outcome[u] = "no_retry"
                   /\ phase = "COMMIT" => step[u] \in Reserved..Decided
                   /\ phase = "DONE" => step[u] = Decided
              /\ outcome[u] = "none" <=> step[u] # Decided
              /\ outcome[u] = "no_retry" => prog[u].rollback
              /\ step[u] # Generated /\ outcome[u] # "no_retry" => ~prog[u].rollback)'
  <2>1. CASE u # t
    BY <1>0, <1>1, <1>2, <2>1 DEF StepsOK
  <2>2. CASE u = t
    <3>1. to \in Generated..Decided /\ (phase = "READ" => to \in Generated..Reserved \/ outcome'[t] = "no_retry")
          /\ (phase = "COMMIT" => to \in Reserved..Decided)
      BY StepTypes
    <3>2. ~(BatchOf[u] < batch) /\ ~(BatchOf[u] > batch)
      BY <1>1, <1>2, <2>2
    <3> QED
      BY <1>1, <1>2, <2>2, <3>1, <3>2
  <2> QED
    BY <2>1, <2>2
<1> QED
  BY <1>3 DEF StepsOK

\* The others wait for what they have waited for, and so does the one that
\* moves, for what it has just asked.
LEMMA MovesWaits ==
  ASSUME Discipline, NEW t \in Txns, NEW from, NEW to,
         Moves(t, from, to), UNCHANGED <<batch, phase, prog>>,
         \A u \in Txns : u # t => pend'[u] = pend[u],
         \A id \in pend'[t] : /\ id[2] \in Accesses(t, id[3])
                              /\ \/ id[1] = "SEARCH" /\ phase = "READ" /\ to = Executed
                                 \/ id[1] = "CHECK" /\ phase = "COMMIT" /\ to = Analyzed
  PROVE  WaitsOK'
<1>0. TypeOK /\ WaitsOK
  BY DEF Discipline
<1>1. t \in Current /\ step'[t] = to /\ \A u \in Txns : u # t => step'[u] = step[u]
  BY <1>0 DEF Moves, TypeOK
<1>2. Current' = Current /\ \A u, write : Accesses(u, write)' = Accesses(u, write)
  BY ProgramsFixed DEF Current
<1>3. ASSUME NEW u \in Txns, NEW id \in pend'[u] PROVE WaitOK(u, id)'
  <2>1. CASE u # t
    BY <1>0, <1>1, <1>2, <1>3, <2>1 DEF WaitsOK, WaitOK
  <2>2. CASE u = t
    BY <1>1, <1>2, <1>3, <2>2 DEF WaitOK
  <2> QED
    BY <2>1, <2>2
<1> QED
  BY <1>3 DEF WaitsOK

\* At the start nothing is in flight.
LEMMA DisciplineInit == Init => Discipline
<1> SUFFICES ASSUME Init PROVE Discipline
  OBVIOUS
<1>1. TypeOK
  BY TypeInit
<1>2. \A c \in Channels : Len(chan[c]) = 0
  BY DEF Init
<1>3. \A c \in Channels : 1..Len(chan[c]) = {}
  BY <1>2
<1>4. MessagesOK /\ NoDuplicates
  BY <1>3 DEF MessagesOK, NoDuplicates
<1>5. WaitsOK
  BY DEF Init, WaitsOK
<1>6. StepsOK
  <2>1. ASSUME NEW t \in Txns
        PROVE  /\ step[t] = Generated /\ outcome[t] = "none" /\ ~(BatchOf[t] < batch)
               /\ phase = "READ" /\ Generated # Decided /\ Generated \in Generated..Reserved
    <3>1. BatchOf[t] \in 1..NBatches /\ batch = 1
      BY BatchAssumption DEF Init
    <3> QED
      BY <3>1, StepTypes DEF Init
  <2> QED
    BY <2>1 DEF StepsOK
<1> QED
  BY <1>1, <1>4, <1>5, <1>6 DEF Discipline

\* The workers keep to the discipline.
LEMMA WorkDiscipline ==
  ASSUME Discipline, NEW t \in Txns, Work(t)
  PROVE  MessagesOK' /\ NoDuplicates' /\ WaitsOK' /\ StepsOK'
<1>0. TypeOK /\ MessagesOK /\ NoDuplicates /\ WaitsOK /\ StepsOK
  BY DEF Discipline
<1>1. /\ UNCHANGED <<batch, phase, prog, lateReserve, lateWrite>>
      /\ \/ RolledBack(t) \/ HasRead(t) \/ ReservesNothing(t) \/ Reserves(t)
         \/ AnalyzesNothing(t) \/ Commits(t) \/ Aborts(t)
         \/ \E asked \in SUBSET Reads(t) : Analyzes(t, asked)
  BY <1>0, WorkShape
<1>2. ASSUME UNCHANGED <<pend, chan>>,
             \A u \in Txns : outcome[u] = "committed" => outcome'[u] = "committed"
      PROVE MessagesOK' /\ NoDuplicates'
  BY <1>0, <1>1, <1>2, PositionTypes
  DEF MessagesOK, NoDuplicates, MessageOK, Accesses, Reads, Writes
<1>3. ASSUME t \in Current, step[t] \in {Generated, Reserved} \/ pend[t] = {}
      PROVE  pend[t] = {}
  BY <1>3, NothingAsked
<1>4. /\ "SEARCH" \in Types /\ "RESERVE" \in Types /\ "CHECK" \in Types /\ "WRITE" \in Types
      /\ {} \in SUBSET Reads(t) /\ {} \in SUBSET Writes(t)
      /\ Reads(t) \in SUBSET Reads(t) /\ Writes(t) \in SUBSET Writes(t)
  BY DEF Types
<1>5. /\ Generated \in Generated..Decided /\ Executed \in Generated..Decided
      /\ Reserved \in Generated..Decided /\ Analyzed \in Generated..Decided
      /\ Decided \in Generated..Decided /\ Executed <= Reserved
      /\ Reserved <= Reserved /\ Analyzed >= Reserved /\ Decided >= Reserved
      /\ Generated < Executed /\ Generated < Decided /\ Executed < Reserved
      /\ Reserved < Analyzed /\ Analyzed < Decided
      /\ Executed # Decided /\ Reserved # Decided /\ Analyzed # Decided
      /\ Generated # Decided /\ Executed # Generated /\ Reserved # Generated
      /\ Analyzed # Generated
  BY StepTypes
<1>6. (step[t] # Decided => outcome[t] = "none")
      /\ (step[t] \notin {Generated, Decided} => ~prog[t].rollback)
  BY <1>0 DEF StepsOK
<1>7. ASSUME RolledBack(t) PROVE MessagesOK' /\ NoDuplicates' /\ WaitsOK' /\ StepsOK'
  <2>1. /\ phase = "READ" /\ Moves(t, Generated, Decided) /\ prog[t].rollback
        /\ pend[t] = {} /\ t \in Current /\ step[t] = Generated
    BY <1>3, <1>7 DEF RolledBack, Moves
  <2>2. /\ UNCHANGED <<pend, chan>> /\ outcome'[t] = "no_retry" /\ outcome[t] # "committed"
        /\ \A u \in Txns : u # t => outcome'[u] = outcome[u]
    BY <1>0, <1>5, <1>6, <1>7, <2>1 DEF RolledBack, TypeOK
  <2>3. WaitsOK'
    BY <1>1, <2>1, <2>2, MovesWaits
  <2>4. StepsOK'
    BY <1>1, <1>5, <2>1, <2>2, MovesSteps
  <2> QED
    BY <1>2, <2>2, <2>3, <2>4
<1>8. ASSUME HasRead(t) PROVE MessagesOK' /\ NoDuplicates' /\ WaitsOK' /\ StepsOK'
  <2>1. /\ phase = "READ" /\ Moves(t, Generated, Executed) /\ ~prog[t].rollback
        /\ pend[t] = {} /\ t \in Current /\ step[t] = Generated /\ outcome' = outcome
        /\ Sends("SEARCH", t, Reads(t), {})
    BY <1>3, <1>8 DEF HasRead, Moves
  <2>2. /\ \A u \in Txns : u # t => pend'[u] = pend[u]
        /\ pend'[t] = Ids(Asked("SEARCH", t, Reads(t), {}))
    BY <1>0, <1>8, <2>1 DEF HasRead, Waits, TypeOK
  <2>3. \A id \in pend'[t] : id[1] = "SEARCH" /\ id[2] \in Accesses(t, id[3])
    BY <1>0, <1>4, <2>2, AskedIds
  <2>4. WaitsOK'
    BY <1>1, <2>1, <2>2, <2>3, MovesWaits
  <2>5. StepsOK'
    BY <1>1, <1>5, <1>6, <2>1, MovesSteps
  <2>6. MessagesOK' /\ NoDuplicates'
    <3>1. \A u \in Txns : pend[u] \subseteq pend'[u]
      BY <2>1, <2>2
    <3> QED
      BY <1>0, <1>1, <1>4, <2>1, <2>2, <3>1, SendMessages
  <2> QED
    BY <2>4, <2>5, <2>6
<1>9. ASSUME ReservesNothing(t) PROVE MessagesOK' /\ NoDuplicates' /\ WaitsOK' /\ StepsOK'
  <2>1. /\ phase = "READ" /\ Moves(t, Executed, Reserved) /\ pend[t] = {} /\ t \in Current
        /\ step[t] = Executed /\ UNCHANGED <<pend, chan, outcome>>
    BY <1>9 DEF ReservesNothing, Moves
  <2>2. WaitsOK'
    BY <1>1, <2>1, MovesWaits
  <2>3. StepsOK'
    BY <1>1, <1>5, <1>6, <2>1, MovesSteps
  <2> QED
    BY <1>2, <2>1, <2>2, <2>3
<1>10. ASSUME Reserves(t) PROVE MessagesOK' /\ NoDuplicates' /\ WaitsOK' /\ StepsOK'
  <2>1. /\ phase = "READ" /\ Moves(t, Executed, Reserved) /\ pend[t] = {} /\ t \in Current
        /\ step[t] = Executed /\ UNCHANGED <<pend, outcome>>
        /\ Sends("RESERVE", t, Reads(t), Writes(t))
    BY <1>10 DEF Reserves, Moves
  <2>2. WaitsOK'
    BY <1>1, <2>1, MovesWaits
  <2>3. StepsOK'
    BY <1>1, <1>5, <1>6, <2>1, MovesSteps
  <2>4. MessagesOK' /\ NoDuplicates'
    BY <1>0, <1>1, <1>4, <2>1, SendMessages
  <2> QED
    BY <2>2, <2>3, <2>4
<1>11. ASSUME AnalyzesNothing(t) PROVE MessagesOK' /\ NoDuplicates' /\ WaitsOK' /\ StepsOK'
  <2>1. /\ phase = "COMMIT" /\ Moves(t, Reserved, Analyzed) /\ t \in Current
        /\ pend[t] = {}
        /\ step[t] = Reserved /\ UNCHANGED <<pend, chan, outcome>>
    BY <1>3, <1>11 DEF AnalyzesNothing, Moves
  <2>2. WaitsOK'
    BY <1>1, <2>1, MovesWaits
  <2>3. StepsOK'
    BY <1>1, <1>5, <1>6, <2>1, MovesSteps
  <2> QED
    BY <1>2, <2>1, <2>2, <2>3
<1>12. ASSUME NEW asked \in SUBSET Reads(t), Analyzes(t, asked)
       PROVE  MessagesOK' /\ NoDuplicates' /\ WaitsOK' /\ StepsOK'
  <2>1. /\ phase = "COMMIT" /\ Moves(t, Reserved, Analyzed) /\ t \in Current
        /\ pend[t] = {} /\ step[t] = Reserved /\ outcome' = outcome
        /\ Sends("CHECK", t, asked, Writes(t))
    BY <1>3, <1>12 DEF Analyzes, Moves
  <2>2. /\ \A u \in Txns : u # t => pend'[u] = pend[u]
        /\ pend'[t] = Ids(Asked("CHECK", t, asked, Writes(t)))
    BY <1>0, <1>12, <2>1 DEF Analyzes, Waits, TypeOK
  <2>3. \A id \in pend'[t] : id[1] = "CHECK" /\ id[2] \in Accesses(t, id[3])
    BY <1>0, <1>4, <2>2, AskedIds
  <2>4. WaitsOK'
    BY <1>1, <2>1, <2>2, <2>3, MovesWaits
  <2>5. StepsOK'
    BY <1>1, <1>5, <1>6, <2>1, MovesSteps
  <2>6. MessagesOK' /\ NoDuplicates'
    <3>1. \A u \in Txns : pend[u] \subseteq pend'[u]
      BY <2>1, <2>2
    <3> QED
      BY <1>0, <1>1, <1>4, <2>1, <2>2, <3>1, SendMessages
  <2> QED
    BY <2>4, <2>5, <2>6
<1>13. ASSUME Commits(t) PROVE MessagesOK' /\ NoDuplicates' /\ WaitsOK' /\ StepsOK'
  <2>1. /\ phase = "COMMIT" /\ Moves(t, Analyzed, Decided) /\ pend[t] = {} /\ t \in Current
        /\ step[t] = Analyzed /\ pend' = pend
        /\ Sends("WRITE", t, {}, Writes(t))
    BY <1>13 DEF Commits, Moves
  <2>2. /\ outcome'[t] = "committed"
        /\ \A u \in Txns : u # t => outcome'[u] = outcome[u]
    BY <1>0, <1>13 DEF Commits, TypeOK
  <2>3. WaitsOK'
    BY <1>1, <2>1, MovesWaits
  <2>4. StepsOK'
    BY <1>1, <1>5, <1>6, <2>1, <2>2, MovesSteps
  <2>5. MessagesOK' /\ NoDuplicates'
    BY <1>0, <1>1, <1>4, <2>1, <2>2, SendMessages
  <2> QED
    BY <2>3, <2>4, <2>5
<1>14. ASSUME Aborts(t) PROVE MessagesOK' /\ NoDuplicates' /\ WaitsOK' /\ StepsOK'
  <2>1. /\ phase = "COMMIT" /\ Moves(t, Analyzed, Decided) /\ pend[t] = {} /\ t \in Current
        /\ step[t] = Analyzed /\ UNCHANGED <<pend, chan>>
    BY <1>14 DEF Aborts, Moves
  <2>2. /\ outcome'[t] = "aborted" /\ outcome[t] = "none"
        /\ \A u \in Txns : u # t => outcome'[u] = outcome[u]
    BY <1>0, <1>5, <1>6, <1>14, <2>1 DEF Aborts, TypeOK
  <2>3. WaitsOK'
    BY <1>1, <2>1, MovesWaits
  <2>4. StepsOK'
    BY <1>1, <1>5, <1>6, <2>1, <2>2, MovesSteps
  <2> QED
    BY <1>2, <2>1, <2>2, <2>3, <2>4
<1> QED
  BY <1>1, <1>7, <1>8, <1>9, <1>10, <1>11, <1>12, <1>13, <1>14

\* So do the handlers.
LEMMA HandlerDiscipline ==
  ASSUME Discipline, NEW c \in Channels, Process(c)
  PROVE  MessagesOK' /\ NoDuplicates' /\ WaitsOK' /\ StepsOK'
<1> DEFINE m == chan[c][1]
<1>0. TypeOK /\ MessagesOK /\ NoDuplicates /\ WaitsOK /\ StepsOK
  BY DEF Discipline
<1>1. /\ chan[c] # <<>> /\ m \in Message /\ m.txn \in Txns /\ m.key \in Keys
      /\ m.val \in Txns \cup {NoTxn}
      /\ UNCHANGED <<batch, phase, prog, step, outcome, lateReserve, lateWrite>>
      /\ \/ Searched(c, m) \/ Seen(c, m) \/ ReservedAt(c, m)
         \/ Checked(c, m) \/ Told(c, m) \/ Written(c, m)
  BY <1>0, HandlerShape
<1>2. \E answers :
        /\ Taken(c, answers)
        /\ \A a \in answers : /\ a.txn = m.txn /\ Id(a) = Id(m)
                              /\ a.answer /\ ~m.answer /\ Counted(m)
        /\ \/ pend' = pend
           \/ /\ answers = {} /\ Counted(m)
              /\ pend' = [pend EXCEPT ![m.txn] = @ \ {Id(m)}]
  <2>0. ASSUME NEW val \in Txns \cup {NoTxn}, NEW found \in SUBSET Flags
        PROVE  /\ Answer(m, val, found).txn = m.txn /\ Id(Answer(m, val, found)) = Id(m)
               /\ Answer(m, val, found).answer
    <3> HIDE DEF m
    <3> QED
      BY <1>1, AnswerFacts
  <2>1. CASE Searched(c, m)
    <3>1. db[m.key] \in Txns \cup {NoTxn} /\ {} \in SUBSET Flags
      BY <1>0, <1>1 DEF TypeOK
    <3> HIDE DEF m
    <3>2. /\ Answer(m, db[m.key], {}).txn = m.txn /\ Id(Answer(m, db[m.key], {})) = Id(m)
          /\ Answer(m, db[m.key], {}).answer
      BY <2>0, <3>1
    <3> QED
      BY <2>1, <3>2 DEF Searched, Counted
  <2>2. CASE Checked(c, m)
    <3>1. Found(m) \in SUBSET Flags /\ NoTxn \in Txns \cup {NoTxn}
      BY FlagTypes DEF Found
    <3> HIDE DEF m
    <3>2. /\ Answer(m, NoTxn, Found(m)).txn = m.txn /\ Id(Answer(m, NoTxn, Found(m))) = Id(m)
          /\ Answer(m, NoTxn, Found(m)).answer
      BY <2>0, <3>1
    <3> QED
      BY <2>2, <3>2 DEF Checked, Counted
  <2>3. CASE Seen(c, m) \/ ReservedAt(c, m) \/ Told(c, m) \/ Written(c, m)
    <3> HIDE DEF m
    <3>1. Taken(c, {}) /\ (pend' = pend \/ (Counted(m) /\ pend' = [pend EXCEPT ![m.txn] = @ \ {Id(m)}]))
      BY <2>3 DEF Seen, ReservedAt, Told, Written, Counted
    <3> QED
      BY <3>1
  <2> QED
    BY <1>1, <2>1, <2>2, <2>3
<1>3. MessagesOK' /\ NoDuplicates'
  BY <1>0, <1>1, <1>2, TakeMessages
<1>4. \A u \in Txns : pend'[u] \subseteq pend[u]
  <2> HIDE DEF m
  <2> QED
    BY <1>0, <1>1, <1>2 DEF TypeOK
<1>5. WaitsOK'
  BY <1>0, <1>1, <1>4 DEF WaitsOK, WaitOK, Current, Accesses, Reads, Writes
<1>6. StepsOK'
  BY <1>0, <1>1 DEF StepsOK, Current
<1> QED
  BY <1>3, <1>5, <1>6

\* At a barrier the workers wait for no answer.
LEMMA BarrierFacts ==
  ASSUME Discipline, EndRead \/ EndBatch
  PROVE  /\ \A t \in Txns : pend[t] = {}
         /\ \A m \in Flight : m.type \in {"RESERVE", "WRITE"}
         /\ UNCHANGED <<prog, step, seen, pend, flags, outcome, word, db, chan>>
         /\ Flight' = Flight
<1>0. TypeOK /\ MessagesOK /\ WaitsOK /\ StepsOK
  BY DEF Discipline
<1>1. UNCHANGED <<prog, step, seen, pend, flags, outcome, word, db, chan>>
  BY DEF EndRead, EndBatch
<1>2. ASSUME NEW t \in Current
      PROVE  \/ phase = "READ" /\ step[t] # Executed
             \/ phase = "COMMIT" /\ step[t] # Analyzed
  <2>1. t \in Txns /\ step[t] \in Generated..Decided
    BY <1>0 DEF Current, TypeOK
  <2>2. CASE EndRead
    BY <2>1, <2>2, StepTypes DEF EndRead
  <2>3. CASE EndBatch
    BY <2>1, <2>3, StepTypes DEF EndBatch
  <2> QED
    BY <2>2, <2>3
<1>3. \A t \in Txns : pend[t] = {}
  BY <1>0, <1>2 DEF WaitsOK, WaitOK
<1>4. ASSUME NEW m \in Flight PROVE m.type \in {"RESERVE", "WRITE"}
  BY <1>0, <1>3, FlightFacts DEF Counted, Types
<1>5. Flight' = Flight
  BY <1>1 DEF Flight
<1> QED
  BY <1>1, <1>3, <1>4, <1>5

\* Every step keeps to the discipline.
LEMMA DisciplineStep == Discipline /\ [Next]_vars => Discipline'
<1> SUFFICES ASSUME Discipline, [Next]_vars
             PROVE  MessagesOK' /\ NoDuplicates' /\ WaitsOK' /\ StepsOK'
  BY TypeStep DEF Discipline
<1>0. /\ TypeOK /\ MessagesOK /\ NoDuplicates /\ WaitsOK /\ StepsOK
      /\ batch \in Nat /\ \A t \in Txns : BatchOf[t] \in Nat /\ step[t] \in Generated..Decided
  BY BatchAssumption DEF Discipline, TypeOK
<1>1. ASSUME NEW t \in Txns, Work(t)
      PROVE  MessagesOK' /\ NoDuplicates' /\ WaitsOK' /\ StepsOK'
  BY <1>1, WorkDiscipline
<1>2. ASSUME NEW c \in Channels, Process(c)
      PROVE  MessagesOK' /\ NoDuplicates' /\ WaitsOK' /\ StepsOK'
  BY <1>2, HandlerDiscipline
<1>3. ASSUME EndRead \/ EndBatch, batch' >= batch, batch' \in Nat
      PROVE  MessagesOK' /\ NoDuplicates' /\ WaitsOK'
  <2>1. /\ \A t \in Txns : pend[t] = {}
        /\ UNCHANGED <<prog, step, seen, pend, flags, outcome, word, db, chan>>
    BY <1>3, BarrierFacts
  <2>2. NoDuplicates'
    BY <1>0, <2>1 DEF NoDuplicates
  <2>3. WaitsOK'
    BY <2>1 DEF WaitsOK
  <2>4. ASSUME NEW c \in Channels, NEW i \in 1..Len(chan[c])
        PROVE  MessageOK(c, chan[c][i])'
    <3>1. MessageOK(c, chan[c][i]) /\ BatchOf[chan[c][i].txn] \in Nat
      BY <1>0, PositionTypes DEF MessagesOK
    <3>2. BatchOf[chan[c][i].txn] <= batch'
      BY <1>0, <1>3, <3>1 DEF MessageOK
    <3> QED
      BY <2>1, <3>1, <3>2 DEF MessageOK, Accesses, Reads, Writes
  <2>5. MessagesOK'
    BY <2>1, <2>4 DEF MessagesOK
  <2> QED
    BY <2>2, <2>3, <2>5
<1>4. CASE EndRead
  <2>1. /\ phase = "READ" /\ phase' = "COMMIT" /\ batch' = batch /\ Current' = Current
        /\ \A t \in Current : step[t] >= Reserved
        /\ UNCHANGED <<prog, step, outcome>>
    BY <1>4 DEF EndRead, Current
  <2>2. \A t \in Current : t \in Txns /\ step[t] \in Reserved..Decided
    BY <1>0, <2>1, StepTypes DEF Current
  <2>3. StepsOK'
    BY <1>0, <2>1, <2>2 DEF StepsOK
  <2> QED
    BY <1>0, <1>3, <1>4, <2>1, <2>3
<1>5. CASE EndBatch
  <2>1. /\ phase = "COMMIT" /\ UNCHANGED <<prog, step, outcome>>
        /\ \A t \in Current : step[t] = Decided
        /\ \/ batch' = batch + 1 /\ phase' = "READ"
           \/ batch' = batch /\ phase' = "DONE"
    BY <1>5 DEF EndBatch
  <2>2. \A t \in Txns : BatchOf[t] <= batch => step[t] = Decided
    BY <1>0, <2>1 DEF StepsOK, Current
  <2>3. CASE batch' = batch + 1 /\ phase' = "READ"
    <3>1. \A t \in Txns : BatchOf[t] > batch => step[t] = Generated
      BY <1>0 DEF StepsOK
    <3>2. Generated \in Generated..Reserved
      BY StepTypes
    <3>3. \A t \in Txns : /\ BatchOf[t] < batch' => BatchOf[t] <= batch
                          /\ BatchOf[t] >= batch' => BatchOf[t] > batch
                          /\ t \in Current' => BatchOf[t] > batch
      BY <1>0, <2>3 DEF Current
    <3>4. StepsOK'
      BY <1>0, <2>1, <2>2, <2>3, <3>1, <3>2, <3>3 DEF StepsOK
    <3> QED
      BY <1>0, <1>3, <1>5, <2>3, <3>4
  <2>4. CASE batch' = batch /\ phase' = "DONE"
    <3>1. StepsOK'
      BY <1>0, <2>1, <2>2, <2>4 DEF StepsOK, Current
    <3> QED
      BY <1>0, <1>3, <1>5, <2>4, <3>1
  <2> QED
    BY <2>1, <2>3, <2>4
<1>6. CASE UNCHANGED vars
  <2>1. UNCHANGED <<batch, phase, prog, step, pend, outcome, chan>>
    BY <1>6 DEF vars
  <2> QED
    BY <1>0, <2>1
    DEF MessagesOK, NoDuplicates, MessageOK, WaitsOK, WaitOK, StepsOK, Current,
        Accesses, Reads, Writes
<1> QED
  BY <1>1, <1>2, <1>4, <1>5, <1>6 DEF Next

\* Every message is on its way between the workers concerned, no counted one
\* is in flight twice, and who waits is between its requests and the answers:
\* the counting of pendingResponses in AriaExecutor.h and AriaMessage.h.
THEOREM DisciplineHolds == Spec => []Discipline
<1>1. Init => Discipline
  BY DisciplineInit
<1>2. Discipline /\ [Next]_vars => Discipline'
  BY DisciplineStep
<1> QED
  BY <1>1, <1>2, PTL DEF Spec

-----------------------------------------------------------------------------
(* The snapshot: nobody writes while a batch reads, unless a write is late. *)

\* The requests of one transaction, without their shape.
LEMMA AskedTells ==
  ASSUME TypeOK, NEW t \in Txns, NEW type \in Types,
         NEW r \in SUBSET Reads(t), NEW w \in SUBSET Writes(t)
  PROVE  \A m \in Asked(type, t, r, w) :
           /\ m.txn = t /\ m.type = type /\ ~m.answer
           /\ m.write \in BOOLEAN /\ m.key \in Keys
           /\ m.key \in Accesses(t, m.write)
<1>1. \A n \in Asked(type, t, r, w) :
         /\ n = [type |-> type, answer |-> FALSE, txn |-> t, key |-> n.key,
                 write |-> n.write, val |-> NoTxn, found |-> {}]
         /\ n.txn = t /\ n.type = type /\ n.answer = FALSE
         /\ n.write \in BOOLEAN /\ n.key \in Keys
         /\ n.key \in Remote(t, IF n.write THEN w ELSE r)
         /\ n.key \in Accesses(t, n.write) /\ Home[t] # Owner[n.key]
         /\ Id(n) = <<type, n.key, n.write>>
         /\ Route(n) = <<Home[t], Owner[n.key], WorkerOf[t]>>
         /\ Route(n) \in Channels
  BY AskedShape, Zenon
<1> QED
  BY <1>1

\* Who reads a remote row waits for it.
LEMMA RemoteWaits ==
  ASSUME TypeOK, NEW t \in Txns, NEW type, NEW r, NEW w, Waits(type, t, r, w)
  PROVE  /\ \A u \in Txns : u # t => pend'[u] = pend[u]
         /\ pend[t] \subseteq pend'[t]
         /\ \A write \in BOOLEAN : \A k \in Remote(t, IF write THEN w ELSE r) :
              <<type, k, write>> \in pend'[t]
<1>1. pend' = [pend EXCEPT ![t] = pend[t] \cup Ids(Asked(type, t, r, w))]
  BY DEF Waits
<1>2. /\ \A u \in Txns : u # t => pend'[u] = pend[u]
      /\ pend'[t] = pend[t] \cup Ids(Asked(type, t, r, w))
  BY <1>1 DEF TypeOK
<1>3. ASSUME NEW write \in BOOLEAN, NEW k \in Remote(t, IF write THEN w ELSE r)
      PROVE  <<type, k, write>> \in Ids(Asked(type, t, r, w))
  <2>1. PICK m \in Asked(type, t, r, w) : IsRequest(m, type, t, k, write)
    BY <1>3, AskedMembers
  <2>2. Id(m) = <<type, k, write>>
    BY <2>1 DEF Id, IsRequest
  <2> QED
    BY <2>2 DEF Ids
<1> QED
  BY <1>2, <1>3

\* Searches are in flight while a batch reads, checks while it commits.
LEMMA CountedFacts ==
  ASSUME Discipline, NEW m \in Flight
  PROVE  /\ m.type = "SEARCH" =>
              phase = "READ" /\ m.txn \in Current /\ step[m.txn] = Executed
         /\ m.type = "CHECK" =>
              phase = "COMMIT" /\ m.txn \in Current /\ step[m.txn] = Analyzed
<1>1. TypeOK /\ MessagesOK /\ WaitsOK
  BY DEF Discipline
<1>2. m.txn \in Txns /\ (Counted(m) => Id(m) \in pend[m.txn])
  BY <1>1, FlightFacts
<1>3. Counted(m) => WaitOK(m.txn, Id(m))
  BY <1>1, <1>2 DEF WaitsOK
<1> QED
  BY <1>3 DEF Counted, WaitOK, Id

\* Nothing is late at the start.
LEMMA SnapshotInit == Init => SnapshotTaken
<1> SUFFICES ASSUME Init PROVE SnapshotTaken
  OBVIOUS
<1>1. \A t \in Txns : step[t] \notin {Executed, Reserved}
  BY StepTypes DEF Init
<1>2. \A c \in Channels : 1..Len(chan[c]) = {}
  BY DEF Init
<1>3. Flight = {}
  BY <1>2 DEF Flight
<1> QED
  BY <1>1, <1>3 DEF SnapshotTaken, Current

\* The workers read the store or ask for what it holds, and they write in the
\* COMMIT phase only.
LEMMA SnapshotWork ==
  ASSUME Discipline, SnapshotTaken, NEW t \in Txns, Work(t)
  PROVE  SnapshotTaken'
<1>0. TypeOK /\ MessagesOK
  BY DEF Discipline
<1>1. /\ UNCHANGED <<batch, phase, prog, lateReserve, lateWrite>>
      /\ \/ RolledBack(t) \/ HasRead(t) \/ ReservesNothing(t) \/ Reserves(t)
         \/ AnalyzesNothing(t) \/ Commits(t) \/ Aborts(t)
         \/ \E asked \in SUBSET Reads(t) : Analyzes(t, asked)
  BY <1>0, WorkShape
<1>2. SUFFICES ASSUME ~lateWrite
               PROVE  /\ phase = "READ" =>
                           \A u \in Current : step'[u] \in {Executed, Reserved} =>
                             \A k \in Reads(u) :
                               seen'[u][k] = db'[k] \/ <<"SEARCH", k, FALSE>> \in pend'[u]
                      /\ \A m \in Flight' :
                           /\ m.type = "SEARCH" /\ m.answer => m.val = db'[m.key]
                           /\ m.type = "WRITE" => phase = "COMMIT" /\ m.txn \in Current
  <2>1. Current' = Current /\ \A u : Reads(u)' = Reads(u)
    BY <1>1 DEF Current, Reads
  <2> QED
    BY <1>1, <1>2, <2>1 DEF SnapshotTaken
<1>3. /\ phase = "READ" =>
           \A u \in Current : step[u] \in {Executed, Reserved} =>
             \A k \in Reads(u) :
               seen[u][k] = db[k] \/ <<"SEARCH", k, FALSE>> \in pend[u]
      /\ \A m \in Flight :
           /\ m.type = "SEARCH" /\ m.answer => m.val = db[m.key]
           /\ m.type = "WRITE" => phase = "COMMIT" /\ m.txn \in Current
  BY <1>2 DEF SnapshotTaken
<1>4. \A u \in Current : u \in Txns
  BY DEF Current
<1>5. ASSUME NEW from, NEW to, Moves(t, from, to)
      PROVE  t \in Current /\ step[t] = from /\ step'[t] = to
             /\ \A u \in Txns : u # t => step'[u] = step[u]
  BY <1>0, <1>5 DEF Moves, TypeOK
<1>6. ASSUME chan' = chan PROVE Flight' = Flight
  BY <1>6 DEF Flight
<1>7. CASE RolledBack(t) \/ ReservesNothing(t) \/ AnalyzesNothing(t) \/ Aborts(t)
  <2>1. UNCHANGED <<seen, pend, db>> /\ Flight' = Flight
    BY <1>6, <1>7 DEF RolledBack, ReservesNothing, AnalyzesNothing, Aborts
  <2>2. \A u \in Txns : u # t => step'[u] = step[u]
    BY <1>5, <1>7 DEF RolledBack, ReservesNothing, AnalyzesNothing, Aborts
  <2>3. phase = "READ" =>
          step'[t] = Decided \/ (step[t] = Executed /\ step'[t] = Reserved)
    BY <1>5, <1>7 DEF RolledBack, ReservesNothing, AnalyzesNothing, Aborts
  <2>4. ASSUME phase = "READ", NEW u \in Current, step'[u] \in {Executed, Reserved}
        PROVE  step[u] \in {Executed, Reserved}
    BY <1>4, <2>2, <2>3, <2>4, StepTypes
  <2> QED
    BY <1>3, <2>1, <2>4
<1>8. CASE Reserves(t)
  <2>1. UNCHANGED <<seen, pend, db>> /\ Moves(t, Executed, Reserved)
        /\ Flight' = Flight \cup Asked("RESERVE", t, Reads(t), Writes(t))
    BY <1>8 DEF Reserves, Sends
  <2>2. \A m \in Flight' : m \in Flight \/ m.type = "RESERVE"
    BY <1>0, <2>1, AskedTells DEF Types
  <2>3. /\ \A u \in Txns : u # t => step'[u] = step[u]
        /\ step[t] = Executed
    BY <1>5, <2>1
  <2> QED
    BY <1>3, <1>4, <2>1, <2>2, <2>3
<1>9. CASE \E asked \in SUBSET Reads(t) : Analyzes(t, asked)
  <2>1. PICK asked \in SUBSET Reads(t) : Analyzes(t, asked)
    BY <1>9
  <2>2. /\ phase = "COMMIT" /\ db' = db
        /\ Flight' = Flight \cup Asked("CHECK", t, asked, Writes(t))
    BY <2>1 DEF Analyzes, Sends
  <2>3. \A m \in Flight' : m \in Flight \/ m.type = "CHECK"
    BY <1>0, <2>2, AskedTells DEF Types
  <2> QED
    BY <1>3, <2>2, <2>3
<1>10. CASE Commits(t)
  <2>1. /\ phase = "COMMIT" /\ t \in Current
        /\ Flight' = Flight \cup Asked("WRITE", t, {}, Writes(t))
    BY <1>5, <1>10 DEF Commits, Sends
  <2>2. \A m \in Flight' : m \in Flight \/ (m.type = "WRITE" /\ m.txn = t)
    BY <1>0, <2>1, AskedTells DEF Types
  <2>3. \A m \in Flight : m.type # "SEARCH"
    BY <2>1, CountedFacts
  <2> QED
    BY <1>3, <2>1, <2>2, <2>3
<1>11. CASE HasRead(t)
  <2>1. /\ phase = "READ" /\ db' = db /\ Moves(t, Generated, Executed)
        /\ Flight' = Flight \cup Asked("SEARCH", t, Reads(t), {})
        /\ Waits("SEARCH", t, Reads(t), {})
    BY <1>11 DEF HasRead, Sends
  <2>2. \A m \in Flight' : m \in Flight \/ (m.type = "SEARCH" /\ ~m.answer)
    BY <1>0, <2>1, AskedTells DEF Types
  <2>3. /\ \A u \in Txns : u # t => pend'[u] = pend[u] /\ step'[u] = step[u]
        /\ \A k \in Remote(t, Reads(t)) : <<"SEARCH", k, FALSE>> \in pend'[t]
    BY <1>0, <1>5, <2>1, RemoteWaits
  <2>4. /\ \A u \in Txns : u # t => seen'[u] = seen[u]
        /\ \A k \in Local(t, Reads(t)) : seen'[t][k] = db[k]
    <3>1. Reads(t) \subseteq Keys
      BY <1>0, AccessTypes
    <3> QED
      BY <1>0, <1>11, <3>1 DEF HasRead, Local, TypeOK
  <2>5. \A k \in Reads(t) : k \in Local(t, Reads(t)) \/ k \in Remote(t, Reads(t))
    BY DEF Local, Remote
  <2> QED
    BY <1>3, <1>4, <2>1, <2>2, <2>3, <2>4, <2>5
<1> QED
  BY <1>1, <1>7, <1>8, <1>9, <1>10, <1>11

\* The handlers tell what the store holds, and write in the COMMIT phase only.
LEMMA SnapshotHandler ==
  ASSUME Discipline, SnapshotTaken, NEW c \in Channels, Process(c)
  PROVE  SnapshotTaken'
<1> DEFINE m == chan[c][1]
<1>0. TypeOK /\ MessagesOK
  BY DEF Discipline
<1>1. /\ chan[c] # <<>> /\ m \in Message /\ m.txn \in Txns /\ m.key \in Keys
      /\ m.val \in Txns \cup {NoTxn} /\ m \in Flight /\ m.found \in SUBSET Flags
      /\ UNCHANGED <<batch, phase, prog, step, outcome, lateReserve, lateWrite>>
      /\ \/ Searched(c, m) \/ Seen(c, m) \/ ReservedAt(c, m)
         \/ Checked(c, m) \/ Told(c, m) \/ Written(c, m)
  BY <1>0, HandlerShape
<1> HIDE DEF m
<1>2. SUFFICES ASSUME ~lateWrite
               PROVE  /\ phase = "READ" =>
                           \A u \in Current : step[u] \in {Executed, Reserved} =>
                             \A k \in Reads(u) :
                               seen'[u][k] = db'[k] \/ <<"SEARCH", k, FALSE>> \in pend'[u]
                      /\ \A n \in Flight' :
                           /\ n.type = "SEARCH" /\ n.answer => n.val = db'[n.key]
                           /\ n.type = "WRITE" => phase = "COMMIT" /\ n.txn \in Current
  <2>1. Current' = Current /\ \A u : Reads(u)' = Reads(u)
    BY <1>1 DEF Current, Reads
  <2> QED
    BY <1>1, <1>2, <2>1 DEF SnapshotTaken
<1>3. /\ phase = "READ" =>
           \A u \in Current : step[u] \in {Executed, Reserved} =>
             \A k \in Reads(u) :
               seen[u][k] = db[k] \/ <<"SEARCH", k, FALSE>> \in pend[u]
      /\ \A n \in Flight :
           /\ n.type = "SEARCH" /\ n.answer => n.val = db[n.key]
           /\ n.type = "WRITE" => phase = "COMMIT" /\ n.txn \in Current
  BY <1>2 DEF SnapshotTaken
<1>4. \A u \in Current : u \in Txns
  BY DEF Current
<1>5. \A answers : Taken(c, answers) => Flight' \subseteq Flight \cup answers
  BY FlightTaken
<1>6. CASE Searched(c, m)
  <2>1. db[m.key] \in Txns \cup {NoTxn} /\ {} \in SUBSET Flags
    BY <1>0, <1>1 DEF TypeOK
  <2>2. /\ Answer(m, db[m.key], {}).type = m.type
        /\ Answer(m, db[m.key], {}).key = m.key
        /\ Answer(m, db[m.key], {}).val = db[m.key]
    <3>1. ASSUME NEW val \in Txns \cup {NoTxn}, NEW found \in SUBSET Flags
          PROVE  /\ Answer(m, val, found).type = m.type
                 /\ Answer(m, val, found).key = m.key
                 /\ Answer(m, val, found).val = val
      <4>1. m \in Message
        BY <1>1
      <4> QED
        BY <4>1, AnswerFacts
    <3> QED
      BY <2>1, <3>1
  <2>3. /\ m.type = "SEARCH" /\ UNCHANGED <<seen, pend, db>>
        /\ Flight' \subseteq Flight \cup {Answer(m, db[m.key], {})}
    BY <1>5, <1>6 DEF Searched
  <2> QED
    BY <1>3, <2>2, <2>3
<1>7. CASE Seen(c, m)
  <2>1. m.type = "SEARCH" /\ m.answer /\ db' = db /\ Flight' \subseteq Flight
    BY <1>5, <1>7 DEF Seen
  <2>2. m.val = db[m.key]
    BY <1>1, <1>3, <2>1
  <2>3. ASSUME NEW u \in Txns, NEW k \in Keys,
               seen[u][k] = db[k] \/ <<"SEARCH", k, FALSE>> \in pend[u]
        PROVE  seen'[u][k] = db[k] \/ <<"SEARCH", k, FALSE>> \in pend'[u]
    <3>1. CASE u = m.txn /\ k = m.key
      BY <1>0, <1>1, <1>7, <2>2, <3>1 DEF Seen, TypeOK
    <3>2. CASE u # m.txn
      BY <1>0, <1>1, <1>7, <2>3, <3>2 DEF Seen, TypeOK
    <3>3. CASE u = m.txn /\ k # m.key
      <4>1. seen'[u][k] = seen[u][k]
        BY <1>0, <1>1, <1>7, <3>3 DEF Seen, TypeOK
      <4>2. pend'[u] = pend[u] \ {Id(m)}
        BY <1>0, <1>1, <1>7, <3>3 DEF Seen, TypeOK
      <4>3. Id(m) # <<"SEARCH", k, FALSE>>
        BY <3>3 DEF Id
      <4> QED
        BY <2>3, <4>1, <4>2, <4>3
    <3> QED
      BY <3>1, <3>2, <3>3
  <2>4. \A u \in Current : Reads(u) \subseteq Keys
    BY <1>0, <1>4, AccessTypes
  <2> QED
    BY <1>3, <1>4, <2>1, <2>3, <2>4
<1>8. CASE ReservedAt(c, m)
  <2>1. UNCHANGED <<seen, pend, db>> /\ Flight' \subseteq Flight
    BY <1>5, <1>8 DEF ReservedAt
  <2> QED
    BY <1>3, <2>1
<1>9. CASE Checked(c, m)
  <2>1. Found(m) \in SUBSET Flags /\ NoTxn \in Txns \cup {NoTxn}
    BY FlagTypes DEF Found
  <2>2. Answer(m, NoTxn, Found(m)).type = m.type
    BY <1>1, <2>1, AnswerFacts
  <2>3. /\ m.type = "CHECK" /\ UNCHANGED <<seen, pend, db>>
        /\ Flight' \subseteq Flight \cup {Answer(m, NoTxn, Found(m))}
    BY <1>5, <1>9 DEF Checked
  <2> QED
    BY <1>3, <2>2, <2>3
<1>10. CASE Told(c, m)
  <2>1. m.type = "CHECK" /\ UNCHANGED <<seen, db>> /\ Flight' \subseteq Flight
    BY <1>5, <1>10 DEF Told
  <2>2. phase # "READ"
    BY <1>1, <2>1, CountedFacts
  <2> QED
    BY <1>3, <2>1, <2>2
<1>11. CASE Written(c, m)
  <2>1. m.type = "WRITE" /\ Flight' \subseteq Flight
    BY <1>5, <1>11 DEF Written
  <2>2. phase = "COMMIT"
    BY <1>1, <1>3, <2>1
  <2>3. \A n \in Flight : n.type # "SEARCH"
    BY <2>2, CountedFacts
  <2> QED
    BY <1>3, <2>1, <2>2, <2>3
<1> QED
  BY <1>1, <1>6, <1>7, <1>8, <1>9, <1>10, <1>11

\* A message in flight is in some queue.
LEMMA InFlightFacts ==
  ASSUME TypeOK, NEW type, ~InFlight(type)
  PROVE  \A m \in Flight : m.type # type
<1> SUFFICES ASSUME NEW m \in Flight PROVE m.type # type
  OBVIOUS
<1>1. PICK c \in Channels : \E i \in 1..Len(chan[c]) : m = chan[c][i]
  BY DEF Flight
<1>2. chan[c] \in Seq(Message)
  BY DEF TypeOK
<1> QED
  BY <1>1, <1>2 DEF InFlight

\* Every step keeps the snapshot.
LEMMA SnapshotStep == Discipline /\ SnapshotTaken /\ [Next]_vars => SnapshotTaken'
<1> SUFFICES ASSUME Discipline, SnapshotTaken, [Next]_vars
             PROVE  SnapshotTaken'
  OBVIOUS
<1>0. TypeOK /\ StepsOK /\ batch \in Nat /\ \A t \in Txns : BatchOf[t] \in Nat
  BY BatchAssumption DEF Discipline, TypeOK
<1>1. ASSUME NEW t \in Txns, Work(t) PROVE SnapshotTaken'
  BY <1>1, SnapshotWork
<1>2. ASSUME NEW c \in Channels, Process(c) PROVE SnapshotTaken'
  BY <1>2, SnapshotHandler
<1>3. CASE EndRead
  <2>1. /\ phase = "READ" /\ phase' = "COMMIT" /\ batch' = batch /\ lateWrite' = lateWrite
    BY <1>3 DEF EndRead
  <2>2. Flight' = Flight /\ db' = db
    BY <1>3, BarrierFacts
  <2> QED
    BY <2>1, <2>2 DEF SnapshotTaken
<1>4. CASE EndBatch
  <2> SUFFICES ASSUME ~lateWrite' PROVE SnapshotTaken'
    BY DEF SnapshotTaken
  <2>1. /\ ~lateWrite /\ ~InFlight("WRITE") /\ step' = step
        /\ (batch' = batch + 1 /\ phase' = "READ") \/ phase' = "DONE"
    BY <1>4 DEF EndBatch
  <2>2. Flight' = Flight /\ \A m \in Flight : m.type = "RESERVE"
    BY <1>0, <1>4, <2>1, BarrierFacts, InFlightFacts
  <2>3. phase' = "READ" => \A t \in Current' : step'[t] \notin {Executed, Reserved}
    <3> SUFFICES ASSUME phase' = "READ", NEW t \in Current'
                 PROVE  step[t] \notin {Executed, Reserved}
      BY <2>1
    <3>1. t \in Txns /\ BatchOf[t] > batch
      BY <1>0, <2>1 DEF Current
    <3> QED
      BY <1>0, <3>1, StepTypes DEF StepsOK
  <2> QED
    BY <2>2, <2>3 DEF SnapshotTaken
<1>5. CASE UNCHANGED vars
  <2>1. UNCHANGED <<batch, phase, prog, step, seen, pend, db, chan, lateWrite>>
    BY <1>5 DEF vars
  <2>2. Flight' = Flight
    BY <2>1 DEF Flight
  <2> QED
    BY <2>1, <2>2 DEF SnapshotTaken, Current, Reads
<1> QED
  BY <1>1, <1>2, <1>3, <1>4, <1>5 DEF Next

\* What a batch has read when it reserves is what the store holds, unless a
\* write of an earlier batch is late: read_snapshot of AriaExecutor.h takes a
\* snapshot.
THEOREM SnapshotReadsHolds == Spec => []SnapshotReads
<1> DEFINE I == Discipline /\ SnapshotTaken
<1>1. Init => I
  BY DisciplineInit, SnapshotInit
<1>2. I /\ [Next]_vars => I'
  BY DisciplineStep, SnapshotStep
<1>3. I => SnapshotReads
  <2> SUFFICES ASSUME Discipline, SnapshotTaken, phase = "READ", ~lateWrite,
                      NEW t \in Current, step[t] = Reserved, NEW k \in Reads(t)
               PROVE  seen[t][k] = db[k]
    BY DEF SnapshotReads
  <2>1. t \in Txns /\ pend[t] = {}
    BY NothingAsked DEF Current
  <2> QED
    BY <2>1 DEF SnapshotTaken
<1> QED
  BY <1>1, <1>2, <1>3, PTL DEF Spec

-----------------------------------------------------------------------------
(* Reservations: a word carries the epoch of the batch once a reservation  *)
(* has reached it, and then holds ids as small as those that reserved it.  *)

HoldsIn(w, e, tid, write) ==
  LET ts == IF write THEN w.wts ELSE w.rts
  IN  w.epoch = e /\ ts # 0 /\ ts <= tid

\* A reservation holds once made, and takes no other reservation away.
LEMMA ReserveReadFacts ==
  ASSUME NEW w \in Word, NEW e \in Nat, e < EpochModulus, w.epoch <= e,
         NEW tid \in Nat \ {0}
  PROVE  /\ ReserveRead(w, e, tid).epoch = e
         /\ HoldsIn(ReserveRead(w, e, tid), e, tid, FALSE)
         /\ \A other \in Nat : \A write \in BOOLEAN :
              HoldsIn(w, e, other, write) => HoldsIn(ReserveRead(w, e, tid), e, other, write)
<1>1. StoredEpoch(e) = e
  BY StoredEpochFacts
<1>2. /\ w.epoch \in Nat /\ w.rts \in Nat /\ w.wts \in Nat
      /\ w = [epoch |-> w.epoch, rts |-> w.rts, wts |-> w.wts]
  BY DEF Word
<1>3. CASE w.epoch < e
  BY <1>1, <1>2, <1>3 DEF ReserveRead, HoldsIn
<1>4. CASE w.epoch = e
  <2>1. ReserveRead(w, e, tid) = IF w.rts # 0 /\ w.rts < tid THEN w
                                ELSE [w EXCEPT !.rts = tid]
    BY <1>2, <1>4 DEF ReserveRead
  <2> QED
    BY <1>2, <1>4, <2>1 DEF HoldsIn
<1>5. w.epoch < e \/ w.epoch = e
  BY <1>2
<1> QED
  BY <1>3, <1>4, <1>5, Zenon

\* The same for writing.
LEMMA ReserveWriteFacts ==
  ASSUME NEW w \in Word, NEW e \in Nat, e < EpochModulus, w.epoch <= e,
         NEW tid \in Nat \ {0}
  PROVE  /\ ReserveWrite(w, e, tid).epoch = e
         /\ HoldsIn(ReserveWrite(w, e, tid), e, tid, TRUE)
         /\ \A other \in Nat : \A write \in BOOLEAN :
              HoldsIn(w, e, other, write) => HoldsIn(ReserveWrite(w, e, tid), e, other, write)
<1>1. StoredEpoch(e) = e
  BY StoredEpochFacts
<1>2. /\ w.epoch \in Nat /\ w.rts \in Nat /\ w.wts \in Nat
      /\ w = [epoch |-> w.epoch, rts |-> w.rts, wts |-> w.wts]
  BY DEF Word
<1>3. CASE w.epoch < e
  BY <1>1, <1>2, <1>3 DEF ReserveWrite, HoldsIn
<1>4. CASE w.epoch = e
  <2>1. ReserveWrite(w, e, tid) = IF w.wts # 0 /\ w.wts < tid THEN w
                                ELSE [w EXCEPT !.wts = tid]
    BY <1>2, <1>4 DEF ReserveWrite
  <2> QED
    BY <1>2, <1>4, <2>1 DEF HoldsIn
<1>5. w.epoch < e \/ w.epoch = e
  BY <1>2
<1> QED
  BY <1>3, <1>4, <1>5, Zenon

\* What a step of the batch may do to the words: no epoch falls, and what a
\* reservation holds in this batch it holds still.
Kept(w, v) ==
  /\ v.epoch <= batch
  /\ w.epoch = batch => v.epoch = batch
  /\ \A tid \in Nat : \A write \in BOOLEAN :
       HoldsIn(w, batch, tid, write) => HoldsIn(v, batch, tid, write)

EpochsBelow == \A k \in Keys : word[k].epoch <= batch

\* The epoch of the batch fits the word.
LEMMA EpochFacts ==
  ASSUME TypeOK, EpochsFit
  PROVE  batch \in Nat \ {0} /\ batch < EpochModulus
BY BatchAssumption, EpochModulusAssumption DEF TypeOK, EpochsFit

\* Holds is about the word of the row.
LEMMA HoldsFacts ==
  ASSUME NEW t, NEW k, NEW write
  PROVE  Holds(t, k, write) <=> HoldsIn(word[k], batch, Tid[t], write)
BY DEF Holds, HoldsIn

\* A word is kept, and so it is twice.
LEMMA KeptTwice ==
  ASSUME NEW w, NEW v, NEW x, Kept(w, v), Kept(v, x)
  PROVE  Kept(w, x)
BY DEF Kept

\* One reservation of the batch keeps a word.
LEMMA ReserveKeeps ==
  ASSUME TypeOK, EpochsFit, NEW w \in Word, w.epoch <= batch, NEW tid \in Nat \ {0}
  PROVE  /\ Kept(w, ReserveRead(w, batch, tid))
         /\ HoldsIn(ReserveRead(w, batch, tid), batch, tid, FALSE)
         /\ Kept(w, ReserveWrite(w, batch, tid))
         /\ HoldsIn(ReserveWrite(w, batch, tid), batch, tid, TRUE)
<1>1. batch \in Nat /\ batch < EpochModulus
  BY EpochFacts
<1>2. /\ ReserveRead(w, batch, tid).epoch = batch
      /\ HoldsIn(ReserveRead(w, batch, tid), batch, tid, FALSE)
      /\ \A other \in Nat : \A write \in BOOLEAN :
           HoldsIn(w, batch, other, write) =>
             HoldsIn(ReserveRead(w, batch, tid), batch, other, write)
  BY <1>1, ReserveReadFacts, Zenon
<1>3. /\ ReserveWrite(w, batch, tid).epoch = batch
      /\ HoldsIn(ReserveWrite(w, batch, tid), batch, tid, TRUE)
      /\ \A other \in Nat : \A write \in BOOLEAN :
           HoldsIn(w, batch, other, write) =>
             HoldsIn(ReserveWrite(w, batch, tid), batch, other, write)
  BY <1>1, ReserveWriteFacts, Zenon
<1>4. batch <= batch
  BY <1>1
<1> QED
  BY <1>2, <1>3, <1>4, Zenon DEF Kept

\* A word that does not change is kept.
LEMMA KeptItself == ASSUME NEW w, w.epoch <= batch PROVE Kept(w, w)
BY DEF Kept

\* What reserve_transaction does to one word.
LEMMA ReservedFacts ==
  ASSUME TypeOK, EpochsFit, NEW t \in Txns, NEW k \in Keys, word[k].epoch <= batch
  PROVE  /\ Kept(word[k], ReservedWord(t, k))
         /\ k \in Local(t, Reads(t)) =>
              HoldsIn(ReservedWord(t, k), batch, Tid[t], FALSE)
         /\ k \in Local(t, Writes(t)) =>
              HoldsIn(ReservedWord(t, k), batch, Tid[t], TRUE)
<1> DEFINE r == IF k \in Local(t, Reads(t)) THEN ReserveRead(word[k], batch, Tid[t])
                                            ELSE word[k]
<1>1. word[k] \in Word /\ Tid[t] \in Nat \ {0} /\ Tid[t] \in Nat /\ batch \in Nat
  BY ConstantTypes, EpochFacts DEF TypeOK
<1>2. ReservedWord(t, k) = IF k \in Local(t, Writes(t)) THEN ReserveWrite(r, batch, Tid[t])
                                                        ELSE r
  BY DEF ReservedWord
<1>3. r \in Word
  BY <1>1, ReserveTypes
<1>4. /\ Kept(word[k], r)
      /\ k \in Local(t, Reads(t)) => HoldsIn(r, batch, Tid[t], FALSE)
  <2>1. CASE k \in Local(t, Reads(t))
    <3>1. r = ReserveRead(word[k], batch, Tid[t])
      BY <2>1
    <3> HIDE DEF r
    <3>2. /\ Kept(word[k], ReserveRead(word[k], batch, Tid[t]))
          /\ HoldsIn(ReserveRead(word[k], batch, Tid[t]), batch, Tid[t], FALSE)
      BY <1>1, ReserveKeeps
    <3> QED
      BY <3>1, <3>2, Zenon
  <2>2. CASE k \notin Local(t, Reads(t))
    BY <2>2, KeptItself
  <2> QED
    BY <2>1, <2>2
<1> HIDE DEF r
<1>5. r.epoch <= batch
  BY <1>4 DEF Kept
<1>6. CASE k \in Local(t, Writes(t))
  <2>1. ReservedWord(t, k) = ReserveWrite(r, batch, Tid[t])
    BY <1>2, <1>6
  <2>2. /\ Kept(r, ReserveWrite(r, batch, Tid[t]))
        /\ HoldsIn(ReserveWrite(r, batch, Tid[t]), batch, Tid[t], TRUE)
    BY <1>1, <1>3, <1>5, ReserveKeeps, Zenon
  <2>3. Kept(word[k], ReserveWrite(r, batch, Tid[t]))
    BY <1>4, <2>2, KeptTwice
  <2>4. k \in Local(t, Reads(t)) =>
          HoldsIn(ReserveWrite(r, batch, Tid[t]), batch, Tid[t], FALSE)
    BY <1>1, <1>4, <2>2, Zenon DEF Kept
  <2> QED
    BY <2>1, <2>2, <2>3, <2>4, Zenon
<1>7. CASE k \notin Local(t, Writes(t))
  <2>1. ReservedWord(t, k) = r
    BY <1>2, <1>7
  <2> QED
    BY <1>4, <1>7, <2>1, Zenon
<1> QED
  BY <1>6, <1>7

\* What has been asked for is in flight.
LEMMA AskedInFlight ==
  ASSUME NEW t, NEW type, NEW r, NEW w, Sends(type, t, r, w),
         NEW write \in BOOLEAN, NEW k \in Remote(t, IF write THEN w ELSE r)
  PROVE  Requested(type, t, k, write)'
<1>1. PICK m \in Asked(type, t, r, w) : IsRequest(m, type, t, k, write)
  BY AskedMembers
<1>2. m \in Flight'
  BY DEF Sends
<1> QED
  BY <1>1, <1>2 DEF Requested, IsRequest

\* A worker keeps the words, takes no message away, and reserves each access
\* in the word of its row or by a message.
LEMMA WorkWords ==
  ASSUME Discipline, EpochsFit, EpochsBelow, NEW t \in Txns, Work(t)
  PROVE  /\ \A k \in Keys : Kept(word[k], word'[k])
         /\ Flight \subseteq Flight'
         /\ Reserves(t) =>
              \A write \in BOOLEAN : \A k \in Accesses(t, write) :
                Holds(t, k, write)' \/ Requested("RESERVE", t, k, write)'
<1>0. TypeOK
  BY DEF Discipline
<1>1. /\ UNCHANGED <<batch, phase, prog, lateReserve, lateWrite>>
      /\ \/ RolledBack(t) \/ HasRead(t) \/ ReservesNothing(t) \/ Reserves(t)
         \/ AnalyzesNothing(t) \/ Commits(t) \/ Aborts(t)
         \/ \E asked \in SUBSET Reads(t) : Analyzes(t, asked)
  BY <1>0, WorkShape
<1>2. Flight \subseteq Flight'
  <2>1. ASSUME chan' = chan PROVE Flight \subseteq Flight'
    BY <2>1 DEF Flight
  <2>2. ASSUME NEW type, NEW r, NEW w, Sends(type, t, r, w) PROVE Flight \subseteq Flight'
    BY <2>2 DEF Sends
  <2>3. CASE RolledBack(t) \/ ReservesNothing(t) \/ AnalyzesNothing(t) \/ Aborts(t)
    BY <2>1, <2>3 DEF RolledBack, ReservesNothing, AnalyzesNothing, Aborts
  <2>4. CASE HasRead(t) \/ Reserves(t) \/ Commits(t)
    BY <2>2, <2>4 DEF HasRead, Reserves, Commits
  <2>5. CASE \E asked \in SUBSET Reads(t) : Analyzes(t, asked)
    BY <2>2, <2>5 DEF Analyzes
  <2> QED
    BY <1>1, <2>3, <2>4, <2>5
<1>3. ASSUME word' = word PROVE \A k \in Keys : Kept(word[k], word'[k])
  BY <1>3, KeptItself DEF EpochsBelow
<1>4. ASSUME Reserves(t)
      PROVE  /\ \A k \in Keys : Kept(word[k], word'[k])
             /\ \A write \in BOOLEAN : \A k \in Accesses(t, write) :
                  Holds(t, k, write)' \/ Requested("RESERVE", t, k, write)'
  <2>1. /\ \A k \in Keys : word'[k] = ReservedWord(t, k)
        /\ Sends("RESERVE", t, Reads(t), Writes(t))
    BY <1>4 DEF Reserves
  <2>2. \A k \in Keys : Kept(word[k], word'[k])
    BY <1>0, <2>1, ReservedFacts DEF EpochsBelow
  <2>3. ASSUME NEW write \in BOOLEAN, NEW k \in Accesses(t, write)
        PROVE  Holds(t, k, write)' \/ Requested("RESERVE", t, k, write)'
    <3>1. k \in Keys
      BY <1>0, AccessTypes DEF Accesses
    <3>2. CASE Owner[k] = Home[t]
      <4>1. HoldsIn(word'[k], batch, Tid[t], write)
        <5>1. CASE write
          BY <1>0, <2>1, <2>3, <3>1, <3>2, <5>1, ReservedFacts
          DEF EpochsBelow, Local, Accesses
        <5>2. CASE ~write
          BY <1>0, <2>1, <2>3, <3>1, <3>2, <5>2, ReservedFacts
          DEF EpochsBelow, Local, Accesses
        <5> QED
          BY <5>1, <5>2
      <4> QED
        BY <1>1, <4>1 DEF Holds, HoldsIn
    <3>3. CASE Owner[k] # Home[t]
      <4>1. k \in Remote(t, IF write THEN Writes(t) ELSE Reads(t))
        BY <3>3, <2>3 DEF Remote, Accesses
      <4> QED
        BY <2>1, <4>1, AskedInFlight
    <3> QED
      BY <3>2, <3>3
  <2> QED
    BY <2>2, <2>3
<1>5. ~Reserves(t) => word' = word
  BY <1>1 DEF RolledBack, HasRead, ReservesNothing, AnalyzesNothing, Analyzes,
              Commits, Aborts
<1> QED
  BY <1>2, <1>3, <1>4, <1>5

\* A handler keeps the words, and only a reservation makes them change: that
\* of a transaction of this batch takes effect.
LEMMA HandlerWords ==
  ASSUME Discipline, EpochsFit, EpochsBelow, NEW c \in Channels, Process(c)
  PROVE  LET m == chan[c][1]
         IN  /\ \A k \in Keys : Kept(word[k], word'[k])
             /\ Flight \subseteq Flight' \cup {m}
             /\ \A n \in Flight' : n \in Flight \/ (n.type \in {"SEARCH", "CHECK"} /\ n.answer)
             /\ m.type = "RESERVE" /\ m.txn \in Current =>
                  HoldsIn(word'[m.key], batch, Tid[m.txn], m.write)
<1> DEFINE m == chan[c][1]
<1>0. TypeOK /\ MessagesOK
  BY DEF Discipline
<1>1. /\ chan[c] # <<>> /\ m \in Message /\ m.txn \in Txns /\ m.key \in Keys
      /\ m.write \in BOOLEAN
      /\ m \in Flight
      /\ UNCHANGED <<batch, phase, prog, step, outcome, lateReserve, lateWrite>>
      /\ \/ Searched(c, m) \/ Seen(c, m) \/ ReservedAt(c, m)
         \/ Checked(c, m) \/ Told(c, m) \/ Written(c, m)
  BY <1>0, HandlerShape
<1> HIDE DEF m
<1>2. ASSUME NEW answers, Taken(c, answers)
      PROVE  Flight \subseteq Flight' \cup {m} /\ Flight' \subseteq Flight \cup answers
  BY <1>2, FlightTaken DEF m
<1>3. /\ Flight \subseteq Flight' \cup {m}
      /\ \A n \in Flight' : n \in Flight \/ (n.type \in {"SEARCH", "CHECK"} /\ n.answer)
  <2>1. ASSUME NEW val \in Txns \cup {NoTxn}, NEW found \in SUBSET Flags
        PROVE  Answer(m, val, found).type = m.type /\ Answer(m, val, found).answer
    <3>1. m \in Message
      BY <1>1
    <3> QED
      BY <3>1, AnswerFacts
  <2>2. CASE Searched(c, m)
    <3>1. db[m.key] \in Txns \cup {NoTxn} /\ {} \in SUBSET Flags
      BY <1>0, <1>1 DEF TypeOK
    <3>2. /\ Answer(m, db[m.key], {}).type = m.type /\ Answer(m, db[m.key], {}).answer
      BY <2>1, <3>1
    <3> QED
      BY <1>2, <2>2, <3>2 DEF Searched
  <2>3. CASE Checked(c, m)
    <3>1. Found(m) \in SUBSET Flags /\ NoTxn \in Txns \cup {NoTxn}
      BY FlagTypes DEF Found
    <3>2. /\ Answer(m, NoTxn, Found(m)).type = m.type /\ Answer(m, NoTxn, Found(m)).answer
      BY <2>1, <3>1
    <3> QED
      BY <1>2, <2>3, <3>2 DEF Checked
  <2>4. CASE Seen(c, m) \/ ReservedAt(c, m) \/ Told(c, m) \/ Written(c, m)
    BY <1>2, <2>4 DEF Seen, ReservedAt, Told, Written
  <2> QED
    BY <1>1, <2>2, <2>3, <2>4
<1>4. CASE ReservedAt(c, m)
  <2>1. /\ m.type = "RESERVE" /\ word' = [word EXCEPT ![m.key] = Reserve1(m, word[m.key])]
        /\ BatchOf[m.txn] >= word[m.key].epoch
    BY <1>4 DEF ReservedAt
  <2>2. /\ word'[m.key] = Reserve1(m, word[m.key])
        /\ \A k \in Keys : k # m.key => word'[k] = word[k]
    BY <1>0, <1>1, <2>1 DEF TypeOK
  <2>3. /\ BatchOf[m.txn] <= batch /\ BatchOf[m.txn] \in Nat /\ Tid[m.txn] \in Nat \ {0}
        /\ batch \in Nat /\ batch < EpochModulus /\ word[m.key] \in Word
        /\ word[m.key].epoch \in Nat
    BY <1>0, <1>1, FlightFacts, ConstantTypes, EpochFacts DEF TypeOK, Word
  <2>4. CASE BatchOf[m.txn] = batch
    <3>1. word[m.key].epoch <= batch
      BY <1>1 DEF EpochsBelow
    <3>2. /\ Kept(word[m.key], Reserve1(m, word[m.key]))
          /\ HoldsIn(Reserve1(m, word[m.key]), batch, Tid[m.txn], m.write)
      <4>1. CASE m.write = TRUE
        <5>1. Reserve1(m, word[m.key]) = ReserveWrite(word[m.key], batch, Tid[m.txn])
          BY <2>4, <4>1 DEF Reserve1
        <5>2. /\ Kept(word[m.key], ReserveWrite(word[m.key], batch, Tid[m.txn]))
              /\ HoldsIn(ReserveWrite(word[m.key], batch, Tid[m.txn]), batch, Tid[m.txn], TRUE)
          BY <1>0, <2>3, <3>1, ReserveKeeps, Zenon
        <5> QED
          BY <4>1, <5>1, <5>2, Zenon
      <4>2. CASE m.write = FALSE
        <5>1. Reserve1(m, word[m.key]) = ReserveRead(word[m.key], batch, Tid[m.txn])
          BY <2>4, <4>2 DEF Reserve1
        <5>2. /\ Kept(word[m.key], ReserveRead(word[m.key], batch, Tid[m.txn]))
              /\ HoldsIn(ReserveRead(word[m.key], batch, Tid[m.txn]), batch, Tid[m.txn], FALSE)
          BY <1>0, <2>3, <3>1, ReserveKeeps, Zenon
        <5> QED
          BY <4>2, <5>1, <5>2, Zenon
      <4> QED
        BY <1>1, <4>1, <4>2
    <3>3. \A k \in Keys : Kept(word[k], word'[k])
      <4> SUFFICES ASSUME NEW k \in Keys PROVE Kept(word[k], word'[k])
        OBVIOUS
      <4>1. CASE k = m.key
        BY <2>2, <3>2, <4>1, Zenon
      <4>2. CASE k # m.key
        BY <2>2, <4>2, KeptItself DEF EpochsBelow
      <4> QED
        BY <4>1, <4>2
    <3>4. HoldsIn(word'[m.key], batch, Tid[m.txn], m.write)
      BY <2>2, <3>2, Zenon
    <3> QED
      BY <1>3, <3>3, <3>4 DEF m
  <2>5. CASE BatchOf[m.txn] < batch
    <3>1. word[m.key].epoch < batch
      BY <2>1, <2>3, <2>5
    <3>2. /\ BatchOf[m.txn] < EpochModulus /\ word[m.key].epoch <= BatchOf[m.txn]
      BY <2>1, <2>3, <2>5, EpochModulusAssumption
    <3>3. Reserve1(m, word[m.key]).epoch = BatchOf[m.txn]
      <4>1. /\ ReserveRead(word[m.key], BatchOf[m.txn], Tid[m.txn]).epoch = BatchOf[m.txn]
            /\ ReserveWrite(word[m.key], BatchOf[m.txn], Tid[m.txn]).epoch = BatchOf[m.txn]
        BY <2>3, <3>2, ReserveReadFacts, ReserveWriteFacts, Zenon
      <4> QED
        BY <4>1 DEF Reserve1
    <3>4. Kept(word[m.key], Reserve1(m, word[m.key]))
      BY <2>3, <2>5, <3>1, <3>3 DEF Kept, HoldsIn
    <3>5. \A k \in Keys : Kept(word[k], word'[k])
      <4> SUFFICES ASSUME NEW k \in Keys PROVE Kept(word[k], word'[k])
        OBVIOUS
      <4>1. CASE k = m.key
        BY <2>2, <3>4, <4>1, Zenon
      <4>2. CASE k # m.key
        BY <2>2, <4>2, KeptItself DEF EpochsBelow
      <4> QED
        BY <4>1, <4>2
    <3>6. m.txn \notin Current
      BY <2>3, <2>5 DEF Current
    <3> QED
      BY <1>3, <3>5, <3>6 DEF m
  <2> QED
    BY <2>3, <2>4, <2>5
<1>5. CASE ~ReservedAt(c, m)
  <2>1. word' = word /\ m.type # "RESERVE"
    BY <1>1, <1>5 DEF Searched, Seen, Checked, Told, Written
  <2>2. \A k \in Keys : Kept(word[k], word'[k])
    BY <2>1, KeptItself DEF EpochsBelow
  <2> QED
    BY <1>3, <2>1, <2>2 DEF m
<1> QED
  BY <1>4, <1>5


-----------------------------------------------------------------------------
(* The steps of a worker and of a handler, by position in the queues.      *)

\* A worker appends what it sends, and only one that has reserved checks.
LEMMA WorkExtends ==
  ASSUME Discipline, NEW t \in Txns, Work(t)
  PROVE  /\ \A c \in Channels : \A i \in 1..Len(chan[c]) :
              i \in 1..Len(chan'[c]) /\ chan'[c][i] = chan[c][i]
         /\ \A c \in Channels : \A i \in 1..Len(chan'[c]) :
              \/ i \in 1..Len(chan[c])
              \/ /\ i > Len(chan[c]) /\ Route(chan'[c][i]) = c
                 /\ ~chan'[c][i].answer /\ chan'[c][i].txn = t
                 /\ chan'[c][i].write \in BOOLEAN
                 /\ chan'[c][i].key \in Accesses(t, chan'[c][i].write)
                 /\ chan'[c][i].type = "CHECK" => HasReserved(t)
<1>0. TypeOK /\ StepsOK
  BY DEF Discipline
<1>1. /\ UNCHANGED <<batch, phase, prog, lateReserve, lateWrite>>
      /\ \/ RolledBack(t) \/ HasRead(t) \/ ReservesNothing(t) \/ Reserves(t)
         \/ AnalyzesNothing(t) \/ Commits(t) \/ Aborts(t)
         \/ \E asked \in SUBSET Reads(t) : Analyzes(t, asked)
  BY <1>0, WorkShape
<1> DEFINE Stays == \A c \in Channels : \A i \in 1..Len(chan[c]) :
                      i \in 1..Len(chan'[c]) /\ chan'[c][i] = chan[c][i]
           Adds(type, r, w) ==
             \A c \in Channels : \A i \in 1..Len(chan'[c]) :
               \/ i \in 1..Len(chan[c])
               \/ /\ i > Len(chan[c]) /\ Route(chan'[c][i]) = c
                  /\ chan'[c][i] \in Asked(type, t, r, w)
<1>2. ASSUME NEW type, NEW r, NEW w, Sends(type, t, r, w) PROVE Stays /\ Adds(type, r, w)
  BY <1>2 DEF Sends, Extended
<1>3. ASSUME NEW type \in Types, NEW r \in SUBSET Reads(t), NEW w \in SUBSET Writes(t),
             Adds(type, r, w)
      PROVE  \A c \in Channels : \A i \in 1..Len(chan'[c]) :
              \/ i \in 1..Len(chan[c])
              \/ /\ i > Len(chan[c]) /\ Route(chan'[c][i]) = c
                 /\ ~chan'[c][i].answer /\ chan'[c][i].txn = t
                 /\ chan'[c][i].write \in BOOLEAN
                 /\ chan'[c][i].key \in Accesses(t, chan'[c][i].write)
                 /\ chan'[c][i].type = type
  <2>1. \A m \in Asked(type, t, r, w) :
            /\ m.txn = t /\ m.type = type /\ ~m.answer
            /\ m.write \in BOOLEAN /\ m.key \in Keys
            /\ m.key \in Accesses(t, m.write)
    BY <1>0, AskedTells
  <2> SUFFICES ASSUME NEW c \in Channels, NEW i \in 1..Len(chan'[c]), i \notin 1..Len(chan[c])
               PROVE  /\ i > Len(chan[c]) /\ Route(chan'[c][i]) = c
                      /\ ~chan'[c][i].answer /\ chan'[c][i].txn = t
                      /\ chan'[c][i].write \in BOOLEAN
                      /\ chan'[c][i].key \in Accesses(t, chan'[c][i].write)
                      /\ chan'[c][i].type = type
    OBVIOUS
  <2>2. i > Len(chan[c]) /\ Route(chan'[c][i]) = c /\ chan'[c][i] \in Asked(type, t, r, w)
    BY <1>3
  <2> QED
    BY <2>1, <2>2
<1>4. CASE RolledBack(t) \/ ReservesNothing(t) \/ AnalyzesNothing(t) \/ Aborts(t)
  <2>1. chan' = chan
    BY <1>4 DEF RolledBack, ReservesNothing, AnalyzesNothing, Aborts
  <2> QED
    BY <2>1
<1>5. CASE HasRead(t) \/ Reserves(t) \/ Commits(t)
  <2> HIDE DEF Adds
  <2>1. Reads(t) \in SUBSET Reads(t) /\ {} \in SUBSET Reads(t)
        /\ Writes(t) \in SUBSET Writes(t) /\ {} \in SUBSET Writes(t)
        /\ "SEARCH" \in Types /\ "RESERVE" \in Types /\ "WRITE" \in Types
    BY DEF Types
  <2>2. CASE HasRead(t)
    <3>1. Stays /\ Adds("SEARCH", Reads(t), {})
      BY <1>2, <2>2 DEF HasRead
    <3>2. \A c \in Channels : \A i \in 1..Len(chan'[c]) :
              \/ i \in 1..Len(chan[c])
              \/ /\ i > Len(chan[c]) /\ Route(chan'[c][i]) = c
                 /\ ~chan'[c][i].answer /\ chan'[c][i].txn = t
                 /\ chan'[c][i].write \in BOOLEAN
                 /\ chan'[c][i].key \in Accesses(t, chan'[c][i].write)
                 /\ chan'[c][i].type = "SEARCH"
      BY <1>3, <2>1, <3>1, Zenon
    <3> QED
      BY <3>1, <3>2
  <2>3. CASE Reserves(t)
    <3>1. Stays /\ Adds("RESERVE", Reads(t), Writes(t))
      BY <1>2, <2>3 DEF Reserves
    <3>2. \A c \in Channels : \A i \in 1..Len(chan'[c]) :
              \/ i \in 1..Len(chan[c])
              \/ /\ i > Len(chan[c]) /\ Route(chan'[c][i]) = c
                 /\ ~chan'[c][i].answer /\ chan'[c][i].txn = t
                 /\ chan'[c][i].write \in BOOLEAN
                 /\ chan'[c][i].key \in Accesses(t, chan'[c][i].write)
                 /\ chan'[c][i].type = "RESERVE"
      BY <1>3, <2>1, <3>1, Zenon
    <3> QED
      BY <3>1, <3>2
  <2>4. CASE Commits(t)
    <3>1. Stays /\ Adds("WRITE", {}, Writes(t))
      BY <1>2, <2>4 DEF Commits
    <3>2. \A c \in Channels : \A i \in 1..Len(chan'[c]) :
              \/ i \in 1..Len(chan[c])
              \/ /\ i > Len(chan[c]) /\ Route(chan'[c][i]) = c
                 /\ ~chan'[c][i].answer /\ chan'[c][i].txn = t
                 /\ chan'[c][i].write \in BOOLEAN
                 /\ chan'[c][i].key \in Accesses(t, chan'[c][i].write)
                 /\ chan'[c][i].type = "WRITE"
      BY <1>3, <2>1, <3>1, Zenon
    <3> QED
      BY <3>1, <3>2
  <2> QED
    BY <1>5, <2>2, <2>3, <2>4
<1>6. CASE \E asked \in SUBSET Reads(t) : Analyzes(t, asked)
  <2> PICK asked \in SUBSET Reads(t) : Analyzes(t, asked)
    BY <1>6
  <2> HIDE DEF Adds
  <2>1. Stays /\ Adds("CHECK", asked, Writes(t))
    BY <1>2 DEF Analyzes
  <2>2. Writes(t) \in SUBSET Writes(t) /\ "CHECK" \in Types
    BY DEF Types
  <2>3. t \in Current /\ step[t] = Reserved /\ ~Unreserved(t)
    BY DEF Analyzes, Moves
  <2>4. HasReserved(t)
    <3>1. outcome[t] # "no_retry"
      BY <1>0, <2>3, StepTypes DEF StepsOK
    <3> QED
      BY <1>0, <2>3, <3>1, StepTypes DEF StepsOK, HasReserved, Reserving
  <2> QED
    BY <1>3, <2>1, <2>2, <2>4
<1> QED
  BY <1>1, <1>4, <1>5, <1>6

\* A handler takes the head of its queue, and answers a counted request.
LEMMA HandlerTakes ==
  ASSUME TypeOK, NEW c \in Channels, Process(c)
  PROVE  \E answers :
           /\ Taken(c, answers)
           /\ \A a \in answers :
                /\ a.answer /\ a.type = chan[c][1].type /\ a.txn = chan[c][1].txn
                /\ a.key = chan[c][1].key /\ a.write = chan[c][1].write
                /\ ~chan[c][1].answer
                /\ a.type = "CHECK" => a.found = Found(chan[c][1])
                /\ chan[c][1].type \in {"SEARCH", "CHECK"}
<1> DEFINE m == chan[c][1]
<1>1. /\ m \in Message /\ m.txn \in Txns /\ m.key \in Keys
      /\ \/ Searched(c, m) \/ Seen(c, m) \/ ReservedAt(c, m)
         \/ Checked(c, m) \/ Told(c, m) \/ Written(c, m)
  BY HandlerShape
<1> HIDE DEF m
<1>2. ASSUME NEW val \in Txns \cup {NoTxn}, NEW found \in SUBSET Flags
      PROVE  LET a == Answer(m, val, found)
             IN  /\ a.answer /\ a.type = m.type /\ a.txn = m.txn
                 /\ a.key = m.key /\ a.write = m.write /\ a.found = found
  <2>1. m \in Message
    BY <1>1
  <2> QED
    BY <2>1, AnswerFacts
<1>3. CASE Searched(c, m)
  <2>1. db[m.key] \in Txns \cup {NoTxn} /\ {} \in SUBSET Flags
    BY <1>1 DEF TypeOK
  <2> DEFINE a == Answer(m, db[m.key], {})
  <2>2. /\ a.answer /\ a.type = m.type /\ a.txn = m.txn
        /\ a.key = m.key /\ a.write = m.write
    BY <1>2, <2>1
  <2>3. Taken(c, {a}) /\ m.type = "SEARCH" /\ ~m.answer
    BY <1>3 DEF Searched
  <2> HIDE DEF a
  <2> QED
    BY <2>2, <2>3 DEF m
<1>4. CASE Checked(c, m)
  <2>1. Found(m) \in SUBSET Flags /\ NoTxn \in Txns \cup {NoTxn}
    BY FlagTypes DEF Found
  <2> DEFINE a == Answer(m, NoTxn, Found(m))
  <2>2. /\ a.answer /\ a.type = m.type /\ a.txn = m.txn
        /\ a.key = m.key /\ a.write = m.write /\ a.found = Found(m)
    BY <1>2, <2>1
  <2>3. Taken(c, {a}) /\ m.type = "CHECK" /\ ~m.answer
    BY <1>4 DEF Checked
  <2> HIDE DEF a
  <2> QED
    BY <2>2, <2>3 DEF m
<1>5. CASE Seen(c, m) \/ ReservedAt(c, m) \/ Told(c, m) \/ Written(c, m)
  <2>1. Taken(c, {})
    BY <1>5 DEF Seen, ReservedAt, Told, Written
  <2> QED
    BY <2>1
<1> QED
  BY <1>1, <1>3, <1>4, <1>5

-----------------------------------------------------------------------------
(* Epochs: every reservation and every check of a batch finds the words    *)
(* with its epoch or a reservation that will set it.                       *)

EpochReached ==
  \A t \in Txns : HasReserved(t) =>
    \A write \in BOOLEAN : \A k \in Accesses(t, write) :
      word[k].epoch = batch \/ Requested("RESERVE", t, k, write)

CheckBehind(c, i, m) ==
  /\ ~m.answer
  /\ \E j \in 1..Len(chan[c]) :
       j < i /\ IsRequest(chan[c][j], "RESERVE", m.txn, m.key, m.write)

ChecksBehind ==
  \A c \in Channels : \A i \in 1..Len(chan[c]) :
    chan[c][i].type = "CHECK" =>
      word[chan[c][i].key].epoch = batch \/ CheckBehind(c, i, chan[c][i])

\* EpochsOK, by its parts.
LEMMA EpochParts == EpochsOK <=> EpochsBelow /\ EpochReached /\ ChecksBehind
BY DEF EpochsOK, EpochsBelow, EpochReached, ChecksBehind, CheckBehind

\* At the start no row is reserved and nothing is in flight.
LEMMA EpochInit == Init => EpochsOK
<1> SUFFICES ASSUME Init PROVE EpochsOK
  OBVIOUS
<1>1. /\ batch = 1 /\ \A k \in Keys : word[k].epoch = 0
      /\ \A t \in Txns : step[t] = Generated
      /\ \A c \in Channels : chan[c] = <<>>
  BY DEF Init, ZeroWord
<1>2. \A t \in Txns : ~HasReserved(t)
  BY <1>1, StepTypes DEF HasReserved
<1> QED
  BY <1>1, <1>2 DEF EpochsOK

\* A request in flight is at some place of the queue of its route.
LEMMA RequestedPlace ==
  ASSUME TypeOK, MessagesOK, NEW type, NEW t, NEW k, NEW write,
         Requested(type, t, k, write)
  PROVE  \E c \in Channels : \E j \in 1..Len(chan[c]) :
           /\ IsRequest(chan[c][j], type, t, k, write)
           /\ c = <<Home[t], Owner[k], WorkerOf[t]>>
<1>1. PICK m \in Flight : IsRequest(m, type, t, k, write)
  BY DEF Requested
<1>2. PICK c \in Channels : m \in {chan[c][i] : i \in 1..Len(chan[c])}
  BY DEF Flight
<1>3. PICK j \in 1..Len(chan[c]) : m = chan[c][j]
  BY <1>2
<1>4. c = Route(m)
  BY <1>1, <1>3 DEF MessagesOK, MessageOK, IsRequest
<1> QED
  BY <1>1, <1>3, <1>4 DEF IsRequest, Route

\* Only the worker that reserves a transaction takes it among the reserved.
LEMMA WorkReserves ==
  ASSUME Discipline, NEW t \in Txns, Work(t), NEW u \in Txns, HasReserved(u)', ~HasReserved(u)
  PROVE  u = t /\ Reserves(t)
<1>0. TypeOK
  BY DEF Discipline
<1>1. /\ UNCHANGED <<batch, phase, prog, lateReserve, lateWrite>>
      /\ \/ RolledBack(t) \/ HasRead(t) \/ ReservesNothing(t) \/ Reserves(t)
         \/ AnalyzesNothing(t) \/ Commits(t) \/ Aborts(t)
         \/ \E asked \in SUBSET Reads(t) : Analyzes(t, asked)
  BY <1>0, WorkShape
<1>2. Current' = Current /\ (Reserving(u)' <=> Reserving(u)) /\ (Unreserved(t)' <=> Unreserved(t))
  BY <1>1, ProgramsFixed DEF Current
<1>3. step[u] \notin {Reserved, Analyzed} /\ step'[u] \in {Reserved, Analyzed} /\ Reserving(u)
  BY <1>2 DEF HasReserved
<1>4. ASSUME NEW from, NEW to \in Generated..Decided, Moves(t, from, to)
      PROVE  u = t /\ to \in {Reserved, Analyzed} /\ from \notin {Reserved, Analyzed}
  BY <1>0, <1>3, <1>4, StepTypes DEF Moves, TypeOK
<1>5. ~RolledBack(t) /\ ~HasRead(t) /\ ~Commits(t) /\ ~Aborts(t) /\ ~AnalyzesNothing(t)
      /\ ~\E asked \in SUBSET Reads(t) : Analyzes(t, asked)
  BY <1>4, StepTypes DEF RolledBack, HasRead, Commits, Aborts, AnalyzesNothing, Analyzes
<1>6. ~ReservesNothing(t)
  BY <1>3, <1>4, StepTypes DEF ReservesNothing, Reserving
<1>7. Reserves(t)
  BY <1>1, <1>5, <1>6
<1> QED
  BY <1>4, <1>7, StepTypes DEF Reserves

\* What was requested is requested still when nothing is taken away.
LEMMA RequestedStays ==
  ASSUME NEW type, NEW t, NEW k, NEW write, Requested(type, t, k, write),
         \A m \in Flight : IsRequest(m, type, t, k, write) => m \in Flight'
  PROVE  Requested(type, t, k, write)'
BY DEF Requested, IsRequest

\* The steps of a worker keep the epochs.
LEMMA EpochWork ==
  ASSUME Discipline, EpochsFit, EpochsOK, NEW t \in Txns, Work(t)
  PROVE  EpochsOK'
<1>0. TypeOK /\ MessagesOK /\ EpochsBelow /\ EpochReached /\ ChecksBehind
  BY EpochParts DEF Discipline
<1>1. UNCHANGED <<batch, prog>>
  BY <1>0, WorkShape
<1>2. /\ \A k \in Keys : Kept(word[k], word'[k])
      /\ Flight \subseteq Flight'
      /\ Reserves(t) =>
           \A write \in BOOLEAN : \A k \in Accesses(t, write) :
             Holds(t, k, write)' \/ Requested("RESERVE", t, k, write)'
  BY <1>0, WorkWords
<1>3. \A k \in Keys : word[k].epoch = batch => word'[k].epoch = batch'
  BY <1>1, <1>2 DEF Kept
<1>4. EpochsBelow'
  BY <1>1, <1>2 DEF Kept, EpochsBelow
<1>5. EpochReached'
  <2> SUFFICES ASSUME NEW u \in Txns, HasReserved(u)', NEW write \in BOOLEAN,
                      NEW k \in Accesses(u, write)'
               PROVE  word'[k].epoch = batch' \/ Requested("RESERVE", u, k, write)'
    BY DEF EpochReached
  <2>1. k \in Accesses(u, write) /\ k \in Keys
    BY <1>0, <1>1, ProgramsFixed, AccessTypes DEF Accesses
  <2>2. CASE HasReserved(u)
    <3>1. word[k].epoch = batch \/ Requested("RESERVE", u, k, write)
      BY <1>0, <2>1, <2>2 DEF EpochReached
    <3>2. ASSUME Requested("RESERVE", u, k, write) PROVE Requested("RESERVE", u, k, write)'
      BY <1>2, <3>2, RequestedStays
    <3> QED
      BY <1>3, <2>1, <3>1, <3>2
  <2>3. CASE ~HasReserved(u)
    <3>1. u = t /\ Reserves(t)
      BY <2>3, WorkReserves
    <3> QED
      BY <1>2, <2>1, <3>1 DEF Holds
  <2> QED
    BY <2>2, <2>3
<1>6. ChecksBehind'
  <2> SUFFICES ASSUME NEW c \in Channels, NEW i \in 1..Len(chan'[c]),
                      chan'[c][i].type = "CHECK"
               PROVE  word'[chan'[c][i].key].epoch = batch' \/ CheckBehind(c, i, chan[c][i])'
    BY DEF ChecksBehind
  <2>0. /\ \A j \in 1..Len(chan[c]) : j \in 1..Len(chan'[c]) /\ chan'[c][j] = chan[c][j]
        /\ \/ i \in 1..Len(chan[c])
           \/ /\ i > Len(chan[c]) /\ Route(chan'[c][i]) = c
              /\ ~chan'[c][i].answer /\ chan'[c][i].txn = t
              /\ chan'[c][i].write \in BOOLEAN
              /\ chan'[c][i].key \in Accesses(t, chan'[c][i].write)
              /\ HasReserved(t)
    BY WorkExtends
  <2>1. ASSUME NEW j \in 1..Len(chan[c]), j < i,
               IsRequest(chan[c][j], "RESERVE", chan'[c][i].txn, chan'[c][i].key, chan'[c][i].write),
               ~chan'[c][i].answer
        PROVE  CheckBehind(c, i, chan[c][i])'
    BY <2>0, <2>1 DEF CheckBehind, IsRequest
  <2>2. CASE i \in 1..Len(chan[c])
    <3>1. chan'[c][i] = chan[c][i] /\ chan[c][i].key \in Keys
      BY <1>0, <2>0, <2>2, PositionTypes
    <3>2. word[chan[c][i].key].epoch = batch \/ CheckBehind(c, i, chan[c][i])
      BY <1>0, <2>2, <3>1 DEF ChecksBehind
    <3>3. CASE word[chan[c][i].key].epoch = batch
      BY <1>3, <3>1, <3>3
    <3>4. CASE CheckBehind(c, i, chan[c][i])
      BY <2>1, <3>1, <3>4 DEF CheckBehind
    <3> QED
      BY <3>2, <3>3, <3>4
  <2>3. CASE i \notin 1..Len(chan[c])
    <3> DEFINE m == chan'[c][i]
    <3>1. /\ i > Len(chan[c]) /\ Route(m) = c /\ ~m.answer /\ m.txn = t
          /\ m.write \in BOOLEAN /\ m.key \in Accesses(t, m.write) /\ HasReserved(t)
      BY <2>0, <2>3
    <3> HIDE DEF m
    <3>2. word[m.key].epoch = batch \/ Requested("RESERVE", t, m.key, m.write)
      BY <1>0, <3>1 DEF EpochReached
    <3>3. m.key \in Keys
      BY <1>0, <3>1, AccessTypes DEF Accesses
    <3>4. CASE word[m.key].epoch = batch
      BY <1>3, <3>3, <3>4 DEF m
    <3>5. CASE Requested("RESERVE", t, m.key, m.write)
      <4>1. PICK d \in Channels : \E j \in 1..Len(chan[d]) :
              /\ IsRequest(chan[d][j], "RESERVE", t, m.key, m.write)
              /\ d = <<Home[t], Owner[m.key], WorkerOf[t]>>
        BY <1>0, <3>5, RequestedPlace
      <4>2. PICK j \in 1..Len(chan[d]) : IsRequest(chan[d][j], "RESERVE", t, m.key, m.write)
        BY <4>1
      <4>3. d = c
        BY <3>1, <4>1 DEF Route
      <4>4. j < i
        <5>1. Len(chan[c]) \in Nat
          BY <1>0 DEF TypeOK
        <5> QED
          BY <3>1, <4>2, <4>3, <5>1
      <4> QED
        BY <2>1, <3>1, <4>2, <4>3, <4>4 DEF m
    <3> QED
      BY <3>2, <3>4, <3>5
  <2> QED
    BY <2>2, <2>3
<1> QED
  <2>1. (EpochsOK <=> EpochsBelow /\ EpochReached /\ ChecksBehind)'
    BY EpochParts, PTL
  <2> QED
    BY <1>4, <1>5, <1>6, <2>1

\* The steps of a handler keep the epochs.
LEMMA EpochHandler ==
  ASSUME Discipline, EpochsFit, EpochsOK, NEW c \in Channels, Process(c)
  PROVE  EpochsOK'
<1> DEFINE m == chan[c][1]
<1>0. TypeOK /\ MessagesOK /\ EpochsBelow /\ EpochReached /\ ChecksBehind
  BY EpochParts DEF Discipline
<1>1. /\ UNCHANGED <<batch, phase, prog, step>>
      /\ 1 \in 1..Len(chan[c]) /\ m.txn \in Txns /\ m.key \in Keys
  BY <1>0, HandlerShape
<1>2. /\ \A k \in Keys : Kept(word[k], word'[k])
      /\ Flight \subseteq Flight' \cup {m}
      /\ m.type = "RESERVE" /\ m.txn \in Current =>
           HoldsIn(word'[m.key], batch, Tid[m.txn], m.write)
  BY <1>0, HandlerWords
<1>3. \A k \in Keys : word[k].epoch = batch => word'[k].epoch = batch'
  BY <1>1, <1>2 DEF Kept
<1>4. EpochsBelow'
  BY <1>1, <1>2 DEF Kept, EpochsBelow
<1>5. ASSUME m.type = "RESERVE", m.txn \in Current PROVE word'[m.key].epoch = batch'
  BY <1>1, <1>2, <1>5 DEF HoldsIn
<1>6. EpochReached'
  <2> SUFFICES ASSUME NEW u \in Txns, HasReserved(u)', NEW write \in BOOLEAN,
                      NEW k \in Accesses(u, write)'
               PROVE  word'[k].epoch = batch' \/ Requested("RESERVE", u, k, write)'
    BY DEF EpochReached
  <2>1. k \in Accesses(u, write) /\ k \in Keys /\ HasReserved(u) /\ u \in Current
    BY <1>0, <1>1, ProgramsFixed, AccessTypes DEF Accesses, HasReserved, Current
  <2>2. CASE word[k].epoch = batch
    BY <1>3, <2>1, <2>2
  <2>3. CASE Requested("RESERVE", u, k, write) /\ IsRequest(m, "RESERVE", u, k, write)
    BY <1>5, <2>1, <2>3 DEF IsRequest
  <2>4. CASE Requested("RESERVE", u, k, write) /\ ~IsRequest(m, "RESERVE", u, k, write)
    <3> HIDE DEF m
    <3>1. \A n \in Flight : IsRequest(n, "RESERVE", u, k, write) => n \in Flight'
      BY <1>2, <2>4
    <3> QED
      BY <2>4, <3>1, RequestedStays
  <2> QED
    BY <1>0, <2>1, <2>2, <2>3, <2>4 DEF EpochReached
<1>7. ChecksBehind'
  <2> SUFFICES ASSUME NEW d \in Channels, NEW i \in 1..Len(chan'[d]),
                      chan'[d][i].type = "CHECK"
               PROVE  word'[chan'[d][i].key].epoch = batch' \/ CheckBehind(d, i, chan[d][i])'
    BY DEF ChecksBehind
  <2>0. PICK answers :
           /\ Taken(c, answers)
           /\ \A a \in answers :
                /\ a.answer /\ a.type = m.type /\ a.txn = m.txn
                /\ a.key = m.key /\ a.write = m.write
                /\ ~m.answer
                /\ a.type = "CHECK" => a.found = Found(m)
                /\ m.type \in {"SEARCH", "CHECK"}
    BY <1>0, HandlerTakes
  <2>1. \/ i + Off(c, d) \in 1..Len(chan[d]) /\ chan'[d][i] = chan[d][i + Off(c, d)]
        \/ chan'[d][i] \in answers
    BY <2>0 DEF Taken
  <2>2. Off(c, d) \in {0, 1} /\ (c # d => Off(c, d) = 0) /\ (c = d => Off(c, d) = 1)
        /\ i \in Nat /\ Len(chan[d]) \in Nat
    <3>1. Len(chan'[d]) \in Nat /\ Len(chan[d]) \in Nat
      BY <1>0, <2>0 DEF Taken, TypeOK
    <3> QED
      BY <3>1 DEF Off
  <2>3. CASE i + Off(c, d) \in 1..Len(chan[d]) /\ chan'[d][i] = chan[d][i + Off(c, d)]
    <3> DEFINE p == i + Off(c, d)
               n == chan[d][p]
    <3>1. /\ p \in 1..Len(chan[d]) /\ chan'[d][i] = n /\ n.type = "CHECK"
          /\ n \in Flight /\ n.key \in Keys /\ n.txn \in Current
      <4>1. p \in 1..Len(chan[d]) /\ chan'[d][i] = n
        BY <2>3
      <4>2. n.type = "CHECK"
        BY <4>1
      <4>3. n \in Flight /\ n.key \in Keys
        BY <1>0, <4>1, PositionTypes
      <4> HIDE DEF n, p
      <4>4. n.txn \in Current
        BY <4>2, <4>3, CountedFacts
      <4> QED
        BY <4>1, <4>2, <4>3, <4>4
    <3>2. word[n.key].epoch = batch \/ CheckBehind(d, p, n)
      <4> HIDE DEF p
      <4> QED
        BY <1>0, <3>1 DEF ChecksBehind
    <3>3. CASE word[n.key].epoch = batch
      BY <1>3, <3>1, <3>3
    <3>4. CASE CheckBehind(d, p, n)
      <4>1. PICK j \in 1..Len(chan[d]) :
              j < p /\ IsRequest(chan[d][j], "RESERVE", n.txn, n.key, n.write)
        BY <3>4 DEF CheckBehind
      <4>2. CASE d = c /\ j = 1
        <5>1. m.type = "RESERVE" /\ m.txn = n.txn /\ m.key = n.key
          BY <4>1, <4>2 DEF IsRequest
        <5>2. word'[m.key].epoch = batch'
          BY <1>5, <3>1, <5>1
        <5> QED
          BY <3>1, <5>1, <5>2
      <4>3. CASE ~(d = c /\ j = 1)
        <5>1. j - Off(c, d) \in 1..Len(chan'[d]) /\ chan'[d][j - Off(c, d)] = chan[d][j]
          BY <2>0, <4>3 DEF Taken
        <5>2. j - Off(c, d) < i
          BY <2>2, <4>1
        <5>3. ~n.answer
          BY <3>4 DEF CheckBehind
        <5> QED
          BY <3>1, <4>1, <5>1, <5>2, <5>3 DEF CheckBehind, IsRequest
      <4> QED
        BY <4>2, <4>3
    <3> QED
      BY <3>2, <3>3, <3>4
  <2>4. CASE chan'[d][i] \in answers
    <3>1. m.type = "CHECK" /\ chan'[d][i].key = m.key
      BY <2>0, <2>4
    <3>2. word[m.key].epoch = batch \/ CheckBehind(c, 1, m)
      BY <1>0, <1>1, <3>1 DEF ChecksBehind
    <3>3. ~CheckBehind(c, 1, m)
      BY <1>0 DEF CheckBehind
    <3> QED
      BY <1>1, <1>3, <3>1, <3>2, <3>3
  <2> QED
    BY <2>1, <2>3, <2>4
<1> QED
  <2>1. (EpochsOK <=> EpochsBelow /\ EpochReached /\ ChecksBehind)'
    BY EpochParts, PTL
  <2> QED
    BY <1>4, <1>6, <1>7, <2>1

\* A step that leaves the words, the steps and the messages alone keeps the
\* epochs; so does the end of a batch, which leaves no check behind.
LEMMA EpochBarrier ==
  ASSUME Discipline, EpochsOK, EndRead \/ EndBatch
  PROVE  EpochsOK'
<1>0. TypeOK /\ StepsOK /\ EpochsBelow /\ EpochReached
  BY EpochParts DEF Discipline
<1>1. /\ \A m \in Flight : m.type \in {"RESERVE", "WRITE"}
      /\ UNCHANGED <<prog, step, seen, pend, flags, outcome, word, db, chan>>
      /\ Flight' = Flight
  BY BarrierFacts
<1>2. ChecksBehind'
  <2> SUFFICES ASSUME NEW c \in Channels, NEW i \in 1..Len(chan[c]), chan[c][i].type = "CHECK"
               PROVE  FALSE
    BY <1>1 DEF ChecksBehind
  <2>1. chan[c][i] \in Flight
    BY <1>0, PositionTypes
  <2> QED
    BY <1>1, <2>1
<1>3. CASE EndRead
  <2>1. batch' = batch
    BY <1>3 DEF EndRead
  <2>2. EpochsBelow' /\ EpochReached'
    BY <1>0, <1>1, <2>1 DEF EpochsBelow, EpochReached, HasReserved, Current, Reserving,
      Unreserved, IsReadOnly, Reads, Writes, Accesses, Requested
  <2> QED
    <3>1. (EpochsOK <=> EpochsBelow /\ EpochReached /\ ChecksBehind)'
      BY EpochParts, PTL
    <3> QED
      BY <1>2, <2>2, <3>1
<1>4. CASE EndBatch
  <2>1. /\ \A t \in Current : step[t] = Decided
        /\ batch' = batch \/ batch' = batch + 1
    BY <1>4 DEF EndBatch
  <2>2. EpochsBelow'
    BY <1>0, <1>1, <2>1 DEF EpochsBelow, TypeOK, Word
  <2>3. \A t \in Txns : ~HasReserved(t)'
    <3> SUFFICES ASSUME NEW t \in Txns, HasReserved(t)' PROVE FALSE
      OBVIOUS
    <3>1. BatchOf[t] = batch' /\ step[t] \in {Reserved, Analyzed}
      BY <1>1 DEF HasReserved, Current
    <3>2. batch \in Nat
      BY <1>0 DEF TypeOK
    <3>3. CASE batch' = batch
      BY <2>1, <3>1, <3>3, StepTypes DEF Current
    <3>4. CASE batch' = batch + 1
      BY <1>0, <3>1, <3>2, <3>4, StepTypes DEF StepsOK
    <3> QED
      BY <2>1, <3>3, <3>4
  <2>4. EpochReached'
    BY <2>3 DEF EpochReached
  <2> QED
    <3>1. (EpochsOK <=> EpochsBelow /\ EpochReached /\ ChecksBehind)'
      BY EpochParts, PTL
    <3> QED
      BY <1>2, <2>2, <2>4, <3>1
<1> QED
  BY <1>3, <1>4

\* The epochs are inductive on the discipline.
LEMMA EpochsStep == EpochsFit /\ Discipline /\ EpochsOK /\ [Next]_vars => EpochsOK'
<1> SUFFICES ASSUME EpochsFit, Discipline, EpochsOK, [Next]_vars PROVE EpochsOK'
  OBVIOUS
<1>1. CASE UNCHANGED vars
  BY <1>1 DEF vars, EpochsOK, HasReserved, Current, Reserving, Unreserved, IsReadOnly, Reads,
    Writes, Accesses, Requested, IsRequest, Flight
<1>2. CASE EndRead \/ EndBatch
  BY <1>2, EpochBarrier
<1>3. CASE \E t \in Txns : Work(t)
  BY <1>3, EpochWork
<1>4. CASE \E c \in Channels : Process(c)
  BY <1>4, EpochHandler
<1> QED
  BY <1>1, <1>2, <1>3, <1>4 DEF Next

\* The assertions of the handlers hold: a check finds the epoch of its
\* transaction in the word, and an answer the transaction that has asked.
THEOREM HandlerAssertionsHold ==
  ASSUME EpochsFit PROVE Spec => []HandlerAssertions
<1> DEFINE I == Discipline /\ EpochsOK
<1>1. Init => I
  BY DisciplineInit, EpochInit
<1>2. I /\ [Next]_vars => I'
  BY DisciplineStep, EpochsStep
<1>3. I => HandlerAssertions
  <2> SUFFICES ASSUME Discipline, EpochsOK PROVE HandlerAssertions
    OBVIOUS
  <2>0. TypeOK /\ ChecksBehind
    BY EpochParts DEF Discipline
  <2>1. CheckFindsEpoch
    <3> SUFFICES ASSUME NEW c \in Channels, chan[c] # <<>>, Head(chan[c]).type = "CHECK"
                 PROVE  word[Head(chan[c]).key].epoch = BatchOf[Head(chan[c]).txn]
      BY DEF CheckFindsEpoch
    <3>1. Head(chan[c]) = chan[c][1] /\ 1 \in 1..Len(chan[c]) /\ Head(chan[c]) \in Flight
      BY <2>0, HeadTypes
    <3>2. word[chan[c][1].key].epoch = batch \/ CheckBehind(c, 1, chan[c][1])
      BY <2>0, <3>1 DEF ChecksBehind
    <3>3. ~CheckBehind(c, 1, chan[c][1])
      BY <2>0 DEF CheckBehind
    <3>4. Head(chan[c]).txn \in Current
      BY <3>1, CountedFacts
    <3> QED
      BY <3>1, <3>2, <3>3, <3>4 DEF Current
  <2>2. NoStrayAnswer
    <3> SUFFICES ASSUME NEW c \in Channels, NEW i \in 1..Len(chan[c]),
                        chan[c][i].type \in {"SEARCH", "CHECK"}
                 PROVE  chan[c][i].txn \in Current
      BY <2>0 DEF NoStrayAnswer, TypeOK
    <3>1. chan[c][i] \in Flight
      BY <2>0, PositionTypes
    <3> QED
      BY <3>1, CountedFacts
  <2> QED
    BY <2>0, <2>1, <2>2 DEF HandlerAssertions
<1> QED
  BY <1>1, <1>2, <1>3, PTL DEF Spec

-----------------------------------------------------------------------------
(* Reservations: a word holds an id at most that of each transaction that  *)
(* has reserved it, unless the reservation is on its way in time.          *)

ReservesInTime ==
  \A m \in Flight : m.type = "RESERVE" => phase = "READ" /\ m.txn \in Current

Reservers == {t \in Txns : t \in Current /\ Reserving(t) /\ step[t] >= Reserved}

AllHeld ==
  \A t \in Reservers : \A write \in BOOLEAN : \A k \in Accesses(t, write) :
    Holds(t, k, write) \/ Requested("RESERVE", t, k, write)

\* ReservationsOK, by its parts.
LEMMA ReservationParts == ReservationsOK <=> lateReserve \/ (ReservesInTime /\ AllHeld)
BY DEF ReservationsOK, ReservesInTime, AllHeld, Reservers

\* What a worker adds to the messages in flight.
LEMMA WorkFlight ==
  ASSUME Discipline, NEW t \in Txns, Work(t), NEW m \in Flight', m \notin Flight
  PROVE  /\ m.txn = t /\ ~m.answer /\ m.write \in BOOLEAN
         /\ m.key \in Keys /\ m.key \in Accesses(t, m.write)
         /\ \/ m.type = "SEARCH" /\ HasRead(t)
            \/ m.type = "RESERVE" /\ Reserves(t)
            \/ m.type = "CHECK" /\ \E asked \in SUBSET Reads(t) : Analyzes(t, asked)
            \/ m.type = "WRITE" /\ Commits(t)
<1>0. TypeOK
  BY DEF Discipline
<1>1. \/ RolledBack(t) \/ HasRead(t) \/ ReservesNothing(t) \/ Reserves(t)
      \/ AnalyzesNothing(t) \/ Commits(t) \/ Aborts(t)
      \/ \E asked \in SUBSET Reads(t) : Analyzes(t, asked)
  BY <1>0, WorkShape
<1>2. ASSUME NEW type \in Types, NEW r \in SUBSET Reads(t), NEW w \in SUBSET Writes(t),
             Sends(type, t, r, w)
      PROVE  /\ m.txn = t /\ ~m.answer /\ m.write \in BOOLEAN
             /\ m.key \in Keys /\ m.key \in Accesses(t, m.write) /\ m.type = type
  <2>1. m \in Asked(type, t, r, w)
    BY <1>2 DEF Sends
  <2> QED
    BY <1>0, <2>1, AskedTells
<1>3. ASSUME chan' = chan PROVE FALSE
  BY <1>3 DEF Flight
<1>4. Reads(t) \in SUBSET Reads(t) /\ {} \in SUBSET Reads(t)
      /\ Writes(t) \in SUBSET Writes(t) /\ {} \in SUBSET Writes(t)
      /\ "SEARCH" \in Types /\ "RESERVE" \in Types /\ "WRITE" \in Types /\ "CHECK" \in Types
  BY DEF Types
<1>5. CASE RolledBack(t) \/ ReservesNothing(t) \/ AnalyzesNothing(t) \/ Aborts(t)
  BY <1>3, <1>5 DEF RolledBack, ReservesNothing, AnalyzesNothing, Aborts
<1>6. CASE HasRead(t)
  <2>1. Sends("SEARCH", t, Reads(t), {})
    BY <1>6 DEF HasRead
  <2> QED
    BY <1>2, <1>4, <1>6, <2>1
<1>7. CASE Reserves(t)
  <2>1. Sends("RESERVE", t, Reads(t), Writes(t))
    BY <1>7 DEF Reserves
  <2> QED
    BY <1>2, <1>4, <1>7, <2>1
<1>8. CASE Commits(t)
  <2>1. Sends("WRITE", t, {}, Writes(t))
    BY <1>8 DEF Commits
  <2> QED
    BY <1>2, <1>4, <1>8, <2>1
<1>9. CASE \E asked \in SUBSET Reads(t) : Analyzes(t, asked)
  <2> PICK asked \in SUBSET Reads(t) : Analyzes(t, asked)
    BY <1>9
  <2>1. Sends("CHECK", t, asked, Writes(t))
    BY DEF Analyzes
  <2> QED
    BY <1>2, <1>4, <1>9, <2>1
<1> QED
  BY <1>1, <1>5, <1>6, <1>7, <1>8, <1>9

\* A transaction that comes among the reservers is the one that reserves.
LEMMA NewReserver ==
  ASSUME Discipline, NEW t \in Txns, Work(t), NEW u \in Reservers', u \notin Reservers
  PROVE  u = t /\ Reserves(t)
<1>0. TypeOK
  BY DEF Discipline
<1>1. /\ UNCHANGED <<batch, phase, prog, lateReserve, lateWrite>>
      /\ \/ RolledBack(t) \/ HasRead(t) \/ ReservesNothing(t) \/ Reserves(t)
         \/ AnalyzesNothing(t) \/ Commits(t) \/ Aborts(t)
         \/ \E asked \in SUBSET Reads(t) : Analyzes(t, asked)
  BY <1>0, WorkShape
<1>2. /\ u \in Txns /\ Current' = Current /\ (Reserving(u)' <=> Reserving(u))
      /\ (Reserving(t)' <=> Reserving(t))
  BY <1>1, ProgramsFixed DEF Current, Reservers
<1>3. ~(step[u] >= Reserved) /\ step'[u] >= Reserved /\ Reserving(u)
  BY <1>2 DEF Reservers
<1>4. ASSUME NEW from, NEW to \in Generated..Decided, Moves(t, from, to)
      PROVE  u = t /\ to >= Reserved /\ from \in {Generated, Executed}
  BY <1>0, <1>3, <1>4, StepTypes DEF Moves, TypeOK
<1>5. ~HasRead(t) /\ ~Commits(t) /\ ~Aborts(t) /\ ~AnalyzesNothing(t)
      /\ ~\E asked \in SUBSET Reads(t) : Analyzes(t, asked)
  BY <1>4, StepTypes DEF HasRead, Commits, Aborts, AnalyzesNothing, Analyzes
<1>6. ~ReservesNothing(t) /\ ~RolledBack(t)
  BY <1>3, <1>4, StepTypes DEF ReservesNothing, RolledBack, Reserving
<1>7. Reserves(t)
  BY <1>1, <1>5, <1>6
<1> QED
  BY <1>4, <1>7, StepTypes DEF Reserves

\* The reservations are inductive on the discipline and the epochs.
LEMMA ReservationInit == Init => ReservationsOK
<1> SUFFICES ASSUME Init PROVE ReservationsOK
  OBVIOUS
<1>1. /\ \A t \in Txns : step[t] = Generated
      /\ \A c \in Channels : chan[c] = <<>>
  BY DEF Init
<1>2. Flight = {} /\ Reservers = {}
  BY <1>1, StepTypes DEF Flight, Reservers
<1> QED
  BY <1>2, ReservationParts DEF ReservesInTime, AllHeld

\* The steps of a worker keep the reservations.
LEMMA ReservationWork ==
  ASSUME Discipline, EpochsFit, EpochsBelow, ReservesInTime, AllHeld, NEW t \in Txns, Work(t)
  PROVE  ReservesInTime' /\ AllHeld'
<1>0. TypeOK
  BY DEF Discipline
<1>1. UNCHANGED <<batch, phase, prog>> /\ Current' = Current
  BY <1>0, WorkShape DEF Current
<1>2. /\ \A k \in Keys : Kept(word[k], word'[k])
      /\ Flight \subseteq Flight'
      /\ Reserves(t) =>
           \A write \in BOOLEAN : \A k \in Accesses(t, write) :
             Holds(t, k, write)' \/ Requested("RESERVE", t, k, write)'
  BY WorkWords
<1>3. ReservesInTime'
  <2> SUFFICES ASSUME NEW m \in Flight', m.type = "RESERVE"
               PROVE  phase = "READ" /\ m.txn \in Current
    BY <1>1 DEF ReservesInTime
  <2>1. CASE m \in Flight
    BY <2>1 DEF ReservesInTime
  <2>2. CASE m \notin Flight
    BY <2>2, WorkFlight DEF Reserves, Moves
  <2> QED
    BY <2>1, <2>2
<1>4. AllHeld'
  <2> SUFFICES ASSUME NEW u \in Reservers', NEW write \in BOOLEAN, NEW k \in Accesses(u, write)'
               PROVE  Holds(u, k, write)' \/ Requested("RESERVE", u, k, write)'
    BY DEF AllHeld
  <2>0. u \in Txns
    BY DEF Reservers
  <2>1. k \in Accesses(u, write) /\ k \in Keys
    BY <1>0, <1>1, <2>0, ProgramsFixed, AccessTypes DEF Accesses
  <2>2. CASE u \in Reservers
    <3>1. CASE Holds(u, k, write)
      <4>1. HoldsIn(word[k], batch, Tid[u], write) /\ Tid[u] \in Nat
        BY <2>0, <3>1, HoldsFacts, ConstantTypes
      <4>2. HoldsIn(word'[k], batch, Tid[u], write)
        BY <1>2, <2>1, <4>1, Zenon DEF Kept
      <4> QED
        BY <1>1, <4>2 DEF Holds, HoldsIn
    <3>2. CASE Requested("RESERVE", u, k, write)
      BY <1>2, <3>2, RequestedStays
    <3> QED
      BY <2>1, <2>2, <3>1, <3>2 DEF AllHeld
  <2>3. CASE u \notin Reservers
    BY <1>2, <2>1, <2>3, NewReserver
  <2> QED
    BY <2>2, <2>3
<1> QED
  BY <1>3, <1>4

\* The steps of a handler keep them.
LEMMA ReservationHandler ==
  ASSUME Discipline, EpochsFit, EpochsBelow, ReservesInTime, AllHeld,
         NEW c \in Channels, Process(c)
  PROVE  ReservesInTime' /\ AllHeld'
<1> DEFINE m == chan[c][1]
<1>0. TypeOK
  BY DEF Discipline
<1>1. /\ UNCHANGED <<batch, phase, prog, step>> /\ Current' = Current
      /\ m.txn \in Txns
  BY <1>0, HandlerShape DEF Current
<1>2. /\ \A k \in Keys : Kept(word[k], word'[k])
      /\ Flight \subseteq Flight' \cup {m}
      /\ \A n \in Flight' : n \in Flight \/ (n.type \in {"SEARCH", "CHECK"} /\ n.answer)
      /\ m.type = "RESERVE" /\ m.txn \in Current =>
           HoldsIn(word'[m.key], batch, Tid[m.txn], m.write)
  BY HandlerWords
<1> HIDE DEF m
<1>3. ReservesInTime'
  <2> SUFFICES ASSUME NEW n \in Flight', n.type = "RESERVE"
               PROVE  phase = "READ" /\ n.txn \in Current
    BY <1>1 DEF ReservesInTime
  <2>1. n \in Flight
    BY <1>2
  <2> QED
    BY <2>1 DEF ReservesInTime
<1>4. AllHeld'
  <2> SUFFICES ASSUME NEW u \in Reservers', NEW write \in BOOLEAN, NEW k \in Accesses(u, write)'
               PROVE  Holds(u, k, write)' \/ Requested("RESERVE", u, k, write)'
    BY DEF AllHeld
  <2>0. u \in Txns
    BY DEF Reservers
  <2>1. k \in Accesses(u, write) /\ k \in Keys /\ u \in Reservers /\ u \in Current
    BY <1>0, <1>1, <2>0, ProgramsFixed, AccessTypes DEF Accesses, Reservers
  <2>2. ASSUME HoldsIn(word'[k], batch, Tid[u], write) PROVE Holds(u, k, write)'
    BY <1>1, <2>2 DEF Holds, HoldsIn
  <2>3. CASE Holds(u, k, write)
    <3>1. HoldsIn(word[k], batch, Tid[u], write) /\ Tid[u] \in Nat
      BY <2>0, <2>3, HoldsFacts, ConstantTypes
    <3>2. HoldsIn(word'[k], batch, Tid[u], write)
      BY <1>2, <2>1, <3>1, Zenon DEF Kept
    <3> QED
      BY <2>2, <3>2
  <2>4. CASE Requested("RESERVE", u, k, write)
    <3>1. CASE IsRequest(m, "RESERVE", u, k, write)
      <4>1. HoldsIn(word'[k], batch, Tid[u], write)
        BY <1>2, <2>1, <3>1 DEF IsRequest
      <4> QED
        BY <2>2, <4>1
    <3>2. CASE ~IsRequest(m, "RESERVE", u, k, write)
      <4>1. \A n \in Flight : IsRequest(n, "RESERVE", u, k, write) => n \in Flight'
        BY <1>2, <3>2
      <4> QED
        BY <2>4, <4>1, RequestedStays
    <3> QED
      BY <3>1, <3>2
  <2> QED
    BY <2>1, <2>3, <2>4 DEF AllHeld
<1> QED
  BY <1>3, <1>4

\* So does every step.
LEMMA ReservationsStep ==
  EpochsFit /\ Discipline /\ EpochsOK /\ ReservationsOK /\ [Next]_vars => ReservationsOK'
<1> SUFFICES ASSUME EpochsFit, Discipline, EpochsOK, ReservationsOK, [Next]_vars
             PROVE  ReservationsOK'
  OBVIOUS
<1>0. TypeOK /\ StepsOK /\ EpochsBelow
  BY EpochParts DEF Discipline
<1>1. lateReserve \/ (ReservesInTime /\ AllHeld)
  BY ReservationParts
<1>2. (ReservationsOK <=> lateReserve \/ (ReservesInTime /\ AllHeld))'
  BY ReservationParts, PTL
<1>3. ASSUME NEW t \in Txns, Work(t) PROVE ReservationsOK'
  <2>1. lateReserve' = lateReserve
    BY <1>0, <1>3, WorkShape
  <2> QED
    BY <1>0, <1>1, <1>2, <1>3, <2>1, ReservationWork
<1>4. ASSUME NEW c \in Channels, Process(c) PROVE ReservationsOK'
  <2>1. lateReserve' = lateReserve
    BY <1>0, <1>4, HandlerShape
  <2> QED
    BY <1>0, <1>1, <1>2, <1>4, <2>1, ReservationHandler
<1>5. CASE EndRead
  <2> SUFFICES ASSUME ~lateReserve' PROVE ReservesInTime' /\ AllHeld'
    BY <1>2
  <2>1. ~lateReserve /\ ~InFlight("RESERVE") /\ batch' = batch
    BY <1>5 DEF EndRead
  <2>2. Flight' = Flight /\ UNCHANGED <<prog, step, word, chan>>
    BY <1>5, BarrierFacts
  <2>3. ReservesInTime'
    BY <1>0, <2>1, <2>2, InFlightFacts DEF ReservesInTime
  <2>4. AllHeld'
    BY <1>1, <2>1, <2>2 DEF AllHeld, Reservers, Holds, Requested, Current, Reserving,
      Unreserved, IsReadOnly, Reads, Writes, Accesses
  <2> QED
    BY <2>3, <2>4
<1>6. CASE EndBatch
  <2>1. /\ lateReserve' = lateReserve /\ phase = "COMMIT"
        /\ batch' = batch \/ batch' = batch + 1
    BY <1>6 DEF EndBatch
  <2>2. Flight' = Flight /\ UNCHANGED <<prog, step, word, chan>>
    BY <1>6, BarrierFacts
  <2> SUFFICES ASSUME ~lateReserve PROVE ReservesInTime' /\ AllHeld'
    BY <1>2, <2>1
  <2>3. ReservesInTime'
    BY <1>1, <2>1, <2>2 DEF ReservesInTime
  <2>4. CASE batch' = batch
    <3>1. AllHeld'
      BY <1>1, <2>2, <2>4 DEF AllHeld, Reservers, Holds, Requested, Current, Reserving,
        Unreserved, IsReadOnly, Reads, Writes, Accesses
    <3> QED
      BY <2>3, <3>1
  <2>5. CASE batch' = batch + 1
    <3>1. Reservers' = {}
      <4> SUFFICES ASSUME NEW t \in Reservers' PROVE FALSE
        OBVIOUS
      <4>1. t \in Txns /\ BatchOf[t] = batch + 1 /\ step[t] >= Reserved
        BY <2>2, <2>5 DEF Reservers, Current
      <4>2. batch \in Nat
        BY <1>0 DEF TypeOK
      <4> QED
        BY <1>0, <4>1, <4>2, StepTypes DEF StepsOK
    <3> QED
      BY <2>3, <3>1 DEF AllHeld
  <2> QED
    BY <2>1, <2>4, <2>5
<1>7. CASE UNCHANGED vars
  BY <1>7 DEF vars, late, ReservationsOK, Flight, Holds, Requested, Current, Reserving,
    Unreserved, IsReadOnly, Reads, Writes, Accesses
<1> QED
  BY <1>3, <1>4, <1>5, <1>6, <1>7 DEF Next

-----------------------------------------------------------------------------
(* Checks: when its answers are there a transaction knows its conflicts.   *)

Analyzers == {t \in Txns : Reserving(t) /\ step[t] >= Analyzed}

FlagsFound ==
  \A t \in Analyzers : \A write \in BOOLEAN : \A k \in Accesses(t, write) :
    Conflicts(t, k, write) \subseteq flags[t] \/ <<"CHECK", k, write>> \in pend[t]

AnswersTell ==
  \A m \in Flight :
    m.type = "CHECK" /\ m.answer => Conflicts(m.txn, m.key, m.write) \subseteq m.found

\* ChecksOK, by its parts.
LEMMA CheckParts == ChecksOK <=> lateReserve \/ (FlagsFound /\ AnswersTell)
BY DEF ChecksOK, FlagsFound, AnswersTell, Analyzers

\* What conflicts is a matter of the programs.
LEMMA ConflictsFixed ==
  ASSUME prog' = prog
  PROVE  \A t, k, write : Conflicts(t, k, write)' = Conflicts(t, k, write)
BY DEF Conflicts, Reserving, Unreserved, IsReadOnly, Accesses, Reads, Writes

\* A read conflicts as raw, a write as war or waw.
LEMMA ConflictTypes ==
  ASSUME NEW t, NEW k
  PROVE  Conflicts(t, k, FALSE) \subseteq {"raw"} /\ Conflicts(t, k, TRUE) \subseteq {"war", "waw"}
BY DEF Conflicts, Flags

\* Once the READ phase is over a row tells every conflict with a smaller id.
LEMMA WordTells ==
  ASSUME Discipline, ReservesInTime, AllHeld, phase = "COMMIT",
         NEW t \in Current, NEW k \in Keys
  PROVE  /\ Conflicts(t, k, FALSE) \subseteq ReadFlags(word[k], batch, Tid[t])
         /\ Conflicts(t, k, TRUE) \subseteq WriteFlags(word[k], batch, Tid[t])
<1>0. TypeOK /\ StepsOK /\ t \in Txns
  BY DEF Discipline, Current
<1>1. ASSUME NEW u \in Txns, BatchOf[u] = BatchOf[t], Reserving(u), NEW w \in BOOLEAN,
             k \in Accesses(u, w), Tid[u] < Tid[t]
      PROVE  /\ word[k].epoch = batch
             /\ w => word[k].wts # 0 /\ word[k].wts < Tid[t]
             /\ ~w => word[k].rts # 0 /\ word[k].rts < Tid[t]
  <2>1. u \in Current
    BY <1>1 DEF Current
  <2>2. step[u] >= Reserved
    BY <1>0, <2>1, StepTypes DEF StepsOK
  <2>3. u \in Reservers
    BY <1>1, <2>1, <2>2 DEF Reservers
  <2>4. ~Requested("RESERVE", u, k, w)
    BY DEF Requested, IsRequest, ReservesInTime
  <2>5. Holds(u, k, w)
    BY <1>1, <2>3, <2>4 DEF AllHeld
  <2>6. /\ word[k].rts \in Nat /\ word[k].wts \in Nat /\ Tid[u] \in Nat /\ Tid[t] \in Nat
    BY <1>0, ConstantTypes DEF TypeOK, Word
  <2> QED
    BY <1>1, <2>5, <2>6 DEF Holds
<1>2. "raw" \in Conflicts(t, k, FALSE) => "raw" \in ReadFlags(word[k], batch, Tid[t])
  BY <1>1 DEF Conflicts, ReadFlags, SmallerWriter
<1>3. /\ "war" \in Conflicts(t, k, TRUE) => "war" \in WriteFlags(word[k], batch, Tid[t])
      /\ "waw" \in Conflicts(t, k, TRUE) => "waw" \in WriteFlags(word[k], batch, Tid[t])
  BY <1>1 DEF Conflicts, WriteFlags, SmallerWriter, SmallerReader
<1> QED
  BY <1>2, <1>3, ConflictTypes

\* At the start nothing is analyzed.
LEMMA CheckInit == Init => ChecksOK
<1> SUFFICES ASSUME Init PROVE ChecksOK
  OBVIOUS
<1>1. /\ \A t \in Txns : step[t] = Generated
      /\ \A c \in Channels : chan[c] = <<>>
  BY DEF Init
<1>2. Flight = {} /\ Analyzers = {}
  BY <1>1, StepTypes DEF Flight, Analyzers
<1> QED
  BY <1>2, CheckParts DEF FlagsFound, AnswersTell

\* A transaction that is analyzed finds the conflicts of its local rows, asks
\* about the others, or has a raw conflict and needs no other.
LEMMA AnalyzedKnows ==
  ASSUME Discipline, ReservesInTime, AllHeld,
         NEW t \in Txns, NEW asked \in SUBSET Reads(t), Analyzes(t, asked),
         NEW write \in BOOLEAN, NEW k \in Accesses(t, write)
  PROVE  Conflicts(t, k, write) \subseteq flags'[t] \/ <<"CHECK", k, write>> \in pend'[t]
<1>0. /\ TypeOK /\ phase = "COMMIT" /\ t \in Current
      /\ "raw" \notin LocalFlags(t) => asked = Remote(t, Reads(t))
      /\ flags' = [flags EXCEPT ![t] = @ \cup LocalFlags(t)]
      /\ Waits("CHECK", t, asked, Writes(t))
  BY DEF Discipline, Analyzes, Moves
<1>1. flags'[t] = flags[t] \cup LocalFlags(t)
  BY <1>0 DEF TypeOK
<1>2. k \in Keys
  BY <1>0, AccessTypes DEF Accesses
<1>3. /\ Conflicts(t, k, FALSE) \subseteq ReadFlags(word[k], batch, Tid[t])
      /\ Conflicts(t, k, TRUE) \subseteq WriteFlags(word[k], batch, Tid[t])
      /\ Conflicts(t, k, FALSE) \subseteq {"raw"}
  BY <1>0, <1>2, WordTells, ConflictTypes
<1>4. \A w \in BOOLEAN : \A x \in Remote(t, IF w THEN Writes(t) ELSE asked) :
        <<"CHECK", x, w>> \in pend'[t]
  BY <1>0, RemoteWaits
<1>5. CASE write = TRUE
  <2>1. k \in Writes(t)
    BY <1>5 DEF Accesses
  <2>2. CASE Owner[k] = Home[t]
    <3>1. WriteFlags(word[k], batch, Tid[t]) \subseteq LocalFlags(t)
      BY <2>1, <2>2 DEF LocalFlags, Local
    <3> QED
      BY <1>1, <1>3, <1>5, <3>1
  <2>3. CASE Owner[k] # Home[t]
    <3>1. k \in Remote(t, Writes(t))
      BY <2>1, <2>3 DEF Remote
    <3> QED
      BY <1>4, <1>5, <3>1
  <2> QED
    BY <2>2, <2>3
<1>6. CASE write = FALSE
  <2>1. k \in Reads(t)
    BY <1>6 DEF Accesses
  <2>2. CASE Owner[k] = Home[t]
    <3>1. ReadFlags(word[k], batch, Tid[t]) \subseteq LocalFlags(t)
      BY <2>1, <2>2 DEF LocalFlags, Local
    <3> QED
      BY <1>1, <1>3, <1>6, <3>1
  <2>3. CASE "raw" \in LocalFlags(t)
    BY <1>1, <1>3, <1>6, <2>3
  <2>4. CASE Owner[k] # Home[t] /\ "raw" \notin LocalFlags(t)
    <3>1. k \in Remote(t, asked)
      BY <1>0, <2>1, <2>4 DEF Remote
    <3> QED
      BY <1>4, <1>6, <3>1
  <2> QED
    BY <2>2, <2>3, <2>4
<1> QED
  BY <1>5, <1>6

\* A transaction that comes among the analyzed is the one that analyzes.
LEMMA NewAnalyzer ==
  ASSUME Discipline, NEW t \in Txns, Work(t), NEW u \in Analyzers', u \notin Analyzers
  PROVE  u = t /\ \E asked \in SUBSET Reads(t) : Analyzes(t, asked)
<1>0. TypeOK
  BY DEF Discipline
<1>1. /\ UNCHANGED <<batch, phase, prog, lateReserve, lateWrite>>
      /\ \/ RolledBack(t) \/ HasRead(t) \/ ReservesNothing(t) \/ Reserves(t)
         \/ AnalyzesNothing(t) \/ Commits(t) \/ Aborts(t)
         \/ \E asked \in SUBSET Reads(t) : Analyzes(t, asked)
  BY <1>0, WorkShape
<1>2. u \in Txns /\ (Reserving(u)' <=> Reserving(u))
  BY <1>1, ProgramsFixed DEF Analyzers
<1>3. ~(step[u] >= Analyzed) /\ step'[u] >= Analyzed /\ Reserving(u)
  BY <1>2 DEF Analyzers
<1>4. ASSUME NEW from, NEW to \in Generated..Decided, Moves(t, from, to)
      PROVE  u = t /\ to >= Analyzed /\ from # Analyzed
  BY <1>0, <1>3, <1>4, StepTypes DEF Moves, TypeOK
<1>5. ~HasRead(t) /\ ~Commits(t) /\ ~Aborts(t) /\ ~ReservesNothing(t) /\ ~Reserves(t)
  BY <1>4, StepTypes DEF HasRead, Commits, Aborts, ReservesNothing, Reserves
<1>6. ~AnalyzesNothing(t) /\ ~RolledBack(t)
  BY <1>3, <1>4, StepTypes DEF AnalyzesNothing, RolledBack, Reserving
<1>7. PICK asked \in SUBSET Reads(t) : Analyzes(t, asked)
  BY <1>1, <1>5, <1>6
<1>8. u = t
  BY <1>4, <1>7, StepTypes DEF Analyzes
<1> QED
  BY <1>7, <1>8

\* A worker takes no flag away, and no answer that is waited for.
LEMMA WorkFlags ==
  ASSUME Discipline, NEW t \in Txns, Work(t), NEW u \in Txns
  PROVE  flags[u] \subseteq flags'[u] /\ pend[u] \subseteq pend'[u]
<1>0. TypeOK
  BY DEF Discipline
<1>1. \/ RolledBack(t) \/ HasRead(t) \/ ReservesNothing(t) \/ Reserves(t)
      \/ AnalyzesNothing(t) \/ Commits(t) \/ Aborts(t)
      \/ \E asked \in SUBSET Reads(t) : Analyzes(t, asked)
  BY <1>0, WorkShape
<1>2. ASSUME NEW type, NEW r, NEW w, Waits(type, t, r, w) PROVE pend[u] \subseteq pend'[u]
  BY <1>0, <1>2, RemoteWaits
<1>3. CASE RolledBack(t) \/ ReservesNothing(t) \/ Reserves(t) \/ AnalyzesNothing(t)
           \/ Commits(t) \/ Aborts(t)
  BY <1>3 DEF RolledBack, ReservesNothing, Reserves, AnalyzesNothing, Commits, Aborts
<1>4. CASE HasRead(t)
  BY <1>2, <1>4 DEF HasRead
<1>5. CASE \E asked \in SUBSET Reads(t) : Analyzes(t, asked)
  <2> PICK asked \in SUBSET Reads(t) : Analyzes(t, asked)
    BY <1>5
  <2>1. flags' = [flags EXCEPT ![t] = @ \cup LocalFlags(t)]
        /\ Waits("CHECK", t, asked, Writes(t))
    BY DEF Analyzes
  <2> QED
    BY <1>0, <1>2, <2>1 DEF TypeOK
<1> QED
  BY <1>1, <1>3, <1>4, <1>5

\* The steps of a worker keep the checks.
LEMMA CheckWork ==
  ASSUME Discipline, ReservesInTime, AllHeld, FlagsFound, AnswersTell, NEW t \in Txns, Work(t)
  PROVE  FlagsFound' /\ AnswersTell'
<1>0. TypeOK
  BY DEF Discipline
<1>1. prog' = prog
  BY <1>0, WorkShape
<1>2. AnswersTell'
  <2> SUFFICES ASSUME NEW m \in Flight', m.type = "CHECK", m.answer
               PROVE  Conflicts(m.txn, m.key, m.write)' \subseteq m.found
    BY DEF AnswersTell
  <2>1. m \in Flight
    BY WorkFlight
  <2>2. Conflicts(m.txn, m.key, m.write)' = Conflicts(m.txn, m.key, m.write)
    BY <1>1, ConflictsFixed
  <2> QED
    BY <2>1, <2>2 DEF AnswersTell
<1>3. FlagsFound'
  <2> SUFFICES ASSUME NEW u \in Analyzers', NEW write \in BOOLEAN, NEW k \in Accesses(u, write)'
               PROVE  Conflicts(u, k, write)' \subseteq flags'[u]
                      \/ <<"CHECK", k, write>> \in pend'[u]
    BY DEF FlagsFound
  <2>1. /\ u \in Txns /\ k \in Accesses(u, write)
        /\ Conflicts(u, k, write)' = Conflicts(u, k, write)
    BY <1>1, ProgramsFixed, ConflictsFixed DEF Analyzers
  <2>2. CASE u \in Analyzers
    <3>1. Conflicts(u, k, write) \subseteq flags[u] \/ <<"CHECK", k, write>> \in pend[u]
      BY <2>1, <2>2 DEF FlagsFound
    <3>2. flags[u] \subseteq flags'[u] /\ pend[u] \subseteq pend'[u]
      BY <2>1, WorkFlags
    <3> QED
      BY <2>1, <3>1, <3>2
  <2>3. CASE u \notin Analyzers
    <3>1. u = t /\ \E asked \in SUBSET Reads(t) : Analyzes(t, asked)
      BY <2>3, NewAnalyzer
    <3>2. PICK asked \in SUBSET Reads(t) : Analyzes(t, asked)
      BY <3>1
    <3>3. Conflicts(t, k, write) \subseteq flags'[t] \/ <<"CHECK", k, write>> \in pend'[t]
      BY <2>1, <3>1, <3>2, AnalyzedKnows
    <3> QED
      BY <2>1, <3>1, <3>3
  <2> QED
    BY <2>2, <2>3
<1> QED
  BY <1>2, <1>3

\* The steps of a handler keep them: a check is answered when every
\* reservation of the batch has arrived.
LEMMA CheckHandler ==
  ASSUME Discipline, ReservesInTime, AllHeld, FlagsFound, AnswersTell,
         NEW c \in Channels, Process(c)
  PROVE  FlagsFound' /\ AnswersTell'
<1> DEFINE m == chan[c][1]
<1>0. TypeOK
  BY DEF Discipline
<1>1. /\ UNCHANGED <<batch, phase, prog, step>>
      /\ m \in Flight /\ m.txn \in Txns /\ m.key \in Keys /\ m.write \in BOOLEAN
      /\ \/ Searched(c, m) \/ Seen(c, m) \/ ReservedAt(c, m)
         \/ Checked(c, m) \/ Told(c, m) \/ Written(c, m)
  BY <1>0, HandlerShape
<1>2. PICK answers :
           /\ Taken(c, answers)
           /\ \A a \in answers :
                /\ a.answer /\ a.type = m.type /\ a.txn = m.txn
                /\ a.key = m.key /\ a.write = m.write
                /\ ~m.answer
                /\ a.type = "CHECK" => a.found = Found(m)
                /\ m.type \in {"SEARCH", "CHECK"}
  BY <1>0, HandlerTakes
<1> HIDE DEF m
<1>3. Flight' \subseteq Flight \cup answers
  BY <1>2, FlightTaken
<1>4. AnswersTell'
  <2> SUFFICES ASSUME NEW n \in Flight', n.type = "CHECK", n.answer
               PROVE  Conflicts(n.txn, n.key, n.write)' \subseteq n.found
    BY DEF AnswersTell
  <2>1. Conflicts(n.txn, n.key, n.write)' = Conflicts(n.txn, n.key, n.write)
    BY <1>1, ConflictsFixed
  <2>2. CASE n \in Flight
    BY <2>1, <2>2 DEF AnswersTell
  <2>3. CASE n \in answers
    <3>1. /\ m.type = "CHECK" /\ n.txn = m.txn /\ n.key = m.key /\ n.write = m.write
          /\ n.found = Found(m)
      BY <1>2, <2>3
    <3>2. phase = "COMMIT" /\ m.txn \in Current
      BY <1>1, <3>1, CountedFacts
    <3>3. /\ Conflicts(m.txn, m.key, FALSE) \subseteq ReadFlags(word[m.key], batch, Tid[m.txn])
          /\ Conflicts(m.txn, m.key, TRUE) \subseteq WriteFlags(word[m.key], batch, Tid[m.txn])
          /\ BatchOf[m.txn] = batch
      BY <1>1, <3>2, WordTells DEF Current
    <3>4. Conflicts(m.txn, m.key, m.write) \subseteq Found(m)
      <4>1. CASE m.write = TRUE
        BY <3>3, <4>1 DEF Found
      <4>2. CASE m.write = FALSE
        BY <3>3, <4>2 DEF Found
      <4> QED
        BY <1>1, <4>1, <4>2
    <3> QED
      BY <2>1, <3>1, <3>4
  <2> QED
    BY <1>3, <2>2, <2>3
<1>5. FlagsFound'
  <2> SUFFICES ASSUME NEW u \in Analyzers', NEW write \in BOOLEAN, NEW k \in Accesses(u, write)'
               PROVE  Conflicts(u, k, write)' \subseteq flags'[u]
                      \/ <<"CHECK", k, write>> \in pend'[u]
    BY DEF FlagsFound
  <2> DEFINE id == <<"CHECK", k, write>>
  <2>1. /\ u \in Txns /\ k \in Accesses(u, write) /\ u \in Analyzers
        /\ Conflicts(u, k, write)' = Conflicts(u, k, write)
    BY <1>1, ProgramsFixed, ConflictsFixed DEF Analyzers
  <2>2. Conflicts(u, k, write) \subseteq flags[u] \/ id \in pend[u]
    BY <2>1 DEF FlagsFound
  <2>3. CASE Seen(c, m)
    <3>1. /\ flags' = flags /\ pend' = [pend EXCEPT ![m.txn] = @ \ {Id(m)}]
          /\ m.type = "SEARCH"
      BY <2>3 DEF Seen
    <3>2. Id(m) # id
      BY <3>1 DEF Id
    <3>3. id \in pend[u] => id \in pend'[u]
      <4> HIDE DEF id
      <4> QED
        BY <1>0, <2>1, <3>1, <3>2 DEF TypeOK
    <3> QED
      BY <2>1, <2>2, <3>1, <3>3
  <2>4. CASE Told(c, m)
    <3>1. /\ flags' = [flags EXCEPT ![m.txn] = @ \cup m.found]
          /\ pend' = [pend EXCEPT ![m.txn] = @ \ {Id(m)}]
          /\ m.type = "CHECK" /\ m.answer
      BY <2>4 DEF Told
    <3>2. flags[u] \subseteq flags'[u] /\ (u = m.txn => m.found \subseteq flags'[u])
      BY <1>0, <1>1, <2>1, <3>1 DEF TypeOK
    <3>3. CASE u = m.txn /\ id = Id(m)
      <4>1. k = m.key /\ write = m.write
        BY <3>3 DEF Id
      <4>2. Conflicts(m.txn, m.key, m.write) \subseteq m.found
        BY <1>1, <3>1 DEF AnswersTell
      <4> QED
        BY <2>1, <3>2, <3>3, <4>1, <4>2
    <3>4. CASE ~(u = m.txn /\ id = Id(m))
      <4>1. id \in pend[u] => id \in pend'[u]
        <5> HIDE DEF id
        <5> QED
          BY <1>0, <1>1, <2>1, <3>1, <3>4 DEF TypeOK
      <4> QED
        BY <2>1, <2>2, <3>2, <4>1
    <3> QED
      BY <3>3, <3>4
  <2>5. CASE Searched(c, m) \/ ReservedAt(c, m) \/ Checked(c, m) \/ Written(c, m)
    <3>1. UNCHANGED <<flags, pend>>
      BY <2>5 DEF Searched, ReservedAt, Checked, Written
    <3> QED
      BY <2>1, <2>2, <3>1
  <2> QED
    BY <1>1, <2>3, <2>4, <2>5
<1> QED
  BY <1>4, <1>5

\* So does every step.
LEMMA ChecksStep ==
  Discipline /\ ReservationsOK /\ ChecksOK /\ [Next]_vars => ChecksOK'
<1> SUFFICES ASSUME Discipline, ReservationsOK, ChecksOK, [Next]_vars
             PROVE  ChecksOK'
  OBVIOUS
<1>0. TypeOK
  BY DEF Discipline
<1>1. lateReserve \/ (ReservesInTime /\ AllHeld /\ FlagsFound /\ AnswersTell)
  BY ReservationParts, CheckParts
<1>2. (ChecksOK <=> lateReserve \/ (FlagsFound /\ AnswersTell))'
  BY CheckParts, PTL
<1>3. ASSUME NEW t \in Txns, Work(t) PROVE ChecksOK'
  <2>1. lateReserve' = lateReserve
    BY <1>0, <1>3, WorkShape
  <2> QED
    BY <1>1, <1>2, <1>3, <2>1, CheckWork
<1>4. ASSUME NEW c \in Channels, Process(c) PROVE ChecksOK'
  <2>1. lateReserve' = lateReserve
    BY <1>0, <1>4, HandlerShape
  <2> QED
    BY <1>1, <1>2, <1>4, <2>1, CheckHandler
<1>5. CASE EndRead \/ EndBatch
  <2>1. lateReserve => lateReserve'
    BY <1>5 DEF EndRead, EndBatch
  <2>2. Flight' = Flight /\ UNCHANGED <<prog, step, pend, flags>>
    BY <1>5, BarrierFacts
  <2>3. \A t, k, write : Conflicts(t, k, write)' = Conflicts(t, k, write)
    BY <2>2, ConflictsFixed
  <2>4. FlagsFound => FlagsFound'
    BY <2>2, <2>3 DEF FlagsFound, Analyzers, Reserving,
      Unreserved, IsReadOnly, Reads, Writes, Accesses
  <2>5. AnswersTell => AnswersTell'
    BY <2>2, <2>3 DEF AnswersTell
  <2> QED
    BY <1>1, <1>2, <2>1, <2>4, <2>5
<1>6. CASE UNCHANGED vars
  <2>1. UNCHANGED <<prog, step, pend, flags, lateReserve>> /\ Flight' = Flight
    BY <1>6 DEF vars, late, Flight
  <2>2. \A t, k, write : Conflicts(t, k, write)' = Conflicts(t, k, write)
    BY <2>1, ConflictsFixed
  <2>3. FlagsFound => FlagsFound'
    BY <2>1, <2>2 DEF FlagsFound, Analyzers, Reserving,
      Unreserved, IsReadOnly, Reads, Writes, Accesses
  <2>4. AnswersTell => AnswersTell'
    BY <2>1, <2>2 DEF AnswersTell
  <2> QED
    BY <1>1, <1>2, <2>1, <2>3, <2>4
<1> QED
  BY <1>3, <1>4, <1>5, <1>6 DEF Next

-----------------------------------------------------------------------------
(* Commits: what has committed knows its conflicts for ever.               *)

\* The flags of a transaction that is decided do not change.
LEMMA FlagsFixed ==
  ASSUME Discipline, [Next]_vars, NEW t \in Committed
  PROVE  flags'[t] = flags[t] /\ outcome'[t] = "committed" /\ t \in Committed'
<1>0. TypeOK /\ StepsOK /\ t \in Txns /\ outcome[t] = "committed" /\ step[t] = Decided
  BY DEF Discipline, Committed, StepsOK
<1>1. SUFFICES flags'[t] = flags[t] /\ outcome'[t] = "committed"
  BY <1>0 DEF Committed
<1>2. ASSUME NEW u \in Txns, Work(u) PROVE flags'[t] = flags[t] /\ outcome'[t] = "committed"
  <2>1. \/ RolledBack(u) \/ HasRead(u) \/ ReservesNothing(u) \/ Reserves(u)
        \/ AnalyzesNothing(u) \/ Commits(u) \/ Aborts(u)
        \/ \E asked \in SUBSET Reads(u) : Analyzes(u, asked)
    BY <1>0, <1>2, WorkShape
  <2>2. ASSUME NEW from, NEW to, Moves(u, from, to), from # Decided PROVE u # t
    BY <1>0, <2>2 DEF Moves
  <2>3. CASE RolledBack(u) \/ Commits(u) \/ Aborts(u)
    <3>1. u # t
      BY <2>2, <2>3, StepTypes DEF RolledBack, Commits, Aborts
    <3> QED
      BY <1>0, <2>3, <3>1 DEF RolledBack, Commits, Aborts, TypeOK
  <2>4. CASE HasRead(u) \/ ReservesNothing(u) \/ Reserves(u) \/ AnalyzesNothing(u)
    BY <1>0, <2>4 DEF HasRead, ReservesNothing, Reserves, AnalyzesNothing
  <2>5. CASE \E asked \in SUBSET Reads(u) : Analyzes(u, asked)
    <3>1. u # t
      BY <2>2, <2>5, StepTypes DEF Analyzes
    <3> QED
      BY <1>0, <2>5, <3>1 DEF Analyzes, TypeOK
  <2> QED
    BY <2>1, <2>3, <2>4, <2>5
<1>3. ASSUME NEW c \in Channels, Process(c)
      PROVE  flags'[t] = flags[t] /\ outcome'[t] = "committed"
  <2> DEFINE m == chan[c][1]
  <2>1. /\ outcome' = outcome /\ m \in Flight /\ m.txn \in Txns
        /\ \/ Searched(c, m) \/ Seen(c, m) \/ ReservedAt(c, m)
           \/ Checked(c, m) \/ Told(c, m) \/ Written(c, m)
    BY <1>0, <1>3, HandlerShape
  <2> HIDE DEF m
  <2>2. CASE Told(c, m)
    <3>1. m.type = "CHECK" /\ flags' = [flags EXCEPT ![m.txn] = @ \cup m.found]
      BY <2>2 DEF Told
    <3>2. m.txn # t
      BY <1>0, <2>1, <3>1, CountedFacts, StepTypes
    <3> QED
      BY <1>0, <2>1, <3>1, <3>2 DEF TypeOK
  <2>3. CASE ~Told(c, m)
    BY <1>0, <2>1, <2>3 DEF Searched, Seen, ReservedAt, Checked, Written
  <2> QED
    BY <2>2, <2>3
<1>4. CASE EndRead \/ EndBatch \/ UNCHANGED vars
  BY <1>0, <1>4 DEF EndRead, EndBatch, vars
<1> QED
  BY <1>2, <1>3, <1>4 DEF Next

\* A transaction commits with the flags it may commit with.
LEMMA NewCommit ==
  ASSUME Discipline, [Next]_vars, NEW t \in Committed', t \notin Committed
  PROVE  Work(t) /\ Commits(t)
<1>0. TypeOK /\ t \in Txns /\ outcome'[t] = "committed" /\ outcome[t] # "committed"
  BY DEF Discipline, Committed
<1>1. ASSUME NEW u \in Txns, Work(u) PROVE Work(t) /\ Commits(t)
  <2>1. \/ RolledBack(u) \/ HasRead(u) \/ ReservesNothing(u) \/ Reserves(u)
        \/ AnalyzesNothing(u) \/ Commits(u) \/ Aborts(u)
        \/ \E asked \in SUBSET Reads(u) : Analyzes(u, asked)
    BY <1>0, <1>1, WorkShape
  <2>2. ~RolledBack(u) /\ ~Aborts(u)
    BY <1>0 DEF RolledBack, Aborts, TypeOK
  <2>3. Commits(u)
    BY <1>0, <2>1, <2>2 DEF HasRead, ReservesNothing, Reserves, AnalyzesNothing, Analyzes
  <2>4. u = t
    BY <1>0, <2>3 DEF Commits, TypeOK
  <2> QED
    BY <1>1, <2>3, <2>4
<1>2. ASSUME NEW c \in Channels, Process(c) PROVE FALSE
  BY <1>0, <1>2, HandlerShape
<1>3. ~EndRead /\ ~EndBatch /\ ~UNCHANGED vars
  BY <1>0 DEF EndRead, EndBatch, vars
<1> QED
  BY <1>1, <1>2, <1>3 DEF Next

\* No step changes a program.
LEMMA ProgramsStep ==
  ASSUME TypeOK, [Next]_vars
  PROVE  prog' = prog
BY WorkShape, HandlerShape DEF Next, EndRead, EndBatch, vars

\* Whoever has committed may commit.
LEMMA CommitsStep == Discipline /\ CommitsOK /\ [Next]_vars => CommitsOK'
<1> SUFFICES ASSUME Discipline, CommitsOK, [Next]_vars, NEW t \in Committed'
             PROVE  MayCommit(t)'
  BY DEF CommitsOK
<1>0. TypeOK /\ prog' = prog
  BY ProgramsStep DEF Discipline
<1>1. ASSUME flags'[t] = flags[t], MayCommit(t) PROVE MayCommit(t)'
  BY <1>0, <1>1 DEF MayCommit, Unreserved, IsReadOnly, Writes
<1>2. CASE t \in Committed
  BY <1>1, <1>2, FlagsFixed DEF CommitsOK
<1>3. CASE t \notin Committed
  BY <1>1, <1>3, NewCommit DEF Commits
<1> QED
  BY <1>2, <1>3

\* A committed transaction that has reserved knows its conflicts.
LEMMA CommittedKnow ==
  ASSUME Discipline, ConflictInv, ~lateReserve, NEW t \in Committed, ~Unreserved(t),
         NEW write \in BOOLEAN, NEW k \in Accesses(t, write)
  PROVE  Conflicts(t, k, write) \subseteq flags[t] /\ MayCommit(t)
<1>1. /\ TypeOK /\ StepsOK /\ t \in Txns /\ outcome[t] = "committed" /\ step[t] = Decided
      /\ FlagsFound /\ CommitsOK
  BY CheckParts DEF Discipline, Committed, StepsOK, ConflictInv
<1>2. t \in Analyzers
  BY <1>1, StepTypes DEF StepsOK, Analyzers, Reserving
<1>3. pend[t] = {}
  BY <1>1, NothingAsked
<1>4. Conflicts(t, k, write) \subseteq flags[t] \/ <<"CHECK", k, write>> \in pend[t]
  BY <1>1, <1>2 DEF FlagsFound
<1> QED
  BY <1>1, <1>3, <1>4 DEF CommitsOK

\* Two transactions of a batch, one of which reads or writes what the other,
\* with the smaller id, reads or writes.
LEMMA ConflictFound ==
  ASSUME Discipline, NEW t \in Committed, NEW u \in Committed, BatchOf[t] = BatchOf[u],
         ~Unreserved(u), Tid[u] < Tid[t], NEW k,
         NEW w \in BOOLEAN, k \in Accesses(u, w)
  PROVE  /\ w => "raw" \in Conflicts(t, k, FALSE) /\ "waw" \in Conflicts(t, k, TRUE)
         /\ ~w => "war" \in Conflicts(t, k, TRUE)
<1>1. u \in Txns /\ BatchOf[u] = BatchOf[t] /\ Reserving(u)
  BY StepTypes DEF Committed, Reserving, Discipline, StepsOK
<1> QED
  BY <1>1 DEF Conflicts, Flags

\* With the conflicts known, the decision to commit gives the order, and of
\* two writers of a row the one with the larger id does not commit.
LEMMA ConflictOrderFollows == Discipline /\ ConflictInv => ConflictOrder
<1> SUFFICES ASSUME Discipline, ConflictInv, ~lateReserve,
                    NEW t \in Committed, NEW u \in Committed, t # u, BatchOf[t] = BatchOf[u]
             PROVE  /\ Writes(t) \cap Writes(u) = {}
                    /\ SnapshotIsolation \/ Reads(t) \cap Writes(u) = {} \/ PrecedesInBatch(t, u)
  BY DEF ConflictOrder
<1>1. /\ t \in Txns /\ u \in Txns
      /\ Tid[t] \in Nat \ {0} /\ Tid[u] \in Nat \ {0}
  BY ConstantTypes DEF Committed
<1>2. Tid[t] # Tid[u]
  BY <1>1, TidAssumption
<1>3. ASSUME NEW x \in Committed, NEW y \in Committed, BatchOf[x] = BatchOf[y],
             Tid[y] < Tid[x], NEW k \in Writes(x) \cap Writes(y)
      PROVE  FALSE
  <2>1. /\ ~Unreserved(x) /\ ~Unreserved(y)
        /\ k \in Accesses(x, TRUE) /\ k \in Accesses(y, TRUE)
    BY DEF Unreserved, IsReadOnly, Accesses
  <2>2. "waw" \in Conflicts(x, k, TRUE)
    BY <1>3, <2>1, ConflictFound
  <2>3. "waw" \in flags[x] /\ MayCommit(x)
    BY <2>1, <2>2, CommittedKnow
  <2> QED
    BY <2>1, <2>3 DEF MayCommit
<1>4. Writes(t) \cap Writes(u) = {}
  <2> SUFFICES ASSUME NEW k \in Writes(t) \cap Writes(u) PROVE FALSE
    OBVIOUS
  <2>1. Tid[t] < Tid[u] \/ Tid[u] < Tid[t]
    BY <1>1, <1>2
  <2> QED
    BY <1>3, <2>1
<1>5. ASSUME ~SnapshotIsolation, NEW k \in Reads(t) \cap Writes(u) PROVE PrecedesInBatch(t, u)
  <2>1. ~Unreserved(u) /\ k \in Accesses(u, TRUE) /\ k \in Accesses(t, FALSE)
    BY DEF Unreserved, IsReadOnly, Accesses
  <2>2. CASE Unreserved(t)
    BY <2>1, <2>2 DEF PrecedesInBatch
  <2>3. CASE ~Unreserved(t) /\ Tid[u] < Tid[t]
    <3>1. "raw" \in Conflicts(t, k, FALSE)
      BY <2>1, <2>3, ConflictFound
    <3>2. "raw" \in flags[t]
      BY <2>1, <2>3, <3>1, CommittedKnow
    <3> QED
      BY <1>1, <2>1, <2>3, <3>2 DEF PrecedesInBatch, Rank
  <2>4. CASE ~Unreserved(t) /\ Tid[t] < Tid[u]
    <3>1. "war" \in Conflicts(u, k, TRUE)
      BY <2>1, <2>4, ConflictFound
    <3>2. "war" \in flags[u] /\ MayCommit(u)
      BY <2>1, <3>1, CommittedKnow
    <3>3. "raw" \notin flags[u]
      BY <1>5, <2>1, <3>2 DEF MayCommit
    <3> QED
      BY <1>1, <2>1, <2>4, <3>3 DEF PrecedesInBatch, Rank
  <2> QED
    BY <1>1, <1>2, <2>2, <2>3, <2>4
<1> QED
  BY <1>4, <1>5

-----------------------------------------------------------------------------
(* The store: it holds what the batches before have left, and the writes   *)
(* of the current one or their messages.                                   *)

InTime == ~lateReserve /\ ~lateWrite

StoreKey(k) ==
  /\ \/ LeftBy(db[k], k, Before(batch))
     \/ db[k] \in Committed \cap Current /\ k \in Writes(db[k])
  /\ \A u \in Committed \cap Current :
       k \in Writes(u) => db[k] = u \/ Requested("WRITE", u, k, TRUE)

\* StoreOK, row by row.
LEMMA StoreParts == StoreOK <=> (InTime => \A k \in Keys : StoreKey(k))
BY DEF StoreOK, InTime, StoreKey

\* What is late stays late.
LEMMA LateStays ==
  ASSUME TypeOK, [Next]_vars, InTime'
  PROVE  InTime
<1>1. ASSUME NEW t \in Txns, Work(t) PROVE InTime
  BY <1>1, WorkShape DEF InTime
<1>2. ASSUME NEW c \in Channels, Process(c) PROVE InTime
  BY <1>2, HandlerShape DEF InTime
<1>3. CASE EndRead
  BY <1>3 DEF EndRead, InTime
<1>4. CASE EndBatch
  BY <1>4 DEF EndBatch, InTime
<1>5. CASE UNCHANGED vars
  BY <1>5 DEF vars, InTime
<1> QED
  BY <1>1, <1>2, <1>3, <1>4, <1>5 DEF Next

\* What some transactions leave is a matter of their programs and flags.
LEMMA LeftByStays ==
  ASSUME prog' = prog, NEW ts, \A t \in ts : flags'[t] = flags[t], NEW v, NEW k
  PROVE  LeftBy(v, k, ts)' <=> LeftBy(v, k, ts)
<1>1. \A t \in ts : Rank(t)' = Rank(t)
  BY DEF Rank
<1>2. \A t : (Unreserved(t)' <=> Unreserved(t)) /\ Writes(t)' = Writes(t)
  BY ProgramsFixed
<1>3. \A t, u \in ts : Precedes(t, u)' <=> Precedes(t, u)
  BY <1>1, <1>2 DEF Precedes, PrecedesInBatch
<1> QED
  BY <1>2, <1>3 DEF LeftBy

\* What the batches before this one leave does not depend on this one.
LEMMA PastLeft ==
  ASSUME Discipline, [Next]_vars, NEW b \in Nat, b <= batch
  PROVE  /\ Before(b)' = Before(b)
         /\ \A v, k : LeftBy(v, k, Before(b))' <=> LeftBy(v, k, Before(b))
<1>0. TypeOK /\ batch \in Nat /\ \A t \in Txns : BatchOf[t] \in Nat
  BY ConstantTypes, BatchAssumption DEF Discipline, TypeOK
<1>1. Before(b)' = Before(b)
  <2>1. ASSUME NEW t \in Before(b) PROVE t \in Before(b)'
    BY FlagsFixed DEF Before
  <2>2. ASSUME NEW t \in Before(b)', t \notin Before(b) PROVE FALSE
    <3>1. t \in Committed' /\ t \notin Committed /\ BatchOf[t] < b /\ t \in Txns
      BY <2>2 DEF Before, Committed
    <3>2. t \in Current
      BY <3>1, NewCommit DEF Commits, Moves
    <3> QED
      BY <1>0, <3>1, <3>2 DEF Current
  <2> QED
    BY <2>1, <2>2
<1>2. prog' = prog
  BY <1>0, ProgramsStep
<1>3. ASSUME NEW v, NEW k
      PROVE  LeftBy(v, k, Before(b))' <=> LeftBy(v, k, Before(b))
  <2>1. PICK ts : ts = Before(b)
    OBVIOUS
  <2>2. \A t \in ts : flags'[t] = flags[t]
    BY <2>1, FlagsFixed DEF Before
  <2>3. LeftBy(v, k, ts)' <=> LeftBy(v, k, ts)
    BY <1>2, <2>2, LeftByStays
  <2>4. Before(b)' = ts
    BY <1>1, <2>1
  <2>5. LeftBy(v, k, Before(b))' <=> LeftBy(v, k, ts)'
    BY <2>4 DEF LeftBy
  <2> QED
    BY <2>1, <2>3, <2>5
<1> QED
  BY <1>1, <1>3

\* A commit is that of a batch that has begun, and none has before the COMMIT
\* phase.
LEMMA CommitsBegun ==
  ASSUME Discipline
  PROVE  /\ \A t \in Committed : t \in Txns /\ BatchOf[t] <= batch
         /\ phase = "READ" => Committed \cap Current = {}
<1>0. TypeOK /\ StepsOK
  BY DEF Discipline
<1>1. ASSUME NEW t \in Committed PROVE t \in Txns /\ BatchOf[t] <= batch
  <2>1. t \in Txns /\ outcome[t] = "committed"
    BY DEF Committed
  <2>2. step[t] = Decided
    BY <1>0, <2>1 DEF StepsOK
  <2>3. ~(BatchOf[t] > batch)
    BY <1>0, <2>1, <2>2, StepTypes DEF StepsOK
  <2>4. BatchOf[t] \in Nat /\ batch \in Nat
    BY <1>0, <2>1, ConstantTypes DEF TypeOK
  <2> QED
    BY <2>1, <2>3, <2>4
<1>2. ASSUME phase = "READ", NEW t \in Committed \cap Current PROVE FALSE
  <2>1. t \in Txns /\ outcome[t] = "committed" /\ t \in Current
    BY DEF Committed
  <2>2. step[t] = Decided
    BY <1>0, <2>1 DEF StepsOK
  <2>3. step[t] \in Generated..Reserved
    BY <1>0, <1>2, <2>1 DEF StepsOK
  <2> QED
    BY <2>2, <2>3, StepTypes
<1> QED
  BY <1>1, <1>2

\* When no write is on its way the store is what all commits have left.
LEMMA StoreSettled ==
  ASSUME Discipline, NEW k \in Keys, StoreKey(k),
         \A u : ~Requested("WRITE", u, k, TRUE)
  PROVE  /\ LeftBy(db[k], k, Committed)
         /\ Committed = Before(batch + 1)
<1>0. batch \in Nat /\ \A t \in Txns : BatchOf[t] \in Nat
  BY ConstantTypes DEF Discipline, TypeOK
<1>1. \A u \in Committed : u \in Txns /\ (u \in Before(batch) \/ u \in Current)
  BY <1>0, CommitsBegun DEF Before, Current
<1>2. \A u \in Committed \cap Current : k \in Writes(u) => db[k] = u
  BY DEF StoreKey
<1>3. Committed = Before(batch + 1)
  BY <1>0, <1>1 DEF Before, Current, Committed
<1>4. CASE \E u \in Committed \cap Current : k \in Writes(u)
  <2>1. db[k] \in Committed \cap Current /\ k \in Writes(db[k])
    BY <1>2, <1>4
  <2>2. \A u \in Committed : k \in Writes(u) => u = db[k] \/ Precedes(u, db[k])
    BY <1>1, <1>2, <2>1 DEF Before, Current, Precedes
  <2> QED
    BY <1>3, <2>1, <2>2 DEF LeftBy
<1>5. CASE ~\E u \in Committed \cap Current : k \in Writes(u)
  <2>1. LeftBy(db[k], k, Before(batch))
    BY <1>5 DEF StoreKey
  <2>2. {u \in Committed : k \in Writes(u)} = {u \in Before(batch) : k \in Writes(u)}
    BY <1>1, <1>5 DEF Before
  <2> QED
    BY <1>3, <2>1, <2>2 DEF LeftBy
<1> QED
  BY <1>4, <1>5

\* A step that neither commits nor writes keeps a row, if it takes no write
\* of the row out of flight.
LEMMA StoreKept ==
  ASSUME Discipline, [Next]_vars, NEW k \in Keys, StoreKey(k),
         batch' = batch, Committed' = Committed, db'[k] = db[k],
         \A m \in Flight : m.type = "WRITE" /\ m.key = k => m \in Flight'
  PROVE  StoreKey(k)'
<1>0. TypeOK /\ batch \in Nat /\ batch <= batch
  BY DEF Discipline, TypeOK
<1>1. prog' = prog /\ Current' = Current
  BY <1>0, ProgramsStep DEF Current
<1>2. LeftBy(db[k], k, Before(batch))' <=> LeftBy(db[k], k, Before(batch))
  <2>1. PICK b : b = batch
    OBVIOUS
  <2>2. PICK v : v = db[k]
    OBVIOUS
  <2>3. LeftBy(v, k, Before(b))' <=> LeftBy(v, k, Before(b))
    BY <1>0, <2>1, PastLeft
  <2>4. LeftBy(db[k], k, Before(batch))' <=> LeftBy(v, k, Before(b))'
    BY <2>1, <2>2 DEF LeftBy, Before
  <2> QED
    BY <2>1, <2>2, <2>3, <2>4
<1>3. \A u : Writes(u)' = Writes(u)
  BY <1>1, ProgramsFixed
<1>4. \A u : Requested("WRITE", u, k, TRUE) => Requested("WRITE", u, k, TRUE)'
  BY DEF Requested, IsRequest
<1> QED
  BY <1>1, <1>2, <1>3, <1>4 DEF StoreKey

\* A commit writes its local rows and sends the writes of the others.
LEMMA StoreCommit ==
  ASSUME Discipline, [Next]_vars, ConflictOrder', ~lateReserve',
         NEW t \in Txns, Work(t), Commits(t),
         NEW k \in Keys, StoreKey(k)
  PROVE  StoreKey(k)'
<1>0. /\ TypeOK /\ TypeOK' /\ batch \in Nat /\ batch <= batch /\ prog' = prog /\ batch' = batch
      /\ Current' = Current /\ t \in Current
  <2>1. TypeOK /\ TypeOK'
    BY TypeStep DEF Discipline
  <2>2. batch \in Nat /\ batch <= batch
    BY <2>1 DEF TypeOK
  <2>3. prog' = prog /\ batch' = batch
    BY <2>1, WorkShape
  <2>4. Current' = Current /\ t \in Current
    BY <2>3 DEF Current, Commits, Moves
  <2> QED
    BY <2>1, <2>2, <2>3, <2>4
<1>1. /\ outcome' = [outcome EXCEPT ![t] = "committed"]
      /\ db' = [x \in Keys |-> IF x \in Local(t, Writes(t)) THEN t ELSE db[x]]
      /\ Sends("WRITE", t, {}, Writes(t))
  BY DEF Commits
<1>2. Committed' = Committed \cup {t}
  BY <1>0, <1>1 DEF Committed, TypeOK
<1>3. \A u : Writes(u)' = Writes(u)
  BY <1>0, ProgramsFixed
<1>4. \A u \in Committed : u \in Current /\ u # t => Writes(t) \cap Writes(u) = {}
  <2> SUFFICES ASSUME NEW u \in Committed, u \in Current, u # t
               PROVE  Writes(t) \cap Writes(u) = {}
    OBVIOUS
  <2>1. t \in Committed' /\ u \in Committed' /\ BatchOf[t] = BatchOf[u]
    BY <1>0, <1>2 DEF Current
  <2>2. Writes(t)' \cap Writes(u)' = {}
    BY <2>1 DEF ConflictOrder
  <2> QED
    BY <1>3, <2>2
<1>5. LeftBy(db[k], k, Before(batch)) => LeftBy(db[k], k, Before(batch))'
                                         \/ k \in Local(t, Writes(t))
  <2> SUFFICES ASSUME LeftBy(db[k], k, Before(batch)), k \notin Local(t, Writes(t))
               PROVE  LeftBy(db[k], k, Before(batch))'
    OBVIOUS
  <2>1. PICK b : b = batch
    OBVIOUS
  <2>2. PICK v : v = db[k]
    OBVIOUS
  <2>3. LeftBy(v, k, Before(b))' <=> LeftBy(v, k, Before(b))
    BY <1>0, <2>1, PastLeft
  <2>4. db'[k] = v /\ batch' = b
    BY <1>0, <1>1, <2>1, <2>2
  <2>5. LeftBy(db[k], k, Before(batch))' <=> LeftBy(v, k, Before(b))'
    BY <2>4 DEF LeftBy, Before
  <2> QED
    BY <2>1, <2>2, <2>3, <2>5
<1>6. \/ LeftBy(db[k], k, Before(batch))'
      \/ db'[k] \in Committed' \cap Current' /\ k \in Writes(db'[k])
  <2>1. CASE k \in Local(t, Writes(t))
    BY <1>0, <1>1, <1>2, <2>1 DEF Local
  <2>2. CASE k \notin Local(t, Writes(t))
    <3>1. db'[k] = db[k]
      BY <1>1, <2>2
    <3> QED
      BY <1>0, <1>2, <1>5, <2>2, <3>1 DEF StoreKey
  <2> QED
    BY <2>1, <2>2
<1>7. ASSUME NEW u \in Committed', u \in Current, k \in Writes(u)
      PROVE  db'[k] = u \/ Requested("WRITE", u, k, TRUE)'
  <2>1. CASE u = t
    <3>1. CASE k \in Local(t, Writes(t))
      BY <1>1, <2>1, <3>1
    <3>2. CASE k \notin Local(t, Writes(t))
      <4>1. k \in Remote(t, IF TRUE THEN Writes(t) ELSE {}) /\ TRUE \in BOOLEAN
        BY <1>7, <2>1, <3>2 DEF Local, Remote
      <4> QED
        BY <1>1, <2>1, <4>1, AskedInFlight
    <3> QED
      BY <3>1, <3>2
  <2>2. CASE u # t
    <3>1. u \in Committed /\ k \notin Writes(t)
      BY <1>2, <1>4, <1>7, <2>2
    <3>2. db'[k] = db[k]
      BY <1>1, <3>1 DEF Local
    <3>3. db[k] = u \/ Requested("WRITE", u, k, TRUE)
      BY <1>7, <3>1 DEF StoreKey
    <3>4. Requested("WRITE", u, k, TRUE) => Requested("WRITE", u, k, TRUE)'
      BY <1>1 DEF Sends, Requested, IsRequest
    <3> QED
      BY <3>2, <3>3, <3>4
  <2> QED
    BY <2>1, <2>2
<1> QED
  BY <1>0, <1>3, <1>6, <1>7 DEF StoreKey

\* A write that arrives is that of the one commit of the batch that writes
\* the row.
LEMMA StoreWrite ==
  ASSUME Discipline, SnapshotTaken, [Next]_vars, ConflictOrder, ~lateReserve, ~lateWrite,
         NEW c \in Channels, Process(c), Written(c, chan[c][1]),
         NEW k \in Keys, StoreKey(k)
  PROVE  StoreKey(k)'
<1> DEFINE m == chan[c][1]
<1>0. /\ TypeOK /\ MessagesOK /\ UNCHANGED <<batch, phase, prog, outcome>>
      /\ m \in Flight /\ m.txn \in Txns /\ m.key \in Keys
  BY HandlerShape DEF Discipline
<1>1. /\ m.type = "WRITE" /\ Taken(c, {}) /\ db' = [db EXCEPT ![m.key] = m.txn]
  BY DEF Written
<1>2. Flight \subseteq Flight' \cup {m}
  BY <1>1, FlightTaken
<1> HIDE DEF m
<1>3. m.txn \in Committed \cap Current /\ m.key \in Writes(m.txn) /\ m.write
  <2>1. m.write /\ outcome[m.txn] = "committed" /\ m.key \in Accesses(m.txn, m.write)
    BY <1>0, <1>1, FlightFacts
  <2>2. m.txn \in Current
    BY <1>0, <1>1 DEF SnapshotTaken
  <2> QED
    BY <1>0, <2>1, <2>2 DEF Committed, Accesses
<1>4. Committed' = Committed /\ Current' = Current /\ \A u : Writes(u)' = Writes(u)
  BY <1>0, ProgramsFixed DEF Committed, Current
<1>5. CASE k = m.key
  <2>1. db'[k] = m.txn
    BY <1>0, <1>1, <1>5 DEF TypeOK
  <2>2. ASSUME NEW u \in Committed \cap Current, k \in Writes(u) PROVE u = m.txn
    <3>1. u # m.txn => Writes(u) \cap Writes(m.txn) = {}
      BY <1>3 DEF ConflictOrder, Current
    <3> QED
      BY <1>3, <1>5, <2>2, <3>1
  <2> QED
    BY <1>3, <1>4, <1>5, <2>1, <2>2 DEF StoreKey
<1>6. CASE k # m.key
  <2>1. db'[k] = db[k]
    BY <1>0, <1>1, <1>6 DEF TypeOK
  <2>2. \A n \in Flight : n.type = "WRITE" /\ n.key = k => n \in Flight'
    BY <1>2, <1>6
  <2> QED
    BY <1>0, <1>4, <2>1, <2>2, StoreKept
<1> QED
  BY <1>5, <1>6

\* At the end of a batch, with no write late, the store is settled.
LEMMA StoreEnd ==
  ASSUME Discipline, [Next]_vars, EndBatch, ~lateWrite', NEW k \in Keys, StoreKey(k)
  PROVE  StoreKey(k)'
<1>0. /\ TypeOK /\ batch \in Nat /\ ~InFlight("WRITE")
      /\ batch' = batch \/ batch' = batch + 1
  <2>1. TypeOK /\ batch \in Nat
    BY DEF Discipline, TypeOK
  <2>2. ~InFlight("WRITE")
    BY DEF EndBatch
  <2>3. batch' = batch \/ batch' = batch + 1
    BY DEF EndBatch
  <2> QED
    BY <2>1, <2>2, <2>3
<1>1. UNCHANGED <<prog, outcome, flags, db, chan, step>> /\ Flight' = Flight
  BY BarrierFacts
<1>2. \A u : ~Requested("WRITE", u, k, TRUE)
  BY <1>0, InFlightFacts DEF Requested, IsRequest
<1>3. Committed' = Committed
  BY <1>1 DEF Committed
<1>4. CASE batch' = batch
  <2>1. \A n \in Flight : n.type = "WRITE" /\ n.key = k => n \in Flight'
    BY <1>1
  <2> QED
    BY <1>1, <1>3, <1>4, <2>1, StoreKept
<1>5. CASE batch' = batch + 1
  <2>1. LeftBy(db[k], k, Committed) /\ Committed = Before(batch + 1)
    BY <1>2, StoreSettled
  <2>2. LeftBy(db[k], k, Before(batch))'
    <3>1. PICK ts : ts = Committed
      OBVIOUS
    <3>2. PICK v : v = db[k]
      OBVIOUS
    <3>3. LeftBy(v, k, ts)' <=> LeftBy(v, k, ts)
      BY <1>1, LeftByStays
    <3>4. Before(batch)' = ts
      BY <1>3, <1>5, <2>1, <3>1 DEF Before
    <3>5. LeftBy(db[k], k, Before(batch))' <=> LeftBy(v, k, ts)'
      BY <1>1, <3>2, <3>4 DEF LeftBy
    <3> QED
      BY <2>1, <3>1, <3>2, <3>3, <3>5
  <2>3. Committed' \cap Current' = {}
    <3>1. \A t \in Committed : BatchOf[t] <= batch /\ BatchOf[t] \in Nat
      BY CommitsBegun, ConstantTypes
    <3> QED
      BY <1>0, <1>3, <1>5, <3>1 DEF Current
  <2> QED
    BY <2>2, <2>3 DEF StoreKey
<1> QED
  BY <1>0, <1>4, <1>5

\* The store follows the commits.
LEMMA StoreStep ==
  Discipline /\ SnapshotTaken /\ ConflictOrder /\ ConflictOrder' /\ StoreOK /\ [Next]_vars
    => StoreOK'
<1> SUFFICES ASSUME Discipline, SnapshotTaken, ConflictOrder, ConflictOrder', StoreOK,
                    [Next]_vars
             PROVE  StoreOK'
  OBVIOUS
<1>0. TypeOK /\ MessagesOK /\ (StoreOK <=> (InTime => \A k \in Keys : StoreKey(k)))'
  BY StoreParts, PTL DEF Discipline
<1> SUFFICES ASSUME InTime', NEW k \in Keys PROVE StoreKey(k)'
  BY <1>0
<1>1. InTime /\ ~lateReserve /\ ~lateWrite /\ ~lateReserve' /\ ~lateWrite'
  BY <1>0, LateStays DEF InTime
<1>2. StoreKey(k)
  BY <1>1, StoreParts
<1>3. ASSUME NEW t \in Txns, Work(t) PROVE StoreKey(k)'
  <2>1. CASE Commits(t)
    BY <1>1, <1>2, <1>3, <2>1, StoreCommit
  <2>2. CASE ~Commits(t)
    <3>1. /\ batch' = batch
          /\ \/ RolledBack(t) \/ HasRead(t) \/ ReservesNothing(t) \/ Reserves(t)
             \/ AnalyzesNothing(t) \/ Aborts(t)
             \/ \E asked \in SUBSET Reads(t) : Analyzes(t, asked)
      BY <1>0, <1>3, <2>2, WorkShape
    <3>2. db' = db
      BY <3>1 DEF RolledBack, HasRead, ReservesNothing, Reserves, AnalyzesNothing, Aborts, Analyzes
    <3>3. Committed' = Committed
      <4>1. \A u \in Committed : u \in Committed'
        BY FlagsFixed
      <4>2. \A u \in Committed' : u \notin Committed => Work(u) /\ Commits(u)
        BY NewCommit
      <4>3. \A u \in Txns : u # t => outcome'[u] = outcome[u]
        BY <1>0, <3>1 DEF RolledBack, HasRead, ReservesNothing, Reserves, AnalyzesNothing, Aborts,
          Analyzes, TypeOK
      <4> QED
        BY <2>2, <4>1, <4>2, <4>3 DEF Committed
    <3>4. \A m \in Flight : m.type = "WRITE" /\ m.key = k => m \in Flight'
      <4>1. ASSUME chan' = chan PROVE Flight' = Flight
        BY <4>1 DEF Flight
      <4> QED
        BY <3>1, <4>1 DEF RolledBack, HasRead, ReservesNothing, Reserves, AnalyzesNothing, Aborts,
          Analyzes, Sends
    <3> QED
      BY <1>2, <3>1, <3>2, <3>3, <3>4, StoreKept
  <2> QED
    BY <2>1, <2>2
<1>4. ASSUME NEW c \in Channels, Process(c) PROVE StoreKey(k)'
  <2> DEFINE m == chan[c][1]
  <2>1. CASE Written(c, m)
    BY <1>1, <1>2, <1>4, <2>1, StoreWrite
  <2>2. CASE ~Written(c, m)
    <3>1. /\ UNCHANGED <<batch, outcome>>
          /\ \/ Searched(c, m) \/ Seen(c, m) \/ ReservedAt(c, m)
             \/ Checked(c, m) \/ Told(c, m)
      BY <1>0, <1>4, <2>2, HandlerShape
    <3>2. PICK answers : Taken(c, answers)
      BY <1>0, <1>4, HandlerTakes
    <3>3. Flight \subseteq Flight' \cup {m}
      BY <3>2, FlightTaken
    <3> HIDE DEF m
    <3>4. db' = db /\ m.type # "WRITE"
      BY <3>1 DEF Searched, Seen, ReservedAt, Checked, Told
    <3>5. \A n \in Flight : n.type = "WRITE" /\ n.key = k => n \in Flight'
      BY <3>3, <3>4
    <3>6. Committed' = Committed
      BY <3>1 DEF Committed
    <3> QED
      BY <1>2, <3>1, <3>4, <3>5, <3>6, StoreKept
  <2> QED
    BY <2>1, <2>2
<1>5. CASE EndRead
  <2>1. UNCHANGED <<outcome, db>> /\ Flight' = Flight
    BY <1>5, BarrierFacts
  <2>2. batch' = batch /\ Committed' = Committed
    BY <1>5, <2>1 DEF EndRead, Committed
  <2> QED
    BY <1>2, <2>1, <2>2, StoreKept
<1>6. CASE EndBatch
  BY <1>1, <1>2, <1>6, StoreEnd
<1>7. CASE UNCHANGED vars
  <2>1. UNCHANGED <<batch, outcome, db>> /\ Flight' = Flight
    BY <1>7 DEF vars, Flight
  <2>2. Committed' = Committed
    BY <2>1 DEF Committed
  <2> QED
    BY <1>2, <2>1, <2>2, StoreKept
<1> QED
  BY <1>3, <1>4, <1>5, <1>6, <1>7 DEF Next

-----------------------------------------------------------------------------
(* Reads: what a transaction has read is what the batches before its own   *)
(* have left.                                                              *)

Readers == {t \in Txns : ~prog[t].rollback /\ step[t] >= Reserved}

HasReadBefore(t) == \A k \in Reads(t) : LeftBy(seen[t][k], k, Before(BatchOf[t]))

\* ReadsOK, transaction by transaction.
LEMMA ReadParts == ReadsOK <=> (InTime => \A t \in Readers : HasReadBefore(t))
BY DEF ReadsOK, InTime, Readers, HasReadBefore

\* A transaction that has reserved reads nothing more.
LEMMA SeenFixed ==
  ASSUME Discipline, [Next]_vars, NEW t \in Txns, step[t] >= Reserved
  PROVE  seen'[t] = seen[t]
<1>0. TypeOK
  BY DEF Discipline
<1>1. ASSUME NEW u \in Txns, Work(u) PROVE seen'[t] = seen[t]
  <2>1. \/ RolledBack(u) \/ HasRead(u) \/ ReservesNothing(u) \/ Reserves(u)
        \/ AnalyzesNothing(u) \/ Commits(u) \/ Aborts(u)
        \/ \E asked \in SUBSET Reads(u) : Analyzes(u, asked)
    BY <1>0, <1>1, WorkShape
  <2>2. CASE HasRead(u)
    <3>1. u # t
      BY <2>2, StepTypes DEF HasRead, Moves
    <3>2. seen' = [seen EXCEPT ![u] = [k \in Keys |-> IF k \in Local(u, Reads(u))
                                                 THEN db[k] ELSE @[k]]]
      BY <2>2 DEF HasRead
    <3> QED
      BY <1>0, <3>1, <3>2 DEF TypeOK
  <2>3. CASE ~HasRead(u)
    BY <2>1, <2>3 DEF RolledBack, ReservesNothing, Reserves, AnalyzesNothing, Commits, Aborts,
      Analyzes
  <2> QED
    BY <2>2, <2>3
<1>2. ASSUME NEW c \in Channels, Process(c) PROVE seen'[t] = seen[t]
  <2> DEFINE m == chan[c][1]
  <2>1. /\ m \in Flight /\ m.txn \in Txns
        /\ \/ Searched(c, m) \/ Seen(c, m) \/ ReservedAt(c, m)
           \/ Checked(c, m) \/ Told(c, m) \/ Written(c, m)
    BY <1>0, <1>2, HandlerShape
  <2> HIDE DEF m
  <2>2. CASE Seen(c, m)
    <3>1. /\ m.type = "SEARCH"
          /\ seen' = [seen EXCEPT ![m.txn] = [@ EXCEPT ![m.key] = m.val]]
      BY <2>2 DEF Seen
    <3>2. m.txn # t
      BY <2>1, <3>1, CountedFacts, StepTypes
    <3> QED
      BY <1>0, <2>1, <3>1, <3>2 DEF TypeOK
  <2>3. CASE ~Seen(c, m)
    BY <2>1, <2>3 DEF Searched, ReservedAt, Checked, Told, Written
  <2> QED
    BY <2>2, <2>3
<1>3. CASE EndRead \/ EndBatch
  BY <1>3, BarrierFacts
<1>4. CASE UNCHANGED vars
  BY <1>4 DEF vars
<1> QED
  BY <1>1, <1>2, <1>3, <1>4 DEF Next

\* A transaction that comes among the readers has just reserved, and waits
\* for nothing.
LEMMA NewReader ==
  ASSUME Discipline, [Next]_vars, NEW t \in Readers', t \notin Readers
  PROVE  /\ phase = "READ" /\ t \in Current /\ t \in Txns
         /\ step[t] = Executed /\ pend[t] = {}
         /\ UNCHANGED <<seen, prog>>
<1>0. TypeOK /\ prog' = prog
  BY ProgramsStep DEF Discipline
<1>1. t \in Txns /\ ~prog[t].rollback /\ step'[t] >= Reserved /\ ~(step[t] >= Reserved)
  BY <1>0 DEF Readers
<1>2. ASSUME NEW u \in Txns, Work(u)
      PROVE  u = t /\ (ReservesNothing(u) \/ Reserves(u))
  <2>1. \/ RolledBack(u) \/ HasRead(u) \/ ReservesNothing(u) \/ Reserves(u)
        \/ AnalyzesNothing(u) \/ Commits(u) \/ Aborts(u)
        \/ \E asked \in SUBSET Reads(u) : Analyzes(u, asked)
    BY <1>0, <1>2, WorkShape
  <2>2. ASSUME NEW from, NEW to, Moves(u, from, to)
        PROVE  u = t /\ to >= Reserved /\ ~(from >= Reserved)
    BY <1>0, <1>1, <2>2 DEF Moves, TypeOK
  <2>3. ~HasRead(u) /\ ~AnalyzesNothing(u) /\ ~Commits(u) /\ ~Aborts(u)
        /\ ~\E asked \in SUBSET Reads(u) : Analyzes(u, asked)
    BY <2>2, StepTypes DEF HasRead, AnalyzesNothing, Commits, Aborts, Analyzes
  <2>4. ~RolledBack(u)
    BY <1>1, <2>2 DEF RolledBack
  <2>5. ReservesNothing(u) \/ Reserves(u)
    BY <2>1, <2>3, <2>4
  <2> QED
    BY <2>2, <2>5 DEF ReservesNothing, Reserves
<1>3. ASSUME NEW c \in Channels, Process(c) PROVE FALSE
  BY <1>0, <1>1, <1>3, HandlerShape
<1>4. ~(EndRead \/ EndBatch)
  BY <1>1, BarrierFacts
<1>5. ~UNCHANGED vars
  BY <1>1 DEF vars
<1>6. ReservesNothing(t) \/ Reserves(t)
  BY <1>2, <1>3, <1>4, <1>5 DEF Next
<1> QED
  BY <1>0, <1>1, <1>6 DEF ReservesNothing, Reserves, Moves

\* Reads follow the store.
LEMMA ReadsStep ==
  Discipline /\ SnapshotTaken /\ StoreOK /\ ReadsOK /\ [Next]_vars => ReadsOK'
<1> SUFFICES ASSUME Discipline, SnapshotTaken, StoreOK, ReadsOK, [Next]_vars PROVE ReadsOK'
  OBVIOUS
<1>0. /\ TypeOK /\ StepsOK /\ (ReadsOK <=> (InTime => \A t \in Readers : HasReadBefore(t)))'
      /\ prog' = prog
  BY ReadParts, ProgramsStep, PTL DEF Discipline
<1> SUFFICES ASSUME InTime', NEW t \in Readers' PROVE HasReadBefore(t)'
  BY <1>0
<1>1. InTime /\ ~lateWrite
  BY <1>0, LateStays DEF InTime
<1>2. t \in Txns /\ BatchOf[t] \in Nat /\ batch \in Nat /\ Reads(t)' = Reads(t)
  BY <1>0, ConstantTypes, ProgramsFixed DEF Readers, TypeOK
<1>3. ASSUME BatchOf[t] <= batch, seen'[t] = seen[t], HasReadBefore(t) PROVE HasReadBefore(t)'
  <2> SUFFICES ASSUME NEW k \in Reads(t) PROVE LeftBy(seen[t][k], k, Before(BatchOf[t]))'
    BY <1>2 DEF HasReadBefore
  <2>1. PICK b : b = BatchOf[t]
    OBVIOUS
  <2>2. PICK v : v = seen[t][k]
    OBVIOUS
  <2>3. LeftBy(v, k, Before(b))' <=> LeftBy(v, k, Before(b))
    BY <1>2, <1>3, <2>1, PastLeft
  <2>4. LeftBy(seen[t][k], k, Before(BatchOf[t]))' <=> LeftBy(v, k, Before(b))'
    BY <1>3, <2>1, <2>2 DEF LeftBy, Before
  <2>5. LeftBy(seen[t][k], k, Before(BatchOf[t]))
    BY <1>3 DEF HasReadBefore
  <2> QED
    BY <2>1, <2>2, <2>3, <2>4, <2>5
<1>4. CASE t \in Readers
  <2>1. HasReadBefore(t) /\ step[t] >= Reserved
    BY <1>1, <1>4, ReadParts DEF Readers
  <2>2. ~(BatchOf[t] > batch)
    BY <1>0, <1>2, <2>1, StepTypes DEF StepsOK
  <2>3. seen'[t] = seen[t]
    BY <1>2, <2>1, SeenFixed
  <2> QED
    BY <1>2, <1>3, <2>1, <2>2, <2>3
<1>5. CASE t \notin Readers
  <2>1. /\ phase = "READ" /\ t \in Current /\ step[t] = Executed /\ pend[t] = {}
        /\ seen' = seen
    BY <1>5, NewReader
  <2>2. Committed \cap Current = {} /\ BatchOf[t] = batch
    BY <2>1, CommitsBegun DEF Current
  <2>3. HasReadBefore(t)
    <3> SUFFICES ASSUME NEW k \in Reads(t) PROVE LeftBy(seen[t][k], k, Before(batch))
      BY <2>2 DEF HasReadBefore
    <3>1. k \in Keys
      BY <1>0, <1>2, AccessTypes
    <3>2. seen[t][k] = db[k]
      BY <1>1, <2>1 DEF SnapshotTaken
    <3>3. StoreKey(k)
      BY <1>1, <3>1, StoreParts
    <3>4. LeftBy(db[k], k, Before(batch))
      BY <2>2, <3>3 DEF StoreKey
    <3> QED
      BY <3>2, <3>4
  <2> QED
    BY <1>2, <1>3, <2>1, <2>2, <2>3
<1> QED
  BY <1>4, <1>5

-----------------------------------------------------------------------------
(* The inductive invariant as a whole, and what follows from it.           *)

\* At the start nothing has committed, been written or been read.
LEMMA BatchInit == Init => BatchInv
<1> SUFFICES ASSUME Init PROVE BatchInv
  OBVIOUS
<1>1. Discipline /\ SnapshotTaken /\ EpochsOK /\ ReservationsOK /\ ChecksOK
  BY DisciplineInit, SnapshotInit, EpochInit, ReservationInit, CheckInit
<1>2. /\ \A t \in Txns : outcome[t] = "none" /\ step[t] = Generated
      /\ \A k \in Keys : db[k] = NoTxn
  BY DEF Init
<1>3. Committed = {}
  BY <1>2 DEF Committed
<1>4. CommitsOK
  BY <1>3 DEF CommitsOK
<1>5. StoreOK
  <2>1. \A k \in Keys : StoreKey(k)
    BY <1>2, <1>3 DEF StoreKey, LeftBy, Before
  <2> QED
    BY <2>1, StoreParts
<1>6. ReadsOK
  <2>1. Readers = {}
    BY <1>2, StepTypes DEF Readers
  <2> QED
    BY <2>1, ReadParts
<1> QED
  BY <1>1, <1>4, <1>5, <1>6 DEF BatchInv, ConflictInv, SerialInv

\* ... and every step keeps it.
LEMMA BatchStep == EpochsFit /\ BatchInv /\ [Next]_vars => BatchInv'
<1> SUFFICES ASSUME EpochsFit, BatchInv, [Next]_vars PROVE BatchInv'
  OBVIOUS
<1>1. /\ Discipline /\ SnapshotTaken /\ EpochsOK /\ ReservationsOK /\ ChecksOK /\ CommitsOK
      /\ StoreOK /\ ReadsOK /\ ConflictInv
  BY DEF BatchInv, ConflictInv, SerialInv
<1>2. Discipline' /\ SnapshotTaken' /\ EpochsOK'
  BY <1>1, DisciplineStep, SnapshotStep, EpochsStep
<1>3. ReservationsOK' /\ ChecksOK' /\ CommitsOK'
  BY <1>1, ReservationsStep, ChecksStep, CommitsStep
<1>4. ConflictInv'
  BY <1>3 DEF ConflictInv
<1>5. ConflictOrder
  BY <1>1, ConflictOrderFollows
<1>6. ConflictOrder'
  <2>1. (Discipline /\ ConflictInv => ConflictOrder)'
    BY ConflictOrderFollows, PTL
  <2> QED
    BY <1>2, <1>4, <2>1
<1>7. StoreOK' /\ ReadsOK'
  BY <1>1, <1>5, <1>6, StoreStep, ReadsStep
<1> QED
  BY <1>2, <1>4, <1>7 DEF BatchInv, SerialInv

\* The inductive invariant of the batches holds, for every number of batches
\* whose epochs fit the word.
THEOREM BatchInvHolds ==
  ASSUME EpochsFit PROVE Spec => []BatchInv
<1>1. BatchInv /\ [Next]_vars => BatchInv'
  BY BatchStep
<1> QED
  BY <1>1, BatchInit, PTL DEF Spec

\* Commits of a batch that touch the same rows are equivalent to a serial
\* execution in the order Precedes, and no two of them write the same row.
THEOREM ConflictOrderHolds ==
  ASSUME EpochsFit PROVE Spec => []ConflictOrder
<1>1. BatchInv => ConflictOrder
  BY ConflictOrderFollows DEF BatchInv
<1> QED
  BY <1>1, BatchInvHolds, PTL

\* Serializability of Aria.  As long as no reservation and no write outlives
\* its phase, the committed transactions have read, and the store holds, what
\* executing them one after the other in the order Precedes gives: the commit
\* decision of commit_transactions with the flags of analyze_dependency.
THEOREM SerializableUnlessLateHolds ==
  ASSUME EpochsFit PROVE Spec => []SerializableUnlessLate
<1>1. ASSUME BatchInv PROVE SerializableUnlessLate
  <2> SUFFICES ASSUME InTime, ~SnapshotIsolation PROVE SerialExecution
    BY DEF SerializableUnlessLate, InTime
  <2>1. /\ Discipline /\ TypeOK /\ StepsOK /\ ConflictOrder /\ StoreOK /\ ReadsOK
        /\ batch \in Nat /\ \A t \in Txns : BatchOf[t] \in Nat /\ Tid[t] \in Nat
        /\ ~lateReserve
    BY <1>1, ConflictOrderFollows, ConstantTypes
    DEF BatchInv, SerialInv, Discipline, TypeOK, InTime
  <2>2. ASSUME NEW t \in Committed, NEW k \in Reads(t)
        PROVE  LeftBy(seen[t][k], k, {u \in Committed : Precedes(u, t)})
    <3>1. /\ t \in Txns /\ outcome[t] = "committed" /\ step[t] = Decided
      BY <2>1 DEF Committed, StepsOK
    <3>2. t \in Readers
      BY <2>1, <3>1, StepTypes DEF StepsOK, Readers
    <3>3. LeftBy(seen[t][k], k, Before(BatchOf[t]))
      BY <2>1, <3>2, ReadParts DEF HasReadBefore
    <3>4. ASSUME NEW u \in Committed, k \in Writes(u), BatchOf[u] = BatchOf[t],
                 PrecedesInBatch(u, t)
          PROVE  FALSE
      <4>1. Rank(t) \in Int /\ Rank(u) \in Int
        BY <2>1 DEF Rank, Committed
      <4>2. ~PrecedesInBatch(t, u) /\ t # u
        BY <3>4, <4>1 DEF PrecedesInBatch
      <4> QED
        BY <2>1, <3>4, <4>2 DEF ConflictOrder
    <3>5. {u \in {v \in Committed : Precedes(v, t)} : k \in Writes(u)} =
          {u \in Before(BatchOf[t]) : k \in Writes(u)}
      BY <3>4 DEF Before, Precedes
    <3> QED
      BY <3>3, <3>5 DEF LeftBy
  <2>3. ASSUME phase # "COMMIT", ~InFlight("WRITE"), NEW k \in Keys
        PROVE  LeftBy(db[k], k, Committed)
    <3>1. \A u : ~Requested("WRITE", u, k, TRUE)
      BY <2>1, <2>3, InFlightFacts DEF Requested, IsRequest
    <3>2. StoreKey(k)
      BY <2>1, StoreParts
    <3> QED
      BY <2>1, <3>1, <3>2, StoreSettled
  <2> QED
    BY <2>2, <2>3 DEF SerialExecution
<1> QED
  BY <1>1, BatchInvHolds, PTL
=============================================================================
