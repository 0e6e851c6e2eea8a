----------------------- MODULE TwoPhaseLocking_proofs -----------------------
(***************************************************************************)
(* Proofs about TwoPhaseLocking, for every cluster and program: locks are  *)
(* exact, copies follow their masters, and transactions are serializable.  *)
(***************************************************************************)
EXTENDS TwoPhaseLockingInv, FiniteSetTheorems, WellFoundedInduction, TLAPS

\* flush_messages writes the requests of one destination one after the other,
\* each once.
LEMMA SetToSeqFacts ==
  ASSUME NEW S, IsFiniteSet(S)
  PROVE  /\ SetToSeq(S) \in Seq(S)
         /\ \A x \in S : \E i \in 1..Len(SetToSeq(S)) : SetToSeq(S)[i] = x
         /\ \A i, j \in 1..Len(SetToSeq(S)) :
              SetToSeq(S)[i] = SetToSeq(S)[j] => i = j
<1> DEFINE n == Cardinality(S)
<1>1. n \in Nat /\ ExistsBijection(1..n, S)
  BY FS_CardinalityType
<1>2. PICK g \in Bijection(1..n, S) : TRUE
  BY <1>1 DEF ExistsBijection
<1>3. g \in [1..n -> S] /\ IsInjective(g)
  BY <1>2 DEF Bijection, Injection
<1>4. SetToSeq(S) \in [1..n -> S] /\ IsInjective(SetToSeq(S))
  BY <1>3 DEF SetToSeq
<1>5. SetToSeq(S) \in Seq(S) /\ Len(SetToSeq(S)) = n
  BY <1>1, <1>4
<1>6. IsFiniteSet(1..n) /\ Cardinality(1..n) = n
  BY <1>1, FS_Interval
<1>7. SetToSeq(S) \in Surjection(1..n, S)
  BY <1>4, <1>6, FS_Injection DEF Injection
<1> QED
  BY <1>1, <1>4, <1>5, <1>7 DEF IsInjective, Surjection

\* What Send does to the channels: the old messages stay where they are, the
\* new ones follow, each once and on the channel it is routed to.
Extended(msgs) ==
  /\ chan' \in [Channels -> Seq(Message)]
  /\ \A c \in Channels : \A i \in 1..Len(chan[c]) :
       i \in 1..Len(chan'[c]) /\ chan'[c][i] = chan[c][i]
  /\ \A c \in Channels : \A i \in 1..Len(chan'[c]) :
       \/ i \in 1..Len(chan[c])
       \/ i > Len(chan[c]) /\ chan'[c][i] \in msgs /\ Route(chan'[c][i]) = c
  /\ \A c \in Channels : \A i, j \in 1..Len(chan'[c]) :
       i > Len(chan[c]) /\ j > Len(chan[c]) /\ chan'[c][i] = chan'[c][j] => i = j
  /\ \A m \in msgs : Route(m) \in Channels =>
       \E i \in 1..Len(chan'[Route(m)]) : chan'[Route(m)][i] = m

\* Sending adds the messages behind those in the queues, each to its route
\* and once.
LEMMA SendFacts ==
  ASSUME chan \in [Channels -> Seq(Message)], NEW msgs \in SUBSET Message,
         IsFiniteSet(msgs), \A m \in msgs : ~m.answer, Send(msgs)
  PROVE  Extended(msgs)
<1> DEFINE S(c) == SetToSeq({m \in msgs : Route(m) = c})
<1>0. \A c : {m \in msgs : Route(m) = c} =
              {m \in msgs : c = <<Home[m.txn], m.to, WorkerOf[m.txn]>>}
  BY DEF Route
<1>1. \A c \in Channels : chan'[c] = chan[c] \o S(c)
  BY <1>0 DEF Send
<1>2. \A c : /\ S(c) \in Seq(Message) /\ Len(S(c)) \in Nat
             /\ \A i \in 1..Len(S(c)) : S(c)[i] \in msgs /\ Route(S(c)[i]) = c
             /\ \A m \in msgs : Route(m) = c => \E i \in 1..Len(S(c)) : S(c)[i] = m
             /\ \A i, j \in 1..Len(S(c)) : S(c)[i] = S(c)[j] => i = j
  <2> TAKE c
  <2> DEFINE T == {m \in msgs : Route(m) = c}
             s == SetToSeq(T)
  <2>1. IsFiniteSet(T)
    BY FS_Subset
  <2> HIDE DEF T
  <2>2. /\ s \in Seq(T)
        /\ \A x \in T : \E i \in 1..Len(s) : s[i] = x
        /\ \A i, j \in 1..Len(s) : s[i] = s[j] => i = j
    BY <2>1, SetToSeqFacts
  <2> HIDE DEF s
  <2>3. Len(s) \in Nat /\ \A i \in 1..Len(s) : s[i] \in T
    BY <2>2
  <2>4. s \in Seq(Message)
    BY <2>2, <2>3 DEF T
  <2> QED
    BY <2>2, <2>3, <2>4 DEF T, s
<1> HIDE DEF S
<1>3. \A c \in Channels : S(c) \in Seq(Message) /\ Len(S(c)) \in Nat
  BY <1>2
<1>4. \A c \in Channels : /\ Len(chan[c]) \in Nat
                          /\ Len(chan'[c]) = Len(chan[c]) + Len(S(c))
                          /\ chan'[c] \in Seq(Message)
  <2> TAKE c \in Channels
  <2>1. chan[c] \in Seq(Message) /\ S(c) \in Seq(Message) /\ chan'[c] = chan[c] \o S(c)
    BY <1>1, <1>3
  <2> QED
    BY <2>1
<1>5. chan' \in [Channels -> Seq(Message)]
  BY <1>4 DEF Send
<1>6. \A c \in Channels : \A i \in 1..Len(chan[c]) :
        i \in 1..Len(chan'[c]) /\ chan'[c][i] = chan[c][i]
  BY <1>1, <1>3, <1>4
<1>7. \A c \in Channels : \A i \in 1..Len(chan'[c]) : i > Len(chan[c]) =>
        /\ i - Len(chan[c]) \in 1..Len(S(c))
        /\ chan'[c][i] = S(c)[i - Len(chan[c])]
  BY <1>1, <1>3, <1>4
<1>8. \A c \in Channels : \A i \in 1..Len(S(c)) :
        S(c)[i] \in msgs /\ Route(S(c)[i]) = c
  BY <1>2
<1>9. \A c \in Channels : \A i \in 1..Len(S(c)) :
        /\ Len(chan[c]) + i \in 1..Len(chan'[c])
        /\ chan'[c][Len(chan[c]) + i] = S(c)[i]
  BY <1>1, <1>3, <1>4
<1>10. \A c \in Channels : \A i \in 1..Len(chan'[c]) :
         \/ i \in 1..Len(chan[c])
         \/ i > Len(chan[c]) /\ chan'[c][i] \in msgs /\ Route(chan'[c][i]) = c
  BY <1>4, <1>7, <1>8
<1>11. \A c \in Channels : \A i, j \in 1..Len(chan'[c]) :
         i > Len(chan[c]) /\ j > Len(chan[c]) /\ chan'[c][i] = chan'[c][j] => i = j
  <2> TAKE c \in Channels
  <2> TAKE i, j \in 1..Len(chan'[c])
  <2> HAVE i > Len(chan[c]) /\ j > Len(chan[c]) /\ chan'[c][i] = chan'[c][j]
  <2>0. S(c)[i - Len(chan[c])] = S(c)[j - Len(chan[c])]
    BY <1>7
  <2>1. i - Len(chan[c]) = j - Len(chan[c])
    BY <2>0, <1>2, <1>7
  <2> QED
    BY <2>1, <1>4
<1>12. \A m \in msgs : Route(m) \in Channels =>
         \E i \in 1..Len(chan'[Route(m)]) : chan'[Route(m)][i] = m
  <2> SUFFICES ASSUME NEW m \in msgs, Route(m) \in Channels
               PROVE  \E i \in 1..Len(chan'[Route(m)]) : chan'[Route(m)][i] = m
    OBVIOUS
  <2>1. PICK i \in 1..Len(S(Route(m))) : S(Route(m))[i] = m
    BY <1>2
  <2> QED
    BY <2>1, <1>9
<1> QED
  BY <1>5, <1>6, <1>10, <1>11, <1>12 DEF Extended

\* What taking the head of c does to the channels: every other message keeps
\* its place in the queue, and an answer, if there is one, ends up at the end
\* of the way back.
Off(c, d) == IF c = d THEN 1 ELSE 0

Taken(c, answers) ==
  /\ chan' \in [Channels -> Seq(Message)]
  /\ \A d \in Channels : \A i \in 1..Len(chan'[d]) :
       \/ i + Off(c, d) \in 1..Len(chan[d]) /\ chan'[d][i] = chan[d][i + Off(c, d)]
       \/ d = Back(c) /\ i = Len(chan[d]) + 1 /\ chan'[d][i] \in answers
  /\ \A d \in Channels : \A i \in 1..Len(chan[d]) :
       \/ d = c /\ i = 1
       \/ i - Off(c, d) \in 1..Len(chan'[d]) /\ chan'[d][i - Off(c, d)] = chan[d][i]
  /\ \A a \in answers : \E i \in 1..Len(chan'[Back(c)]) : chan'[Back(c)][i] = a

\* The way back leads to another channel, and back again.
LEMMA BackFacts ==
  ASSUME NEW c \in Channels
  PROVE  Back(c) \in Channels /\ Back(c) # c /\ Back(Back(c)) = c
BY DEF Channels, Back

\* What is left of a queue without its head.
LEMMA TailFacts ==
  ASSUME NEW T, NEW s \in Seq(T), s # <<>>
  PROVE  /\ Tail(s) \in Seq(T) /\ Len(Tail(s)) = Len(s) - 1
         /\ Len(s) \in Nat \ {0}
         /\ Head(s) = s[1] /\ s[1] \in T
         /\ \A i \in 1..Len(s) - 1 : Tail(s)[i] = s[i + 1]
OBVIOUS

\* A handler that does not answer only takes the head.
LEMMA DropFacts ==
  ASSUME chan \in [Channels -> Seq(Message)], NEW c \in Channels,
         chan[c] # <<>>, Drop(c)
  PROVE  Taken(c, {})
<1>1. \A d \in Channels : chan[d] \in Seq(Message) /\ Len(chan[d]) \in Nat
  OBVIOUS
<1>2. /\ Tail(chan[c]) \in Seq(Message) /\ Len(Tail(chan[c])) = Len(chan[c]) - 1
      /\ Len(chan[c]) \in Nat \ {0}
      /\ \A i \in 1..Len(chan[c]) - 1 : Tail(chan[c])[i] = chan[c][i + 1]
  BY <1>1, TailFacts
<1>3. chan'[c] = Tail(chan[c]) /\ \A d \in Channels : d # c => chan'[d] = chan[d]
  BY DEF Drop
<1>4. chan' \in [Channels -> Seq(Message)]
  BY <1>2 DEF Drop
<1>5. ASSUME NEW d \in Channels, NEW i \in 1..Len(chan'[d])
      PROVE  i + Off(c, d) \in 1..Len(chan[d]) /\ chan'[d][i] = chan[d][i + Off(c, d)]
  <2>1. CASE d = c
    <3>1. Off(c, d) = 1 /\ chan'[d] = Tail(chan[c]) /\ i \in 1..Len(chan[c]) - 1
      BY <1>2, <1>3, <2>1 DEF Off
    <3>2. i + 1 \in 1..Len(chan[c]) /\ Tail(chan[c])[i] = chan[c][i + 1]
      BY <1>2, <3>1
    <3> QED
      BY <2>1, <3>1, <3>2
  <2>2. CASE d # c
    BY <1>1, <1>3, <2>2 DEF Off
  <2> QED
    BY <2>1, <2>2
<1>6. ASSUME NEW d \in Channels, NEW i \in 1..Len(chan[d]), ~(d = c /\ i = 1)
      PROVE  i - Off(c, d) \in 1..Len(chan'[d]) /\ chan'[d][i - Off(c, d)] = chan[d][i]
  <2>1. CASE d = c
    <3>1. i - 1 \in 1..Len(chan[c]) - 1
      BY <1>2, <1>6, <2>1
    <3> QED
      BY <1>2, <1>3, <2>1, <3>1 DEF Off
  <2>2. CASE d # c
    BY <1>1, <1>3, <2>2 DEF Off
  <2> QED
    BY <2>1, <2>2
<1> QED
  BY <1>4, <1>5, <1>6 DEF Taken

\* A handler that answers takes the head and appends the answer on the way
\* back.
LEMMA ReplyFacts ==
  ASSUME chan \in [Channels -> Seq(Message)], NEW c \in Channels,
         chan[c] # <<>>, NEW m \in Message, Reply(c, m)
  PROVE  /\ [m EXCEPT !.answer = TRUE] \in Message
         /\ Taken(c, {[m EXCEPT !.answer = TRUE]})
<1> DEFINE a == [m EXCEPT !.answer = TRUE]
           b == Back(c)
<1>0. a \in Message
  BY DEF Message
<1> HIDE DEF a
<1>1. \A d \in Channels : chan[d] \in Seq(Message) /\ Len(chan[d]) \in Nat
  OBVIOUS
<1>2. /\ Tail(chan[c]) \in Seq(Message) /\ Len(Tail(chan[c])) = Len(chan[c]) - 1
      /\ Len(chan[c]) \in Nat \ {0}
      /\ \A i \in 1..Len(chan[c]) - 1 : Tail(chan[c])[i] = chan[c][i + 1]
  BY <1>1, TailFacts
<1>3. b \in Channels /\ b # c
  BY BackFacts
<1>4. /\ chan'[c] = Tail(chan[c]) /\ chan'[b] = Append(chan[b], a)
      /\ \A d \in Channels : d # c /\ d # b => chan'[d] = chan[d]
  BY <1>3 DEF Reply, a
<1>5. /\ Append(chan[b], a) \in Seq(Message)
      /\ Len(Append(chan[b], a)) = Len(chan[b]) + 1
      /\ \A i \in 1..Len(chan[b]) : Append(chan[b], a)[i] = chan[b][i]
      /\ Append(chan[b], a)[Len(chan[b]) + 1] = a
  BY <1>0, <1>1, <1>3
<1>6. chan' \in [Channels -> Seq(Message)]
  BY <1>2, <1>3, <1>5 DEF Reply, a
<1>7. ASSUME NEW d \in Channels, NEW i \in 1..Len(chan'[d])
      PROVE  \/ i + Off(c, d) \in 1..Len(chan[d]) /\ chan'[d][i] = chan[d][i + Off(c, d)]
             \/ d = b /\ i = Len(chan[d]) + 1 /\ chan'[d][i] \in {a}
  <2>1. CASE d = c
    <3>1. Off(c, d) = 1 /\ chan'[d] = Tail(chan[c]) /\ i \in 1..Len(chan[c]) - 1
      BY <1>2, <1>4, <2>1 DEF Off
    <3>2. i + 1 \in 1..Len(chan[c]) /\ Tail(chan[c])[i] = chan[c][i + 1]
      BY <1>2, <3>1
    <3> QED
      BY <2>1, <3>1, <3>2
  <2>2. CASE d = b
    BY <1>1, <1>3, <1>4, <1>5, <2>2 DEF Off
  <2>3. CASE d # c /\ d # b
    BY <1>1, <1>4, <2>3 DEF Off
  <2> QED
    BY <2>1, <2>2, <2>3
<1>8. ASSUME NEW d \in Channels, NEW i \in 1..Len(chan[d]), ~(d = c /\ i = 1)
      PROVE  i - Off(c, d) \in 1..Len(chan'[d]) /\ chan'[d][i - Off(c, d)] = chan[d][i]
  <2>1. CASE d = c
    <3>1. i - 1 \in 1..Len(chan[c]) - 1
      BY <1>2, <1>8, <2>1
    <3>2. Off(c, d) = 1 /\ chan'[d] = Tail(chan[c])
      BY <1>4, <2>1 DEF Off
    <3>3. Tail(chan[c])[i - 1] = chan[c][(i - 1) + 1] /\ (i - 1) + 1 = i
      BY <1>2, <3>1
    <3> QED
      BY <1>2, <2>1, <3>1, <3>2, <3>3
  <2>2. CASE d = b
    BY <1>1, <1>3, <1>4, <1>5, <2>2 DEF Off
  <2>3. CASE d # c /\ d # b
    BY <1>1, <1>4, <2>3 DEF Off
  <2> QED
    BY <2>1, <2>2, <2>3
<1>9. chan'[b][Len(chan[b]) + 1] = a /\ Len(chan[b]) + 1 \in 1..Len(chan'[b])
  BY <1>1, <1>3, <1>4, <1>5
<1> QED
  BY <1>0, <1>6, <1>7, <1>8, <1>9 DEF Taken, a

\* A finite set of numbers has a largest one: otherwise a smallest set that
\* has none would have a smaller one.
LEMMA MaxFacts ==
  ASSUME NEW S \in SUBSET Nat, IsFiniteSet(S), S # {}
  PROVE  Max(S) \in S /\ \A y \in S : Max(S) >= y
<1> DEFINE HasMax(A) == \E x \in A : \A y \in A : x >= y
<1>1. HasMax(S)
  <2> SUFFICES ASSUME ~HasMax(S) PROVE FALSE
    OBVIOUS
  <2> DEFINE Bad == {A \in SUBSET S : A # {} /\ ~HasMax(A)}
             Sizes == {Cardinality(A) : A \in Bad}
             R == OpToRel(<, Nat)
  <2>1. \A A \in SUBSET S : IsFiniteSet(A) /\ Cardinality(A) \in Nat
    BY FS_Subset, FS_CardinalityType
  <2>2. Sizes \subseteq Nat /\ Sizes # {}
    BY <2>1
  <2>3. IsWellFoundedOn(R, Nat)
    BY NatLessThanWellFounded
  <2>4. \A a, b \in Nat : a < b => <<a, b>> \in R
    BY DEF OpToRel
  <2> HIDE DEF R, Sizes
  <2>5. PICK s \in Sizes : \A r \in Sizes : <<r, s>> \notin R
    BY <2>2, <2>3, WFMin
  <2>6. \A r \in Sizes : ~(r < s)
    BY <2>2, <2>4, <2>5
  <2>7. PICK A \in Bad : s = Cardinality(A)
    BY DEF Sizes
  <2>8. PICK x \in A : TRUE
    OBVIOUS
  <2>9. A \ {x} \in SUBSET S /\ Cardinality(A \ {x}) = Cardinality(A) - 1
    BY <2>1, <2>7, <2>8, FS_RemoveElement
  <2>10. Cardinality(A \ {x}) < s
    BY <2>1, <2>7, <2>9
  <2>11. A \ {x} \notin Bad
    BY <2>6, <2>10 DEF Sizes
  <2>12. CASE A \ {x} = {}
    <3>1. A = {x} /\ x \in Nat
      BY <2>7, <2>8, <2>12
    <3> QED
      BY <2>7, <3>1
  <2>13. CASE A \ {x} # {}
    <3>1. PICK z \in A \ {x} : \A y \in A \ {x} : z >= y
      BY <2>9, <2>11, <2>13
    <3>2. x \in Nat /\ z \in Nat /\ A \subseteq Nat
      BY <2>7, <2>8
    <3>3. CASE x >= z
      <4>1. \A y \in A : x >= y
        BY <3>1, <3>2, <3>3
      <4> QED
        BY <2>7, <2>8, <4>1
    <3>4. CASE ~(x >= z)
      <4>1. \A y \in A : z >= y
        BY <3>1, <3>2, <3>4
      <4> QED
        BY <2>7, <3>1, <4>1
    <3> QED
      BY <3>3, <3>4
  <2> QED
    BY <2>12, <2>13
<1> QED
  BY <1>1 DEF Max

-----------------------------------------------------------------------------
(* Messages: every one is waited for, and none is in flight twice.         *)

\* A transaction accesses rows, some of them; it writes none that it only
\* reads.
LEMMA AccessFacts ==
  ASSUME TypeOK, NEW t \in Txns
  PROVE  /\ Reads(t) \subseteq Keys /\ Writes(t) \subseteq Keys /\ Rows(t) \subseteq Keys
         /\ Reads(t) \cap Writes(t) = {} /\ Rows(t) # {}
         /\ \A k : k \in Rows(t) <=> k \in Reads(t) \/ k \in Writes(t)
<1>1. prog[t] \in Programs
  BY DEF TypeOK
<1> QED
  BY <1>1, ProgramAssumption DEF Program, Reads, Writes, Rows

\* What a transaction accesses stays what it was.
LEMMA ProgramsFixed ==
  ASSUME prog' = prog, NEW t
  PROVE  /\ Reads(t)' = Reads(t) /\ Writes(t)' = Writes(t) /\ Rows(t)' = Rows(t)
         /\ HasCommitted(t)' <=> stage'[t] \in {"writing", "releasing", "committed"}
BY DEF Reads, Writes, Rows, HasCommitted

\* The topology, as the proofs use it.
LEMMA Topology ==
  /\ \A k \in Keys : Master[k] \in Nodes /\ <<Master[k], k>> \in Copies
       /\ \A n \in Replicas[k] : n \in Nodes /\ n # Master[k] /\ <<n, k>> \in Copies
  /\ \A t \in Txns : Home[t] \in Nodes /\ WorkerOf[t] \in Workers
  /\ \A p \in Copies : p[1] \in Nodes /\ p[2] \in Keys /\ p = <<p[1], p[2]>>
       /\ (p[1] = Master[p[2]] \/ p[1] \in Replicas[p[2]])
BY TopologyAssumption DEF Copies

\* Every message in a queue is one.
LEMMA PositionTypes ==
  ASSUME TypeOK
  PROVE  \A c \in Channels : \A i \in 1..Len(chan[c]) :
           LET m == chan[c][i]
           IN  /\ m \in Message
               /\ m.txn \in Txns /\ m.key \in Keys /\ m.write \in BOOLEAN /\ m.to \in Nodes
               /\ m.type \in Types /\ m.answer \in BOOLEAN /\ m.ok \in BOOLEAN
               /\ m.val \in Txns \cup {NoTxn} /\ m.tid \in Nat
<1> SUFFICES ASSUME NEW c \in Channels, NEW i \in 1..Len(chan[c])
             PROVE  chan[c][i] \in Message
  BY DEF Message
<1>1. chan[c] \in Seq(Message)
  BY DEF TypeOK
<1> QED
  BY <1>1

\* Messages with the same id are about the same lock or write.
LEMMA SameId ==
  ASSUME NEW m, NEW n
  PROVE  Id(m) = Id(n) <=> m.type = n.type /\ m.key = n.key /\ m.to = n.to
BY DEF Id

\* A transaction that waits for nothing has no message in flight but the
\* releases of an abort.
LEMMA OnlyAborts ==
  ASSUME TypeOK, MessagesOK, NEW t \in Txns, pend[t] = {},
         NEW c \in Channels, NEW i \in 1..Len(chan[c]), chan[c][i].txn = t
  PROVE  /\ chan[c][i].type = "ABORT" /\ ~chan[c][i].answer /\ ~chan[c][i].ok
<1>1. MessageOK(c, chan[c][i])
  BY DEF MessagesOK
<1> QED
  BY <1>1 DEF MessageOK

\* A transaction that waits is at the stage at which one waits.
LEMMA NotWaiting ==
  ASSUME TypeOK, WaitsOK, NEW t \in Txns,
         stage[t] \in {"waiting", "locking", "committed", "rolled_back"}
  PROVE  pend[t] = {}
<1> SUFFICES ASSUME NEW id \in pend[t] PROVE FALSE
  OBVIOUS
<1>1. id[1] \in Types \ {"ABORT"} /\ stage[t] = StageOf[id[1]]
  BY DEF TypeOK, WaitsOK
<1>2. /\ StageOf["LOCK"] = "asked" /\ StageOf["WRITE"] = "writing"
      /\ StageOf["REPLICATION"] = "writing" /\ StageOf["RELEASE"] = "releasing"
  BY DEF StageOf
<1> QED
  BY <1>1, <1>2 DEF Types

\* The requests a transaction sends are new: they have one addressee each,
\* and wait for an answer or are the release of an abort.
Fresh(t, msgs) ==
  /\ msgs \in SUBSET Message /\ IsFiniteSet(msgs)
  /\ \A m \in msgs :
       /\ m.txn = t /\ ~m.answer /\ ~m.ok /\ Route(m) \in Channels
       /\ \A c \in Channels : \A i \in 1..Len(chan[c]) :
            ~(chan[c][i].txn = t /\ Id(chan[c][i]) = Id(m))
  /\ \A m, n \in msgs : Id(m) = Id(n) => m = n

\* Sending keeps to the discipline.
LEMMA SendMessages ==
  ASSUME TypeOK, MessagesOK, NoDuplicates, prog' = prog,
         NEW t \in Txns, pend[t] = {},
         \A u \in Txns : u # t => pend'[u] = pend[u] /\ tid'[u] = tid[u],
         NEW msgs, Fresh(t, msgs), \A m \in msgs : MessageOK(Route(m), m)',
         Send(msgs)
  PROVE  Extended(msgs) /\ MessagesOK' /\ NoDuplicates'
<1>1. Extended(msgs)
  BY SendFacts DEF Fresh, TypeOK
<1>3. MessagesOK'
  <2> SUFFICES ASSUME NEW c \in Channels, NEW i \in 1..Len(chan'[c])
               PROVE  MessageOK(c, chan[c][i])'
    BY DEF MessagesOK
  <2>1. CASE i \in 1..Len(chan[c])
    <3>0. PICK m : m = chan[c][i]
      OBVIOUS
    <3>1. chan'[c][i] = m /\ MessageOK(c, m) /\ m.txn \in Txns
      BY <1>1, <2>1, <3>0, PositionTypes DEF Extended, MessagesOK
    <3>2. m.txn = t => m.type = "ABORT"
      BY <2>1, <3>0, OnlyAborts
    <3>3. m.txn # t => pend'[m.txn] = pend[m.txn] /\ tid'[m.txn] = tid[m.txn]
      BY <3>1
    <3>4. Rows(m.txn)' = Rows(m.txn) /\ Writes(m.txn)' = Writes(m.txn)
      BY ProgramsFixed
    <3> QED
      BY <3>1, <3>2, <3>3, <3>4 DEF MessageOK, Route
  <2>2. CASE i > Len(chan[c]) /\ chan'[c][i] \in msgs /\ Route(chan'[c][i]) = c
    <3>1. PICK m \in msgs : m = chan'[c][i] /\ Route(m) = c
      BY <2>2
    <3>2. MessageOK(Route(m), m)'
      OBVIOUS
    <3> QED
      BY <3>1, <3>2
  <2> QED
    BY <1>1, <2>1, <2>2 DEF Extended
<1>4. NoDuplicates'
  <2> SUFFICES ASSUME NEW c \in Channels, NEW d \in Channels,
                      NEW i \in 1..Len(chan'[c]), NEW j \in 1..Len(chan'[d]),
                      chan'[c][i].txn = chan'[d][j].txn,
                      Id(chan'[c][i]) = Id(chan'[d][j])
               PROVE  c = d /\ i = j
    BY DEF NoDuplicates
  <2> DEFINE Old(e, l) == l \in 1..Len(chan[e]) /\ chan'[e][l] = chan[e][l]
             New(e, l) == l > Len(chan[e]) /\ chan'[e][l] \in msgs /\ Route(chan'[e][l]) = e
  <2>1. \A e \in Channels : \A l \in 1..Len(chan'[e]) : Old(e, l) \/ New(e, l)
    BY <1>1 DEF Extended
  <2>2. CASE Old(c, i) /\ Old(d, j)
    BY <2>2 DEF NoDuplicates
  <2>3. CASE Old(c, i) /\ New(d, j)
    BY <2>3 DEF Fresh
  <2>4. CASE New(c, i) /\ Old(d, j)
    BY <2>4 DEF Fresh
  <2>5. CASE New(c, i) /\ New(d, j)
    <3>1. chan'[c][i] = chan'[d][j]
      BY <2>5 DEF Fresh
    <3>2. c = d
      BY <2>5, <3>1
    <3> QED
      BY <1>1, <2>5, <3>1, <3>2 DEF Extended
  <2> QED
    BY <2>1, <2>2, <2>3, <2>4, <2>5
<1> QED
  BY <1>1, <1>3, <1>4

\* What sending adds to the requests in flight.
LEMMA SendFlights ==
  ASSUME TypeOK, NEW t \in Txns, NEW msgs, Fresh(t, msgs), Extended(msgs)
  PROVE  /\ \A type, u, k, n : Requested(type, u, k, n)' <=>
              \/ Requested(type, u, k, n)
              \/ u = t /\ \E m \in msgs : Id(m) = <<type, k, n>>
         /\ \A u, k : Granted(u, k)' <=> Granted(u, k)
<1>1. ASSUME NEW type, NEW u, NEW k, NEW n, Requested(type, u, k, n)'
      PROVE  \/ Requested(type, u, k, n)
             \/ u = t /\ \E m \in msgs : Id(m) = <<type, k, n>>
  <2>1. PICK c \in Channels : \E i \in 1..Len(chan'[c]) :
          ~chan'[c][i].answer /\ chan'[c][i].txn = u /\ Id(chan'[c][i]) = <<type, k, n>>
    BY <1>1 DEF Requested
  <2>2. PICK i \in 1..Len(chan'[c]) :
          ~chan'[c][i].answer /\ chan'[c][i].txn = u /\ Id(chan'[c][i]) = <<type, k, n>>
    BY <2>1
  <2>3. CASE i \in 1..Len(chan[c])
    <3>1. chan'[c][i] = chan[c][i]
      BY <2>3 DEF Extended
    <3> QED
      BY <2>2, <2>3, <3>1 DEF Requested
  <2>4. CASE chan'[c][i] \in msgs
    BY <2>2, <2>4 DEF Fresh
  <2> QED
    BY <2>3, <2>4 DEF Extended
<1>2. ASSUME NEW type, NEW u, NEW k, NEW n, Requested(type, u, k, n)
      PROVE  Requested(type, u, k, n)'
  <2>1. PICK c \in Channels : \E i \in 1..Len(chan[c]) :
          ~chan[c][i].answer /\ chan[c][i].txn = u /\ Id(chan[c][i]) = <<type, k, n>>
    BY <1>2 DEF Requested
  <2>2. PICK i \in 1..Len(chan[c]) :
          ~chan[c][i].answer /\ chan[c][i].txn = u /\ Id(chan[c][i]) = <<type, k, n>>
    BY <2>1
  <2>3. i \in 1..Len(chan'[c]) /\ chan'[c][i] = chan[c][i]
    BY DEF Extended
  <2> QED
    BY <2>2, <2>3 DEF Requested
<1>3. ASSUME NEW type, NEW k, NEW n, NEW m \in msgs, Id(m) = <<type, k, n>>
      PROVE  Requested(type, t, k, n)'
  <2>1. Route(m) \in Channels /\ ~m.answer /\ m.txn = t
    BY DEF Fresh
  <2>2. PICK i \in 1..Len(chan'[Route(m)]) : chan'[Route(m)][i] = m
    BY <2>1 DEF Extended
  <2> QED
    BY <1>3, <2>1, <2>2 DEF Requested
<1>4. ASSUME NEW u, NEW k, Granted(u, k)' PROVE Granted(u, k)
  <2>1. PICK c \in Channels : \E i \in 1..Len(chan'[c]) :
          chan'[c][i].ok /\ chan'[c][i].txn = u /\ chan'[c][i].key = k
    BY <1>4 DEF Granted
  <2>2. PICK i \in 1..Len(chan'[c]) :
          chan'[c][i].ok /\ chan'[c][i].txn = u /\ chan'[c][i].key = k
    BY <2>1
  <2>3. i \in 1..Len(chan[c])
    BY <2>2 DEF Extended, Fresh
  <2>4. chan'[c][i] = chan[c][i]
    BY <2>3 DEF Extended
  <2> QED
    BY <2>2, <2>3, <2>4 DEF Granted
<1>5. ASSUME NEW u, NEW k, Granted(u, k) PROVE Granted(u, k)'
  <2>1. PICK c \in Channels : \E i \in 1..Len(chan[c]) :
          chan[c][i].ok /\ chan[c][i].txn = u /\ chan[c][i].key = k
    BY <1>5 DEF Granted
  <2>2. PICK i \in 1..Len(chan[c]) :
          chan[c][i].ok /\ chan[c][i].txn = u /\ chan[c][i].key = k
    BY <2>1
  <2>3. i \in 1..Len(chan'[c]) /\ chan'[c][i] = chan[c][i]
    BY DEF Extended
  <2> QED
    BY <2>2, <2>3 DEF Granted
<1>6. \A type, u, k, n : Requested(type, u, k, n)' <=>
         \/ Requested(type, u, k, n)
         \/ u = t /\ \E m \in msgs : Id(m) = <<type, k, n>>
  BY <1>1, <1>2, <1>3
<1>7. \A u, k : Granted(u, k)' <=> Granted(u, k)
  BY <1>4, <1>5
<1> QED
  BY <1>6, <1>7

\* A handler takes m off channel c, and its answer, if there is one, takes
\* the place of m.
Handled(c, m, answers) ==
  /\ c \in Channels /\ 1 \in 1..Len(chan[c]) /\ m = chan[c][1]
  /\ Taken(c, answers)
  /\ \A a \in answers : a.txn = m.txn /\ Id(a) = Id(m) /\ a.answer /\ ~m.answer

\* Handling keeps to the discipline.
LEMMA HandleMessages ==
  ASSUME TypeOK, MessagesOK, NoDuplicates, prog' = prog, tid' = tid,
         NEW c, NEW m, NEW answers, Handled(c, m, answers),
         \A a \in answers : MessageOK(Back(c), a)',
         \/ pend' = pend
         \/ answers = {} /\ \A u \in Txns :
              pend'[u] = IF u = m.txn THEN pend[u] \ {Id(m)} ELSE pend[u]
  PROVE  MessagesOK' /\ NoDuplicates'
<1>1. /\ Taken(c, answers) /\ c \in Channels /\ 1 \in 1..Len(chan[c]) /\ m = chan[c][1]
      /\ \A d \in Channels : Len(chan[d]) \in Nat
  BY DEF Handled, TypeOK
<1> DEFINE Old(d, i) == /\ i + Off(c, d) \in 1..Len(chan[d]) /\ i \in Nat
                        /\ chan'[d][i] = chan[d][i + Off(c, d)]
           New(d, i) == d = Back(c) /\ i = Len(chan[d]) + 1 /\ chan'[d][i] \in answers
<1>2. \A d \in Channels : \A i \in 1..Len(chan'[d]) : Old(d, i) \/ New(d, i)
  BY <1>1 DEF Taken
\* What stays is not what is taken.
<1>3. ASSUME NEW d \in Channels, NEW i \in 1..Len(chan'[d]), Old(d, i)
      PROVE  ~(chan'[d][i].txn = m.txn /\ Id(chan'[d][i]) = Id(m))
  <2>1. CASE d = c
    <3>1. i + 1 \in 1..Len(chan[d]) /\ chan'[d][i] = chan[d][i + 1] /\ i + 1 # 1
      BY <1>3, <2>1 DEF Off
    <3> QED
      BY <1>1, <2>1, <3>1 DEF NoDuplicates
  <2>2. CASE d # c
    <3>1. i \in 1..Len(chan[d]) /\ chan'[d][i] = chan[d][i]
      BY <1>3, <2>2 DEF Off
    <3> QED
      BY <1>1, <2>2, <3>1 DEF NoDuplicates
  <2> QED
    BY <2>1, <2>2
<1>4. MessagesOK'
  <2> SUFFICES ASSUME NEW d \in Channels, NEW i \in 1..Len(chan'[d])
               PROVE  MessageOK(d, chan[d][i])'
    BY DEF MessagesOK
  <2>1. CASE Old(d, i)
    <3>0. PICK x : x = chan'[d][i]
      OBVIOUS
    <3>1. MessageOK(d, x) /\ x.txn \in Txns
      BY <2>1, <3>0, PositionTypes DEF MessagesOK
    <3>2. ~(x.txn = m.txn /\ Id(x) = Id(m))
      BY <1>3, <2>1, <3>0
    <3>3. Id(x) \in pend[x.txn] => Id(x) \in pend'[x.txn]
      BY <3>1, <3>2
    <3>4. Rows(x.txn)' = Rows(x.txn) /\ Writes(x.txn)' = Writes(x.txn)
      BY ProgramsFixed
    <3> QED
      BY <3>0, <3>1, <3>3, <3>4 DEF MessageOK, Route
  <2>2. CASE New(d, i)
    <3>0. PICK x : x = chan'[d][i]
      OBVIOUS
    <3>1. x \in answers /\ d = Back(c)
      BY <2>2, <3>0
    <3>2. MessageOK(d, x)'
      BY <3>1
    <3> QED
      BY <3>0, <3>2
  <2> QED
    BY <1>2, <2>1, <2>2
<1>5. NoDuplicates'
  <2> SUFFICES ASSUME NEW d \in Channels, NEW e \in Channels,
                      NEW i \in 1..Len(chan'[d]), NEW j \in 1..Len(chan'[e]),
                      chan'[d][i].txn = chan'[e][j].txn,
                      Id(chan'[d][i]) = Id(chan'[e][j])
               PROVE  d = e /\ i = j
    BY DEF NoDuplicates
  <2>1. CASE Old(d, i) /\ Old(e, j)
    <3>1. d = e /\ i + Off(c, d) = j + Off(c, e)
      BY <2>1 DEF NoDuplicates
    <3> QED
      BY <2>1, <3>1 DEF Off
  <2>2. CASE Old(d, i) /\ New(e, j)
    BY <1>3, <2>2 DEF Handled
  <2>3. CASE New(d, i) /\ Old(e, j)
    BY <1>3, <2>3 DEF Handled
  <2>4. CASE New(d, i) /\ New(e, j)
    BY <2>4
  <2> QED
    BY <1>2, <2>1, <2>2, <2>3, <2>4
<1> QED
  BY <1>4, <1>5

\* What handling takes from the messages in flight, and what it adds.
LEMMA HandleFlights ==
  ASSUME TypeOK, MessagesOK, NoDuplicates,
         NEW c, NEW m, NEW answers, Handled(c, m, answers)
  PROVE  /\ \A type, u, k, n : Requested(type, u, k, n)' <=>
              /\ Requested(type, u, k, n)
              /\ ~(~m.answer /\ u = m.txn /\ Id(m) = <<type, k, n>>)
         /\ \A u, k : Granted(u, k)' <=>
              \/ Granted(u, k) /\ ~(m.ok /\ u = m.txn /\ k = m.key)
              \/ \E a \in answers : a.ok /\ a.txn = u /\ a.key = k
<1>1. /\ Taken(c, answers) /\ c \in Channels /\ 1 \in 1..Len(chan[c]) /\ m = chan[c][1]
      /\ \A d \in Channels : Len(chan[d]) \in Nat
      /\ \A a \in answers : a.answer
  BY DEF Handled, TypeOK
<1> DEFINE Old(d, i) == /\ i + Off(c, d) \in 1..Len(chan[d]) /\ i \in Nat
                        /\ chan'[d][i] = chan[d][i + Off(c, d)]
           New(d, i) == d = Back(c) /\ i = Len(chan[d]) + 1 /\ chan'[d][i] \in answers
<1>2. \A d \in Channels : \A i \in 1..Len(chan'[d]) : Old(d, i) \/ New(d, i)
  BY <1>1 DEF Taken
<1>3. ASSUME NEW d \in Channels, NEW i \in 1..Len(chan'[d]), Old(d, i)
      PROVE  /\ ~(chan'[d][i].txn = m.txn /\ Id(chan'[d][i]) = Id(m))
             /\ \E j \in 1..Len(chan[d]) : chan[d][j] = chan'[d][i]
  <2>1. CASE d = c
    <3>1. i + 1 \in 1..Len(chan[d]) /\ chan'[d][i] = chan[d][i + 1] /\ i + 1 # 1
      BY <1>3, <2>1 DEF Off
    <3> QED
      BY <1>1, <2>1, <3>1 DEF NoDuplicates
  <2>2. CASE d # c
    <3>1. i \in 1..Len(chan[d]) /\ chan'[d][i] = chan[d][i]
      BY <1>3, <2>2 DEF Off
    <3> QED
      BY <1>1, <2>2, <3>1 DEF NoDuplicates
  <2> QED
    BY <2>1, <2>2
<1>4. ASSUME NEW d \in Channels, NEW i \in 1..Len(chan[d])
      PROVE  chan[d][i] = m \/ \E j \in 1..Len(chan'[d]) : chan'[d][j] = chan[d][i]
  BY <1>1 DEF Taken
\* A message that grants a lock has the id of that lock.
<1>5. ASSUME NEW d \in Channels, NEW i \in 1..Len(chan[d]), chan[d][i].ok
      PROVE  chan[d][i].answer /\ Id(chan[d][i]) = <<"LOCK", chan[d][i].key, Master[chan[d][i].key]>>
  BY <1>5 DEF MessagesOK, MessageOK, Id
<1>6. ASSUME NEW type, NEW u, NEW k, NEW n
      PROVE  Requested(type, u, k, n)' <=>
               /\ Requested(type, u, k, n)
               /\ ~(~m.answer /\ u = m.txn /\ Id(m) = <<type, k, n>>)
  <2>1. ASSUME Requested(type, u, k, n)'
        PROVE  /\ Requested(type, u, k, n)
               /\ ~(~m.answer /\ u = m.txn /\ Id(m) = <<type, k, n>>)
    <3>1. PICK d \in Channels : \E i \in 1..Len(chan'[d]) :
            ~chan'[d][i].answer /\ chan'[d][i].txn = u /\ Id(chan'[d][i]) = <<type, k, n>>
      BY <2>1 DEF Requested
    <3>2. PICK i \in 1..Len(chan'[d]) :
            ~chan'[d][i].answer /\ chan'[d][i].txn = u /\ Id(chan'[d][i]) = <<type, k, n>>
      BY <3>1
    <3>3. Old(d, i)
      BY <1>1, <1>2, <3>2
    <3> QED
      BY <1>3, <3>2, <3>3 DEF Requested
  <2>2. ASSUME Requested(type, u, k, n), ~(~m.answer /\ u = m.txn /\ Id(m) = <<type, k, n>>)
        PROVE  Requested(type, u, k, n)'
    <3>1. PICK d \in Channels : \E i \in 1..Len(chan[d]) :
            ~chan[d][i].answer /\ chan[d][i].txn = u /\ Id(chan[d][i]) = <<type, k, n>>
      BY <2>2 DEF Requested
    <3>2. PICK i \in 1..Len(chan[d]) :
            ~chan[d][i].answer /\ chan[d][i].txn = u /\ Id(chan[d][i]) = <<type, k, n>>
      BY <3>1
    <3>3. PICK j \in 1..Len(chan'[d]) : chan'[d][j] = chan[d][i]
      BY <1>4, <2>2, <3>2
    <3> QED
      BY <3>2, <3>3 DEF Requested
  <2> QED
    BY <2>1, <2>2
<1>7. ASSUME NEW u, NEW k
      PROVE  Granted(u, k)' <=>
               \/ Granted(u, k) /\ ~(m.ok /\ u = m.txn /\ k = m.key)
               \/ \E a \in answers : a.ok /\ a.txn = u /\ a.key = k
  <2>1. ASSUME Granted(u, k)', ~\E a \in answers : a.ok /\ a.txn = u /\ a.key = k
        PROVE  Granted(u, k) /\ ~(m.ok /\ u = m.txn /\ k = m.key)
    <3>1. PICK d \in Channels : \E i \in 1..Len(chan'[d]) :
            chan'[d][i].ok /\ chan'[d][i].txn = u /\ chan'[d][i].key = k
      BY <2>1 DEF Granted
    <3>2. PICK i \in 1..Len(chan'[d]) :
            chan'[d][i].ok /\ chan'[d][i].txn = u /\ chan'[d][i].key = k
      BY <3>1
    <3>3. Old(d, i)
      BY <1>2, <2>1, <3>2
    <3>4. PICK j \in 1..Len(chan[d]) : chan[d][j] = chan'[d][i]
      BY <1>3, <3>3
    <3>5. Granted(u, k)
      BY <3>2, <3>4 DEF Granted
    <3>6. ASSUME m.ok, u = m.txn, k = m.key PROVE FALSE
      <4>1. chan[d][j].ok /\ chan[d][j].key = k
        BY <3>2, <3>4
      <4>2. Id(chan[d][j]) = <<"LOCK", k, Master[k]>>
        BY <1>5, <4>1
      <4>3. Id(m) = <<"LOCK", k, Master[k]>>
        BY <1>1, <1>5, <3>6
      <4> QED
        BY <1>3, <3>2, <3>3, <3>4, <3>6, <4>2, <4>3
    <3> QED
      BY <3>5, <3>6
  <2>2. ASSUME Granted(u, k), ~(m.ok /\ u = m.txn /\ k = m.key)
        PROVE  Granted(u, k)'
    <3>1. PICK d \in Channels : \E i \in 1..Len(chan[d]) :
            chan[d][i].ok /\ chan[d][i].txn = u /\ chan[d][i].key = k
      BY <2>2 DEF Granted
    <3>2. PICK i \in 1..Len(chan[d]) :
            chan[d][i].ok /\ chan[d][i].txn = u /\ chan[d][i].key = k
      BY <3>1
    <3>3. PICK j \in 1..Len(chan'[d]) : chan'[d][j] = chan[d][i]
      BY <1>4, <2>2, <3>2
    <3> QED
      BY <3>2, <3>3 DEF Granted
  <2>3. ASSUME NEW a \in answers, a.ok, a.txn = u, a.key = k
        PROVE  Granted(u, k)'
    <3>1. Back(c) \in Channels /\ \E i \in 1..Len(chan'[Back(c)]) : chan'[Back(c)][i] = a
      BY <1>1, BackFacts DEF Taken
    <3> QED
      BY <2>3, <3>1 DEF Granted
  <2> QED
    BY <2>1, <2>2, <2>3
<1> QED
  BY <1>6, <1>7

-----------------------------------------------------------------------------
(* The requests of a transaction.                                          *)

\* There are finitely many rows and nodes, and so requests of a type.
LEMMA RequestsFinite ==
  ASSUME NEW type, NEW t, NEW number, NEW S,
         \A m \in S : \E k \in Keys, n \in Nodes : m = Request(type, t, k, n, number)
  PROVE  IsFiniteSet(S)
<1> DEFINE f == [x \in Keys \X Nodes |-> Request(type, t, x[1], x[2], number)]
           R == {Request(type, t, x[1], x[2], number) : x \in Keys \X Nodes}
<1>1. IsFiniteSet(Keys \X Nodes)
  BY TopologyAssumption, FS_Product
<1>2. f \in Surjection(Keys \X Nodes, R)
  BY DEF Surjection
<1>3. IsFiniteSet(R)
  <2> HIDE DEF f, R
  <2> QED
    BY <1>1, <1>2, FS_Surjection
<1>4. S \subseteq R
  <2> SUFFICES ASSUME NEW m \in S PROVE m \in R
    OBVIOUS
  <2>1. PICK k \in Keys, n \in Nodes : m = Request(type, t, k, n, number)
    OBVIOUS
  <2>2. <<k, n>> \in Keys \X Nodes
    OBVIOUS
  <2> QED
    BY <2>1, <2>2
<1> QED
  BY <1>3, <1>4, FS_Subset

\* The fields of a request for a copy on another node.
LEMMA RequestFacts ==
  ASSUME TypeOK, NEW t \in Txns, NEW type \in Types, NEW k \in Rows(t), NEW n \in Nodes,
         n # Home[t], NEW number \in Nat, NEW m, m = Request(type, t, k, n, number)
  PROVE  /\ m \in Message
         /\ m.txn = t /\ m.type = type /\ m.key = k /\ m.to = n /\ m.tid = number
         /\ ~m.answer /\ ~m.ok /\ (m.write <=> k \in Writes(t))
         /\ Id(m) = <<type, k, n>>
         /\ Route(m) = <<Home[t], n, WorkerOf[t]>> /\ Route(m) \in Channels
<1>1. k \in Keys
  BY AccessFacts
<1>2. <<Home[t], n, WorkerOf[t]>> \in Channels
  BY Topology DEF Channels
<1>3. m = [type |-> type, answer |-> FALSE, txn |-> t, key |-> k,
            write |-> k \in Writes(t), to |-> n, ok |-> FALSE, val |-> NoTxn, tid |-> number]
  BY DEF Request
<1>4. m \in Message
  <2>1. (k \in Writes(t)) \in BOOLEAN
    OBVIOUS
  <2>2. PICK w \in BOOLEAN : w = (k \in Writes(t))
    BY <2>1
  <2> QED
    BY <1>1, <1>3, <2>2 DEF Message
<1>5. /\ m.txn = t /\ m.type = type /\ m.key = k /\ m.to = n /\ m.tid = number
      /\ m.answer = FALSE /\ m.ok = FALSE /\ m.write = (k \in Writes(t))
  BY <1>3
<1>6. m.write <=> k \in Writes(t)
  BY <1>5
<1>7. Id(m) = <<type, k, n>> /\ Route(m) = <<Home[t], n, WorkerOf[t]>>
  BY <1>5 DEF Id, Route
<1> QED
  BY <1>2, <1>4, <1>5, <1>6, <1>7

\* The requests to the masters of some rows.
MasterRequests(t, type, keys, number, msgs) ==
  /\ msgs \in SUBSET Message /\ IsFiniteSet(msgs)
  /\ \A m \in msgs :
       /\ m.txn = t /\ m.type = type /\ m.to = Master[m.key] /\ m.tid = number
       /\ m.key \in keys /\ ~IsLocal(t, m.key)
       /\ ~m.answer /\ ~m.ok /\ (m.write <=> m.key \in Writes(t))
       /\ Id(m) = <<type, m.key, m.to>>
       /\ Route(m) = <<Home[t], m.to, WorkerOf[t]>> /\ Route(m) \in Channels
  /\ \A m, n \in msgs : Id(m) = Id(n) => m = n
  /\ \A x, k, n : (\E m \in msgs : Id(m) = <<x, k, n>>) <=>
       x = type /\ k \in keys /\ ~IsLocal(t, k) /\ n = Master[k]

\* The requests for the rows of other nodes, to their masters.
LEMMA ToMasterFacts ==
  ASSUME TypeOK, NEW t \in Txns, NEW type \in Types, NEW keys \in SUBSET Rows(t),
         NEW number \in Nat, NEW msgs, msgs = ToMaster(type, t, keys, number)
  PROVE  MasterRequests(t, type, keys, number, msgs)
<1>1. \A k \in keys : k \in Rows(t) /\ k \in Keys /\ Master[k] \in Nodes
  BY AccessFacts, Topology
<1>2. msgs = {Request(type, t, k, Master[k], number) : k \in Remote(t, keys)}
  BY DEF ToMaster
<1>3. ASSUME NEW m \in msgs
      PROVE  \E k \in keys : /\ ~IsLocal(t, k) /\ m = Request(type, t, k, Master[k], number)
  BY <1>2 DEF Remote
<1>4. ASSUME NEW m \in msgs
      PROVE  /\ m \in Message
             /\ m.txn = t /\ m.type = type /\ m.to = Master[m.key] /\ m.tid = number
             /\ m.key \in keys /\ ~IsLocal(t, m.key)
             /\ ~m.answer /\ ~m.ok /\ (m.write <=> m.key \in Writes(t))
             /\ Id(m) = <<type, m.key, m.to>>
             /\ Route(m) = <<Home[t], m.to, WorkerOf[t]>> /\ Route(m) \in Channels
             /\ m = Request(type, t, m.key, Master[m.key], number)
  <2>1. PICK k \in keys : ~IsLocal(t, k) /\ m = Request(type, t, k, Master[k], number)
    BY <1>3
  <2>2. Master[k] # Home[t]
    BY <2>1 DEF IsLocal
  <2> QED
    BY <1>1, <2>1, <2>2, RequestFacts
<1>5. IsFiniteSet(msgs)
  <2>1. \A m \in msgs : \E k \in Keys, n \in Nodes : m = Request(type, t, k, n, number)
    BY <1>1, <1>3
  <2> QED
    BY <2>1, RequestsFinite
<1>6. \A m, n \in msgs : Id(m) = Id(n) => m = n
  <2> TAKE m, n \in msgs
  <2> HAVE Id(m) = Id(n)
  <2>1. m.key = n.key
    BY SameId
  <2> QED
    BY <1>4, <2>1
<1>7. ASSUME NEW k \in keys, ~IsLocal(t, k)
      PROVE  \E m \in msgs : Id(m) = <<type, k, Master[k]>>
  <2>1. PICK m : m = Request(type, t, k, Master[k], number)
    OBVIOUS
  <2>2. m \in msgs
    BY <1>2, <1>7, <2>1 DEF Remote
  <2>3. Id(m) = <<type, k, Master[k]>>
    BY <2>1 DEF Request, Id
  <2> QED
    BY <2>2, <2>3
<1>8. \A x, k, n : (\E m \in msgs : Id(m) = <<x, k, n>>) <=>
              x = type /\ k \in keys /\ ~IsLocal(t, k) /\ n = Master[k]
  BY <1>4, <1>7
<1> QED
  BY <1>4, <1>5, <1>6, <1>8 DEF MasterRequests

\* The requests to the other copies of the rows that are written.
LEMMA ReplicationsFacts ==
  ASSUME TypeOK, NEW t \in Txns, NEW number \in Nat,
         NEW msgs, msgs = Replications(t, number)
  PROVE  /\ msgs \in SUBSET Message /\ IsFiniteSet(msgs)
         /\ \A m \in msgs :
              /\ m.txn = t /\ m.type = "REPLICATION" /\ m.to \in Replicas[m.key] /\ m.tid = number
              /\ m.key \in Writes(t) /\ m.to # Home[t]
              /\ ~m.answer /\ ~m.ok /\ m.write
              /\ Id(m) = <<"REPLICATION", m.key, m.to>>
              /\ Route(m) = <<Home[t], m.to, WorkerOf[t]>> /\ Route(m) \in Channels
         /\ \A m, n \in msgs : Id(m) = Id(n) => m = n
         /\ \A x, k, n : (\E m \in msgs : Id(m) = <<x, k, n>>) <=>
              x = "REPLICATION" /\ k \in Writes(t) /\ n \in Replicas[k] \ {Home[t]}
<1>1. \A k \in Writes(t) : k \in Rows(t) /\ k \in Keys /\ \A n \in Replicas[k] : n \in Nodes
  BY AccessFacts, Topology
<1>2. \A m : m \in msgs <=> \E k \in Writes(t) : \E n \in Replicas[k] \ {Home[t]} :
                              m = Request("REPLICATION", t, k, n, number)
  BY DEF Replications
<1>3. ASSUME NEW m \in msgs
      PROVE  /\ m \in Message
             /\ m.txn = t /\ m.type = "REPLICATION" /\ m.to \in Replicas[m.key] /\ m.tid = number
             /\ m.key \in Writes(t) /\ m.to # Home[t]
             /\ ~m.answer /\ ~m.ok /\ m.write
             /\ Id(m) = <<"REPLICATION", m.key, m.to>>
             /\ Route(m) = <<Home[t], m.to, WorkerOf[t]>> /\ Route(m) \in Channels
             /\ m = Request("REPLICATION", t, m.key, m.to, number)
  <2>1. PICK k \in Writes(t) : \E n \in Replicas[k] \ {Home[t]} :
                              m = Request("REPLICATION", t, k, n, number)
    BY <1>2
  <2>2. PICK n \in Replicas[k] \ {Home[t]} : m = Request("REPLICATION", t, k, n, number)
    BY <2>1
  <2>3. "REPLICATION" \in Types
    BY DEF Types
  <2>4. /\ m \in Message
        /\ m.txn = t /\ m.type = "REPLICATION" /\ m.key = k /\ m.to = n /\ m.tid = number
        /\ ~m.answer /\ ~m.ok /\ (m.write <=> k \in Writes(t))
        /\ Id(m) = <<"REPLICATION", k, n>>
        /\ Route(m) = <<Home[t], n, WorkerOf[t]>> /\ Route(m) \in Channels
    BY <1>1, <2>2, <2>3, RequestFacts
  <2> QED
    BY <2>2, <2>4
<1>4. IsFiniteSet(msgs)
  <2>1. \A m \in msgs : \E k \in Keys, n \in Nodes :
          m = Request("REPLICATION", t, k, n, number)
    BY <1>1, <1>2
  <2> QED
    BY <2>1, RequestsFinite
<1>5. \A m, n \in msgs : Id(m) = Id(n) => m = n
  <2> TAKE m, n \in msgs
  <2> HAVE Id(m) = Id(n)
  <2>1. m.key = n.key /\ m.to = n.to
    BY SameId
  <2> QED
    BY <1>3, <2>1
<1>6. ASSUME NEW k \in Writes(t), NEW n \in Replicas[k] \ {Home[t]}
      PROVE  \E m \in msgs : Id(m) = <<"REPLICATION", k, n>>
  <2>1. PICK m : m = Request("REPLICATION", t, k, n, number)
    OBVIOUS
  <2>2. m \in msgs
    BY <1>2, <2>1
  <2>3. Id(m) = <<"REPLICATION", k, n>>
    BY <2>1 DEF Request, Id
  <2> QED
    BY <2>2, <2>3
<1>7. \A x, k, n : (\E m \in msgs : Id(m) = <<x, k, n>>) <=>
              x = "REPLICATION" /\ k \in Writes(t) /\ n \in Replicas[k] \ {Home[t]}
  BY <1>3, <1>6
<1> QED
  BY <1>3, <1>4, <1>5, <1>7

\* A commit tid is above the tids of the rows of the transaction.
LEMMA NextTidFacts ==
  ASSUME TypeOK, NEW t \in Txns
  PROVE  NextTid(t) \in Nat /\ \A k \in Rows(t) : seenTid[t][k] < NextTid(t)
<1> DEFINE T == {seenTid[t][k] : k \in Rows(t)}
           S == T \cup {maxTid[Worker(t)]}
           f == [k \in Rows(t) |-> seenTid[t][k]]
<1>1. Rows(t) \subseteq Keys /\ IsFiniteSet(Rows(t))
  BY AccessFacts, TopologyAssumption, FS_Subset
<1>2. f \in Surjection(Rows(t), T)
  BY DEF Surjection
<1>3. IsFiniteSet(T)
  <2> HIDE DEF f, T
  <2> QED
    BY <1>1, <1>2, FS_Surjection
<1>4. IsFiniteSet(S)
  <2> HIDE DEF T
  <2> QED
    BY <1>3, FS_AddElement
<1>5. maxTid[Worker(t)] \in Nat
  BY Topology DEF TypeOK, Worker
<1>6. \A k \in Rows(t) : seenTid[t][k] \in Nat
  BY <1>1 DEF TypeOK
<1>7. S \in SUBSET Nat /\ S # {}
  BY <1>5, <1>6
<1>8. NextTid(t) = 1 + Max(S)
  BY DEF NextTid
<1>9. \A k \in Rows(t) : seenTid[t][k] \in S
  OBVIOUS
<1> HIDE DEF S
<1>10. Max(S) \in S /\ \A y \in S : Max(S) >= y
  BY <1>4, <1>7, MaxFacts
<1>11. \A n, x \in Nat : n >= x => 1 + n \in Nat /\ x < 1 + n
  OBVIOUS
<1>12. Max(S) \in Nat /\ \A k \in Rows(t) : Max(S) >= seenTid[t][k]
  BY <1>7, <1>9, <1>10
<1> QED
  BY <1>6, <1>8, <1>11, <1>12

\* A turn of a worker changes nothing of the other transactions; its own
\* waits for nothing.
Others(t) ==
  \A u \in Txns : u # t =>
    /\ stage'[u] = stage[u] /\ tried'[u] = tried[u] /\ held'[u] = held[u]
    /\ failed'[u] = failed[u] /\ seen'[u] = seen[u] /\ seenTid'[u] = seenTid[u]
    /\ tid'[u] = tid[u] /\ pend'[u] = pend[u]

\* A worker begins a step only when its transaction waits for nothing, and
\* touches no other transaction.
LEMMA WorkFrame ==
  ASSUME TypeOK, WaitsOK, NEW t \in Txns, Work(t)
  PROVE  prog' = prog /\ pend[t] = {} /\ Others(t)
<1>1. prog' = prog
  BY DEF Work, Rollback, Begin, Lock, AskLocks, Abort, Commit, Release, Finish
<1>2. pend[t] = {}
  BY NotWaiting DEF Work, Rollback, Begin, Lock, AskLocks, Abort, Commit, Release, Finish
<1>3. Others(t)
  <2> SUFFICES ASSUME NEW u \in Txns, u # t
               PROVE  /\ stage'[u] = stage[u] /\ tried'[u] = tried[u] /\ held'[u] = held[u]
                      /\ failed'[u] = failed[u] /\ seen'[u] = seen[u]
                      /\ seenTid'[u] = seenTid[u]
                      /\ tid'[u] = tid[u] /\ pend'[u] = pend[u]
    BY DEF Others
  <2>1. CASE Rollback(t) \/ Finish(t)
    BY <2>1 DEF Rollback, Finish, Goto, TypeOK
  <2>2. CASE Begin(t)
    BY <2>2 DEF Begin, Goto, TypeOK
  <2>3. ASSUME NEW k \in Keys, Lock(t, k)
        PROVE  /\ stage'[u] = stage[u] /\ tried'[u] = tried[u] /\ held'[u] = held[u]
               /\ failed'[u] = failed[u] /\ seen'[u] = seen[u]
               /\ seenTid'[u] = seenTid[u]
               /\ tid'[u] = tid[u] /\ pend'[u] = pend[u]
    BY <2>3 DEF Lock, TypeOK
  <2>4. CASE AskLocks(t)
    BY <2>4 DEF AskLocks, Ask, Goto, TypeOK
  <2>5. CASE Abort(t)
    BY <2>5 DEF Abort, Goto, TypeOK
  <2>6. CASE Commit(t)
    BY <2>6 DEF Commit, Ask, Goto, TypeOK
  <2>7. CASE Release(t)
    BY <2>7 DEF Release, Ask, Goto, TypeOK
  <2> QED
    BY <2>1, <2>2, <2>3, <2>4, <2>5, <2>6, <2>7 DEF Work
<1> QED
  BY <1>1, <1>2, <1>3

\* Asking for the remote locks.
LEMMA AskLocksSends ==
  ASSUME Discipline, NEW t \in Txns, AskLocks(t),
         NEW msgs, msgs = ToMaster("LOCK", t, Rows(t), 0)
  PROVE  /\ Fresh(t, msgs) /\ Extended(msgs) /\ MessagesOK' /\ NoDuplicates'
         /\ pend'[t] = {Id(m) : m \in msgs}
<1>0. TypeOK /\ MessagesOK /\ NoDuplicates /\ WaitsOK
  BY DEF Discipline
<1>1. prog' = prog /\ pend[t] = {} /\ Others(t)
  BY <1>0, WorkFrame DEF Work
<1>2. "LOCK" \in Types /\ 0 \in Nat /\ Rows(t) \in SUBSET Rows(t)
  BY DEF Types
<1>3. MasterRequests(t, "LOCK", Rows(t), 0, msgs)
  BY <1>0, <1>2, ToMasterFacts
<1>4. Send(msgs) /\ pend'[t] = {Id(m) : m \in msgs}
  BY <1>0 DEF AskLocks, Ask, TypeOK
<1>5. \A m \in msgs : \A c \in Channels : \A i \in 1..Len(chan[c]) :
        ~(chan[c][i].txn = t /\ Id(chan[c][i]) = Id(m))
  BY <1>0, <1>1, <1>3, OnlyAborts, SameId DEF MasterRequests
<1>6. Fresh(t, msgs)
  BY <1>3, <1>5 DEF Fresh, MasterRequests
<1>7. \A m \in msgs : MessageOK(Route(m), m)'
  <2> TAKE m \in msgs
  <2>1. Id(m) \in pend'[t] /\ m.txn = t /\ m.type = "LOCK" /\ m.key \in Rows(t) /\ ~m.ok
        /\ m.to = Master[m.key] /\ (m.write <=> m.key \in Writes(t))
    BY <1>3, <1>4 DEF MasterRequests
  <2>2. Rows(t)' = Rows(t) /\ Writes(t)' = Writes(t)
    BY <1>1, ProgramsFixed
  <2> QED
    BY <2>1, <2>2 DEF MessageOK
<1> QED
  BY <1>0, <1>1, <1>4, <1>6, <1>7, SendMessages DEF Others

\* Giving the locks back, when they are not all to be had.
LEMMA AbortSends ==
  ASSUME Discipline, NEW t \in Txns, Abort(t),
         NEW msgs, msgs = ToMaster("ABORT", t, held[t], 0)
  PROVE  Fresh(t, msgs) /\ Extended(msgs) /\ MessagesOK' /\ NoDuplicates'
<1>0. TypeOK /\ MessagesOK /\ NoDuplicates /\ WaitsOK /\ held[t] \subseteq Rows(t)
  BY DEF Discipline, HeldOK
<1>1. prog' = prog /\ pend[t] = {} /\ Others(t)
  BY <1>0, WorkFrame DEF Work
<1>2. "ABORT" \in Types /\ 0 \in Nat /\ held[t] \in SUBSET Rows(t)
  BY <1>0 DEF Types
<1>3. MasterRequests(t, "ABORT", held[t], 0, msgs)
  BY <1>0, <1>2, ToMasterFacts
<1>4. Send(msgs)
  BY <1>0 DEF Abort
<1>5. \A m \in msgs : \A c \in Channels : \A i \in 1..Len(chan[c]) :
        ~(chan[c][i].txn = t /\ Id(chan[c][i]) = Id(m))
  BY <1>3, SameId DEF MasterRequests, Discipline, AbortsFirst
<1>6. Fresh(t, msgs)
  BY <1>3, <1>5 DEF Fresh, MasterRequests
<1>7. \A m \in msgs : MessageOK(Route(m), m)'
  <2> TAKE m \in msgs
  <2>1. m.txn = t /\ m.type = "ABORT" /\ m.key \in Rows(t) /\ ~m.ok /\ ~m.answer
        /\ m.to = Master[m.key] /\ (m.write <=> m.key \in Writes(t))
    BY <1>0, <1>3 DEF MasterRequests
  <2>2. Rows(t)' = Rows(t) /\ Writes(t)' = Writes(t)
    BY <1>1, ProgramsFixed
  <2> QED
    BY <2>1, <2>2 DEF MessageOK
<1> QED
  BY <1>0, <1>1, <1>4, <1>6, <1>7, SendMessages DEF Others

\* Writing and replicating.
CommitMessages(t) == ToMaster("WRITE", t, Writes(t), 0) \cup Replications(t, NextTid(t))

CommitAsks(t, msgs) ==
  \A x, k, n : (\E m \in msgs : Id(m) = <<x, k, n>>) <=>
    \/ x = "WRITE" /\ k \in Writes(t) /\ ~IsLocal(t, k) /\ n = Master[k]
    \/ x = "REPLICATION" /\ k \in Writes(t) /\ n \in Replicas[k] \ {Home[t]}

\* The requests of a commit are new, and wait for their answers.
LEMMA CommitSends ==
  ASSUME Discipline, NEW t \in Txns, Commit(t),
         NEW msgs, msgs = CommitMessages(t)
  PROVE  /\ Fresh(t, msgs) /\ Extended(msgs) /\ MessagesOK' /\ NoDuplicates'
         /\ pend'[t] = {Id(m) : m \in msgs}
         /\ \A m \in msgs : m.type \in {"WRITE", "REPLICATION"}
         /\ CommitAsks(t, msgs)
<1>0. TypeOK /\ MessagesOK /\ NoDuplicates /\ WaitsOK
  BY DEF Discipline
<1>1. prog' = prog /\ pend[t] = {} /\ Others(t)
  BY <1>0, WorkFrame DEF Work
<1>2. /\ "WRITE" \in Types /\ 0 \in Nat /\ Writes(t) \in SUBSET Rows(t) /\ NextTid(t) \in Nat
      /\ tid'[t] = NextTid(t)
  BY <1>0, NextTidFacts, AccessFacts DEF Types, Commit, TypeOK
<1> DEFINE A == ToMaster("WRITE", t, Writes(t), 0)
           B == Replications(t, NextTid(t))
<1>3. MasterRequests(t, "WRITE", Writes(t), 0, A)
  <2> HIDE DEF A
  <2> QED
    BY <1>0, <1>2, ToMasterFacts DEF A
<1>4. /\ B \in SUBSET Message /\ IsFiniteSet(B)
      /\ \A m \in B :
              /\ m.txn = t /\ m.type = "REPLICATION" /\ m.to \in Replicas[m.key]
              /\ m.tid = NextTid(t)
              /\ m.key \in Writes(t) /\ m.to # Home[t]
              /\ ~m.answer /\ ~m.ok /\ m.write
              /\ Id(m) = <<"REPLICATION", m.key, m.to>>
              /\ Route(m) = <<Home[t], m.to, WorkerOf[t]>> /\ Route(m) \in Channels
      /\ \A m, n \in B : Id(m) = Id(n) => m = n
      /\ \A x, k, n : (\E m \in B : Id(m) = <<x, k, n>>) <=>
           x = "REPLICATION" /\ k \in Writes(t) /\ n \in Replicas[k] \ {Home[t]}
  <2> HIDE DEF B
  <2> QED
    BY <1>0, <1>2, ReplicationsFacts DEF B
<1>5. msgs = A \cup B
  BY DEF CommitMessages
<1>6. Send(msgs) /\ pend'[t] = {Id(m) : m \in msgs}
  BY <1>0, <1>5 DEF Commit, Ask, TypeOK
<1> HIDE DEF A, B
<1>15. /\ A \in SUBSET Message /\ IsFiniteSet(A)
       /\ \A m, n \in A : Id(m) = Id(n) => m = n
       /\ \A m \in A : /\ m.txn = t /\ m.type = "WRITE" /\ m.to = Master[m.key]
                       /\ m.key \in Writes(t) /\ ~m.answer /\ ~m.ok /\ m.write
                       /\ Route(m) \in Channels
       /\ \A x, k, n : (\E m \in A : Id(m) = <<x, k, n>>) <=>
            x = "WRITE" /\ k \in Writes(t) /\ ~IsLocal(t, k) /\ n = Master[k]
  BY <1>3 DEF MasterRequests
<1>16. IsFiniteSet(A) /\ IsFiniteSet(B)
  BY <1>4, <1>15
<1>7. /\ \A m \in msgs : /\ m.txn = t /\ m.type \in {"WRITE", "REPLICATION"}
                         /\ ~m.answer /\ ~m.ok /\ Route(m) \in Channels
      /\ msgs \in SUBSET Message /\ IsFiniteSet(msgs)
  <2>1. IsFiniteSet(A \cup B)
    BY ONLY <1>16, FS_Union
  <2> QED
    BY <1>4, <1>5, <1>15, <2>1
<1>8. \A m \in msgs : \A c \in Channels : \A i \in 1..Len(chan[c]) :
        ~(chan[c][i].txn = t /\ Id(chan[c][i]) = Id(m))
  BY <1>0, <1>1, <1>7, OnlyAborts, SameId
<1>9. \A m, n \in msgs : Id(m) = Id(n) => m = n
  <2> TAKE m, n \in msgs
  <2> HAVE Id(m) = Id(n)
  <2>1. m.type = n.type
    BY SameId
  <2> QED
    BY <1>4, <1>5, <1>15, <2>1
<1>10. Fresh(t, msgs)
  BY <1>7, <1>8, <1>9 DEF Fresh
<1>11. \A m \in msgs : MessageOK(Route(m), m)'
  <2> TAKE m \in msgs
  <2>1. Rows(t)' = Rows(t) /\ Writes(t)' = Writes(t) /\ Writes(t) \subseteq Rows(t)
        /\ Id(m) \in pend'[t]
    BY <1>1, <1>2, <1>6, ProgramsFixed
  <2>2. CASE m \in A
    BY <1>15, <2>1, <2>2 DEF MessageOK
  <2>3. CASE m \in B
    BY <1>2, <1>4, <2>1, <2>3 DEF MessageOK
  <2> QED
    BY <1>5, <2>2, <2>3
<1>12. \A x, k, n : (\E m \in msgs : Id(m) = <<x, k, n>>) <=>
         \/ x = "WRITE" /\ k \in Writes(t) /\ ~IsLocal(t, k) /\ n = Master[k]
         \/ x = "REPLICATION" /\ k \in Writes(t) /\ n \in Replicas[k] \ {Home[t]}
  <2>1. \A x, k, n : (\E m \in msgs : Id(m) = <<x, k, n>>) <=>
          \/ \E m \in A : Id(m) = <<x, k, n>>
          \/ \E m \in B : Id(m) = <<x, k, n>>
    BY <1>5
  <2>2. \A x, k, n : (\E m \in B : Id(m) = <<x, k, n>>) <=>
          x = "REPLICATION" /\ k \in Writes(t) /\ n \in Replicas[k] \ {Home[t]}
    BY <1>4
  <2>3. \A x, k, n : (\E m \in A : Id(m) = <<x, k, n>>) <=>
          x = "WRITE" /\ k \in Writes(t) /\ ~IsLocal(t, k) /\ n = Master[k]
    BY <1>15
  <2> QED
    BY ONLY <2>1, <2>2, <2>3
<1>13. Extended(msgs) /\ MessagesOK' /\ NoDuplicates'
  BY <1>0, <1>1, <1>6, <1>10, <1>11, SendMessages DEF Others
<1> QED
  BY <1>6, <1>7, <1>10, <1>12, <1>13 DEF CommitAsks

\* Giving the locks back after the writes.
LEMMA ReleaseSends ==
  ASSUME Discipline, NEW t \in Txns, Release(t),
         NEW msgs, msgs = ToMaster("RELEASE", t, Rows(t), tid[t])
  PROVE  /\ Fresh(t, msgs) /\ Extended(msgs) /\ MessagesOK' /\ NoDuplicates'
         /\ pend'[t] = {Id(m) : m \in msgs}
<1>0. TypeOK /\ MessagesOK /\ NoDuplicates /\ WaitsOK
  BY DEF Discipline
<1>1. prog' = prog /\ pend[t] = {} /\ Others(t)
  BY <1>0, WorkFrame DEF Work
<1>2. "RELEASE" \in Types /\ tid[t] \in Nat /\ Rows(t) \in SUBSET Rows(t) /\ tid' = tid
  BY <1>0 DEF Types, TypeOK, Release
<1>3. MasterRequests(t, "RELEASE", Rows(t), tid[t], msgs)
  BY <1>0, <1>2, ToMasterFacts
<1>4. Send(msgs) /\ pend'[t] = {Id(m) : m \in msgs}
  BY <1>0 DEF Release, Ask, TypeOK
<1>5. \A m \in msgs : \A c \in Channels : \A i \in 1..Len(chan[c]) :
        ~(chan[c][i].txn = t /\ Id(chan[c][i]) = Id(m))
  BY <1>0, <1>1, <1>3, OnlyAborts, SameId DEF MasterRequests
<1>6. Fresh(t, msgs)
  BY <1>3, <1>5 DEF Fresh, MasterRequests
<1>7. \A m \in msgs : MessageOK(Route(m), m)'
  <2> TAKE m \in msgs
  <2>1. Id(m) \in pend'[t] /\ m.txn = t /\ m.type = "RELEASE" /\ m.key \in Rows(t) /\ ~m.ok
        /\ m.to = Master[m.key] /\ (m.write <=> m.key \in Writes(t)) /\ m.tid = tid'[t]
    BY <1>2, <1>3, <1>4 DEF MasterRequests
  <2>2. Rows(t)' = Rows(t) /\ Writes(t)' = Writes(t)
    BY <1>1, ProgramsFixed
  <2> QED
    BY <2>1, <2>2 DEF MessageOK
<1> QED
  BY <1>0, <1>1, <1>4, <1>6, <1>7, SendMessages DEF Others

-----------------------------------------------------------------------------
(* What the handlers do.                                                   *)

\* The message at the head of a queue.
LEMMA HeadFacts ==
  ASSUME TypeOK, MessagesOK, WaitsOK, NEW c \in Channels, chan[c] # <<>>,
         NEW m, m = Head(chan[c])
  PROVE  /\ m \in Message /\ m = chan[c][1] /\ 1 \in 1..Len(chan[c]) /\ MessageOK(c, m)
         /\ m.txn \in Txns /\ m.key \in Keys /\ m.write \in BOOLEAN /\ m.to \in Nodes
         /\ m.type \in Types /\ m.answer \in BOOLEAN /\ m.ok \in BOOLEAN
         /\ m.val \in Txns \cup {NoTxn} /\ m.tid \in Nat
         /\ ~m.answer => c[2] = m.to
         /\ <<m.to, m.key>> \in Copies
         /\ m.type # "ABORT" => Id(m) \in pend[m.txn] /\ stage[m.txn] = StageOf[m.type]
<1>1. chan[c] \in Seq(Message)
  BY DEF TypeOK
<1>2. m = chan[c][1] /\ chan[c][1] \in Message /\ Len(chan[c]) \in Nat \ {0}
  BY <1>1, TailFacts
<1>3. /\ m.txn \in Txns /\ m.key \in Keys /\ m.write \in BOOLEAN /\ m.to \in Nodes
      /\ m.type \in Types /\ m.answer \in BOOLEAN /\ m.ok \in BOOLEAN
      /\ m.val \in Txns \cup {NoTxn} /\ m.tid \in Nat
  BY <1>2 DEF Message
<1>4. MessageOK(c, m) /\ 1 \in 1..Len(chan[c])
  BY <1>2 DEF MessagesOK
<1>5. ~m.answer => c[2] = m.to
  <2>1. c = Route(m)
    BY <1>4 DEF MessageOK
  <2>2. ~m.answer => Route(m) = <<Home[m.txn], m.to, WorkerOf[m.txn]>>
    BY DEF Route
  <2> QED
    BY <2>1, <2>2
<1>6. <<m.to, m.key>> \in Copies
  BY <1>3, <1>4, Topology DEF MessageOK
<1>7. m.type # "ABORT" => Id(m) \in pend[m.txn] /\ stage[m.txn] = StageOf[m.type]
  <2> SUFFICES ASSUME m.type # "ABORT"
               PROVE  Id(m) \in pend[m.txn] /\ stage[m.txn] = StageOf[m.type]
    OBVIOUS
  <2>1. Id(m) \in pend[m.txn]
    BY <1>4 DEF MessageOK
  <2>2. stage[m.txn] = StageOf[Id(m)[1]]
    BY <1>3, <2>1 DEF WaitsOK
  <2>3. Id(m)[1] = m.type
    BY DEF Id
  <2> QED
    BY <2>1, <2>2, <2>3
<1> QED
  BY <1>2, <1>3, <1>4, <1>5, <1>6, <1>7

\* A handler that answers: the answer is that to the request.
Answers(c, m, x, a) ==
  /\ chan[c] # <<>> /\ m = Head(chan[c]) /\ ~m.answer /\ m.type # "ABORT"
  /\ x \in Message /\ x.txn = m.txn /\ x.type = m.type /\ x.key = m.key
  /\ x.write = m.write /\ x.to = m.to
  /\ x.ok => x.type = "LOCK"
  /\ x.type # "LOCK" => x.tid = m.tid
  /\ Reply(c, x) /\ a = [x EXCEPT !.answer = TRUE]

\* An answer has the identity of its request and goes back the same way.
LEMMA AnswerFacts ==
  ASSUME TypeOK, MessagesOK, WaitsOK, prog' = prog, tid' = tid, pend' = pend,
         NEW c \in Channels, NEW m, NEW x, NEW a, Answers(c, m, x, a)
  PROVE  /\ Handled(c, m, {a}) /\ MessageOK(Back(c), a)'
         /\ a.ok = x.ok /\ a.val = x.val /\ a.tid = x.tid /\ a.key = m.key /\ a.txn = m.txn
<1>0. /\ chan[c] # <<>> /\ m = Head(chan[c]) /\ ~m.answer /\ m.type # "ABORT"
      /\ x \in Message /\ x.txn = m.txn /\ x.type = m.type /\ x.key = m.key
      /\ x.write = m.write /\ x.to = m.to
      /\ x.ok => x.type = "LOCK"
      /\ x.type # "LOCK" => x.tid = m.tid
      /\ Reply(c, x) /\ a = [x EXCEPT !.answer = TRUE]
  BY DEF Answers
<1>1. m = chan[c][1] /\ 1 \in 1..Len(chan[c]) /\ MessageOK(c, m) /\ m.txn \in Txns
  BY <1>0, HeadFacts
<1>2. a \in Message /\ Taken(c, {a})
  BY <1>0, ReplyFacts DEF TypeOK
<1>3. /\ a.txn = m.txn /\ a.type = m.type /\ a.key = m.key /\ a.write = m.write
      /\ a.to = m.to /\ a.answer /\ a.ok = x.ok /\ a.val = x.val /\ a.tid = x.tid
  BY <1>0 DEF Message
<1>4. Id(a) = Id(m)
  BY <1>3 DEF Id
<1>5. Handled(c, m, {a})
  BY <1>0, <1>1, <1>2, <1>3, <1>4 DEF Handled
<1>6. Back(c) = Route(a)
  BY <1>0, <1>1, <1>3 DEF MessageOK, Route
<1>7. Rows(m.txn)' = Rows(m.txn) /\ Writes(m.txn)' = Writes(m.txn)
  BY ProgramsFixed
<1>8. MessageOK(Back(c), a)'
  <2>1. Id(a) \in pend'[a.txn]
    BY <1>0, <1>1, <1>3, <1>4 DEF MessageOK
  <2>2. /\ a.key \in Rows(a.txn)' /\ (a.write <=> a.key \in Writes(a.txn)')
        /\ IF a.type = "REPLICATION" THEN a.to \in Replicas[a.key] ELSE a.to = Master[a.key]
        /\ a.type \in {"WRITE", "REPLICATION"} => a.write
        /\ a.type # "ABORT"
    BY <1>0, <1>1, <1>3, <1>7 DEF MessageOK
  <2>3. a.type \in {"REPLICATION", "RELEASE"} => a.tid = tid'[a.txn]
    BY <1>0, <1>1, <1>3 DEF MessageOK
  <2>4. a.ok => a.type = "LOCK" /\ a.answer
    BY <1>0, <1>3
  <2> QED
    BY <1>6, <2>1, <2>2, <2>3, <2>4 DEF MessageOK
<1> QED
  BY <1>3, <1>5, <1>8

\* The handlers, each with the message m it takes off c and its answers.
Quiet == UNCHANGED <<held, failed, seen, seenTid, pend>>

Forgets(m) == pend' = [pend EXCEPT ![m.txn] = @ \ {Id(m)}]

GrantsLock(m, answers) ==
  /\ m.type = "LOCK" /\ ~m.answer /\ Grants(MasterRow(m.key), m.write)
  /\ row' = [row EXCEPT ![<<Master[m.key], m.key>>] = Locked(MasterRow(m.key), m.write)]
  /\ Quiet
  /\ answers # {} /\ \A a \in answers :
       a.ok /\ a.val = MasterRow(m.key).val /\ a.tid = MasterRow(m.key).tid

RefusesLock(m, answers) ==
  /\ m.type = "LOCK" /\ ~m.answer
  /\ row' = row /\ Quiet
  /\ \A a \in answers : ~a.ok

TakesLock(m, answers) ==
  /\ m.type = "LOCK" /\ m.answer /\ m.ok
  /\ held' = [held EXCEPT ![m.txn] = @ \cup {m.key}]
  /\ seen' = [seen EXCEPT ![m.txn][m.key] = m.val]
  /\ seenTid' = [seenTid EXCEPT ![m.txn][m.key] = m.tid]
  /\ failed' = failed /\ row' = row
  /\ answers = {} /\ Forgets(m)

MissesLock(m, answers) ==
  /\ m.type = "LOCK" /\ m.answer /\ ~m.ok
  /\ failed' = [failed EXCEPT ![m.txn] = TRUE]
  /\ UNCHANGED <<held, seen, seenTid, row>>
  /\ answers = {} /\ Forgets(m)

AbortsLock(m, answers) ==
  /\ m.type = "ABORT" /\ ~m.answer
  /\ row' = [row EXCEPT ![<<Master[m.key], m.key>>] = Unlocked(MasterRow(m.key), m.write)]
  /\ answers = {} /\ Quiet

WritesRow(m, answers) ==
  /\ m.type = "WRITE" /\ ~m.answer
  /\ row' = [row EXCEPT ![<<Master[m.key], m.key>>] = [MasterRow(m.key) EXCEPT !.val = m.txn]]
  /\ Quiet /\ \A a \in answers : ~a.ok

Replicates(m, answers) ==
  /\ m.type = "REPLICATION" /\ ~m.answer
  /\ row' = [row EXCEPT ![<<m.to, m.key>>] =
                  [row[<<m.to, m.key>>] EXCEPT !.val = m.txn, !.tid = m.tid]]
  /\ Quiet /\ \A a \in answers : ~a.ok

ReleasesLock(m, answers) ==
  /\ m.type = "RELEASE" /\ ~m.answer
  /\ row' = [row EXCEPT ![<<Master[m.key], m.key>>] =
                  IF m.write THEN Installed(MasterRow(m.key), m.tid)
                             ELSE Unlocked(MasterRow(m.key), FALSE)]
  /\ Quiet /\ \A a \in answers : ~a.ok

Counts(m, answers) ==
  /\ m.type \in {"WRITE", "REPLICATION", "RELEASE"} /\ m.answer
  /\ UNCHANGED <<held, failed, seen, seenTid, row>>
  /\ answers = {} /\ Forgets(m)

Handles(c, m, answers) ==
  /\ Handled(c, m, answers)
  /\ m \in Message /\ MessageOK(c, m)
  /\ \A a \in answers : MessageOK(Back(c), a)'
  /\ UNCHANGED <<prog, stage, tried, tid, maxTid>>
  /\ \/ GrantsLock(m, answers) \/ RefusesLock(m, answers)
     \/ TakesLock(m, answers) \/ MissesLock(m, answers)
     \/ AbortsLock(m, answers) \/ WritesRow(m, answers) \/ Replicates(m, answers)
     \/ ReleasesLock(m, answers) \/ Counts(m, answers)

\* Every handler is one of them.
LEMMA ProcessHandles ==
  ASSUME TypeOK, MessagesOK, WaitsOK, NEW c \in Channels, Process(c)
  PROVE  \E m \in Message : \E answers : Handles(c, m, answers)
<1>1. chan[c] # <<>> /\ UNCHANGED <<prog, stage, tried, tid, maxTid>>
  BY DEF Process, Takes, LockRequest, LockResponse, AbortRequest, WriteRequest,
         ReplicationRequest, ReleaseRequest, CountResponse
<1>2. PICK m : m = Head(chan[c])
  OBVIOUS
<1>3. /\ m \in Message /\ m = chan[c][1] /\ 1 \in 1..Len(chan[c]) /\ MessageOK(c, m)
      /\ m.txn \in Txns /\ m.key \in Keys /\ m.write \in BOOLEAN /\ m.to \in Nodes
      /\ m.type \in Types /\ m.answer \in BOOLEAN /\ m.ok \in BOOLEAN
      /\ m.val \in Txns \cup {NoTxn} /\ m.tid \in Nat
      /\ ~m.answer => c[2] = m.to
      /\ <<m.to, m.key>> \in Copies
  BY <1>1, <1>2, HeadFacts
<1>4. m.type # "REPLICATION" => m.to = Master[m.key]
  BY <1>3 DEF MessageOK
<1>5. ~m.answer => ~m.ok
  BY <1>3 DEF MessageOK
<1>6. row[<<m.to, m.key>>] \in [locked : BOOLEAN, readers : 0..ReadLockMax, tid : Nat,
                                val : Txns \cup {NoTxn}]
  BY <1>3 DEF TypeOK
<1>7. Drop(c) => Handled(c, m, {})
  BY <1>1, <1>3, DropFacts DEF TypeOK, Handled
<1>8. Answered(m) => Forgets(m)
  BY DEF Answered, Forgets
\* A handler that answers with the request, but for the mark.
<1>9. ASSUME ~m.answer, m.type # "ABORT", pend' = pend, Reply(c, m)
      PROVE  \E a : Handled(c, m, {a}) /\ MessageOK(Back(c), a)' /\ ~a.ok
  <2>1. PICK a : a = [m EXCEPT !.answer = TRUE]
    OBVIOUS
  <2> QED
    <3>1. prog' = prog /\ tid' = tid /\ chan[c] # <<>>
      BY <1>1
    <3>2. m \in Message /\ ~m.ok
      BY <1>3, <1>5, <1>9
    <3>3. Handled(c, m, {a}) /\ MessageOK(Back(c), a)' /\ a.ok = m.ok
      <4>1. Answers(c, m, m, a)
        BY <1>2, <1>9, <2>1, <3>1, <3>2 DEF Answers
      <4> QED
        BY <1>9, <3>1, <4>1, AnswerFacts
    <3> QED
      BY <3>2, <3>3
<1>10. CASE LockRequest(c)
  <2>1. m.type = "LOCK" /\ ~m.answer /\ pend' = pend
    BY <1>2, <1>10 DEF LockRequest, Takes
  <2>2. c[2] = Master[m.key] /\ <<c[2], m.key>> = <<Master[m.key], m.key>>
    BY <1>3, <1>4, <2>1
  <2>3. CASE Grants(MasterRow(m.key), m.write)
    <3>1. PICK x : x = [m EXCEPT !.ok = TRUE, !.val = MasterRow(m.key).val,
                                 !.tid = MasterRow(m.key).tid]
      OBVIOUS
    <3>2. /\ row' = [row EXCEPT ![<<Master[m.key], m.key>>] = Locked(MasterRow(m.key), m.write)]
          /\ Reply(c, x)
      BY <1>2, <1>10, <2>2, <2>3, <3>1 DEF LockRequest, MasterRow
    <3>3. MasterRow(m.key).val \in Txns \cup {NoTxn} /\ MasterRow(m.key).tid \in Nat
      BY <1>4, <1>6, <2>1 DEF MasterRow
    <3>4. /\ x \in Message /\ x.txn = m.txn /\ x.type = m.type /\ x.key = m.key
          /\ x.write = m.write /\ x.to = m.to /\ x.ok
          /\ x.val = MasterRow(m.key).val /\ x.tid = MasterRow(m.key).tid
      BY <1>3, <3>1, <3>3 DEF Message
    <3>5. PICK a : a = [x EXCEPT !.answer = TRUE]
      OBVIOUS
    <3>6. Handled(c, m, {a}) /\ MessageOK(Back(c), a)'
          /\ a.ok = x.ok /\ a.val = x.val /\ a.tid = x.tid
      <4>1. prog' = prog /\ tid' = tid /\ chan[c] # <<>> /\ m.type # "ABORT"
        BY <1>1, <2>1
      <4>2. Answers(c, m, x, a)
        BY <1>2, <2>1, <3>2, <3>4, <3>5, <4>1 DEF Answers
      <4> QED
        BY <2>1, <4>1, <4>2, AnswerFacts
    <3>7. Quiet
      BY <1>10 DEF LockRequest, Quiet
    <3>8. GrantsLock(m, {a})
      BY <2>1, <2>3, <3>2, <3>4, <3>6, <3>7 DEF GrantsLock
    <3> QED
      BY <1>1, <1>3, <3>6, <3>8 DEF Handles
  <2>4. CASE ~Grants(MasterRow(m.key), m.write)
    <3>1. Reply(c, m) /\ row' = row
      BY <1>2, <1>10, <2>2, <2>4 DEF LockRequest, MasterRow
    <3>2. PICK a : Handled(c, m, {a}) /\ MessageOK(Back(c), a)' /\ ~a.ok
      BY <1>9, <2>1, <3>1
    <3>3. Quiet
      BY <1>10 DEF LockRequest, Quiet
    <3>4. RefusesLock(m, {a})
      BY <2>1, <3>1, <3>2, <3>3 DEF RefusesLock
    <3> QED
      BY <1>1, <1>3, <3>2, <3>4 DEF Handles
  <2> QED
    BY <2>3, <2>4
<1>11. CASE LockResponse(c)
  <2>1. m.type = "LOCK" /\ m.answer /\ row' = row /\ Drop(c) /\ Answered(m)
    BY <1>2, <1>11 DEF LockResponse, Takes
  <2>2. TakesLock(m, {}) \/ MissesLock(m, {})
    <3>1. CASE m.ok
      <4>1. /\ held' = [held EXCEPT ![m.txn] = @ \cup {m.key}]
            /\ seen' = [seen EXCEPT ![m.txn][m.key] = m.val]
            /\ seenTid' = [seenTid EXCEPT ![m.txn][m.key] = m.tid]
            /\ failed' = failed
        BY <1>2, <1>11, <3>1 DEF LockResponse
      <4> QED
        BY <1>8, <2>1, <3>1, <4>1 DEF TakesLock
    <3>2. CASE ~m.ok
      <4>1. /\ failed' = [failed EXCEPT ![m.txn] = TRUE]
            /\ UNCHANGED <<held, seen, seenTid>>
        BY <1>2, <1>11, <3>2 DEF LockResponse
      <4> QED
        BY <1>8, <2>1, <3>2, <4>1 DEF MissesLock
    <3> QED
      BY <3>1, <3>2
  <2> QED
    BY <1>1, <1>3, <1>7, <2>1, <2>2 DEF Handles
<1>12. CASE AbortRequest(c)
  <2>1. m.type = "ABORT" /\ ~m.answer /\ Drop(c)
    BY <1>2, <1>12 DEF AbortRequest, Takes
  <2>2. <<c[2], m.key>> = <<Master[m.key], m.key>>
    BY <1>3, <1>4, <2>1
  <2>3. row' = [row EXCEPT ![<<Master[m.key], m.key>>] = Unlocked(MasterRow(m.key), m.write)]
    BY <1>2, <1>12, <2>2 DEF AbortRequest, MasterRow
  <2>4. Quiet
    BY <1>12 DEF AbortRequest, Quiet
  <2>5. AbortsLock(m, {})
    BY <2>1, <2>3, <2>4 DEF AbortsLock
  <2> QED
    BY <1>1, <1>3, <1>7, <2>1, <2>5 DEF Handles
<1>13. CASE WriteRequest(c)
  <2>1. m.type = "WRITE" /\ ~m.answer /\ Reply(c, m) /\ pend' = pend
    BY <1>2, <1>13 DEF WriteRequest, Takes
  <2>2. <<c[2], m.key>> = <<Master[m.key], m.key>>
    BY <1>3, <1>4, <2>1
  <2>3. row' = [row EXCEPT ![<<Master[m.key], m.key>>] = [MasterRow(m.key) EXCEPT !.val = m.txn]]
    BY <1>2, <1>13, <2>2 DEF WriteRequest, MasterRow
  <2>4. PICK a : Handled(c, m, {a}) /\ MessageOK(Back(c), a)' /\ ~a.ok
    BY <1>9, <2>1
  <2>5. Quiet
    BY <1>13 DEF WriteRequest, Quiet
  <2>6. WritesRow(m, {a})
    BY <2>1, <2>3, <2>4, <2>5 DEF WritesRow
  <2> QED
    BY <1>1, <1>3, <2>4, <2>6 DEF Handles
<1>14. CASE ReplicationRequest(c)
  <2>1. m.type = "REPLICATION" /\ ~m.answer /\ Reply(c, m) /\ pend' = pend
    BY <1>2, <1>14 DEF ReplicationRequest, Takes
  <2>2. <<c[2], m.key>> = <<m.to, m.key>>
    BY <1>3, <2>1
  <2>3. row' = [row EXCEPT ![<<m.to, m.key>>].val = m.txn, ![<<m.to, m.key>>].tid = m.tid]
    BY <1>2, <1>14, <2>2 DEF ReplicationRequest
  <2>4. row' = [row EXCEPT ![<<m.to, m.key>>] =
                  [row[<<m.to, m.key>>] EXCEPT !.val = m.txn, !.tid = m.tid]]
    BY <1>3, <2>3 DEF TypeOK
  <2>5. PICK a : Handled(c, m, {a}) /\ MessageOK(Back(c), a)' /\ ~a.ok
    BY <1>9, <2>1
  <2>6. Quiet
    BY <1>14 DEF ReplicationRequest, Quiet
  <2>7. Replicates(m, {a})
    BY <2>1, <2>4, <2>5, <2>6 DEF Replicates
  <2> QED
    BY <1>1, <1>3, <2>5, <2>7 DEF Handles
<1>15. CASE ReleaseRequest(c)
  <2>1. m.type = "RELEASE" /\ ~m.answer /\ Reply(c, m) /\ pend' = pend
    BY <1>2, <1>15 DEF ReleaseRequest, Takes
  <2>2. <<c[2], m.key>> = <<Master[m.key], m.key>>
    BY <1>3, <1>4, <2>1
  <2>3. row' = [row EXCEPT ![<<Master[m.key], m.key>>] =
                  IF m.write THEN Installed(MasterRow(m.key), m.tid)
                             ELSE Unlocked(MasterRow(m.key), FALSE)]
    BY <1>2, <1>15, <2>2 DEF ReleaseRequest, MasterRow
  <2>4. PICK a : Handled(c, m, {a}) /\ MessageOK(Back(c), a)' /\ ~a.ok
    BY <1>9, <2>1
  <2>5. Quiet
    BY <1>15 DEF ReleaseRequest, Quiet
  <2>6. ReleasesLock(m, {a})
    BY <2>1, <2>3, <2>4, <2>5 DEF ReleasesLock
  <2> QED
    BY <1>1, <1>3, <2>4, <2>6 DEF Handles
<1>16. CASE CountResponse(c)
  <2>1. m.type \in {"WRITE", "REPLICATION", "RELEASE"} /\ m.answer /\ Drop(c) /\ Answered(m)
        /\ UNCHANGED <<held, failed, seen, seenTid, row>>
    BY <1>2, <1>16 DEF CountResponse, Takes
  <2>2. Counts(m, {})
    BY <1>8, <2>1 DEF Counts
  <2> QED
    BY <1>1, <1>3, <1>7, <2>1, <2>2 DEF Handles
<1> QED
  BY <1>10, <1>11, <1>12, <1>13, <1>14, <1>15, <1>16 DEF Process

-----------------------------------------------------------------------------
(* Who holds a lock.                                                       *)

\* A request in flight: whose it is, and for which copy.
LEMMA RequestedPlace ==
  ASSUME Discipline, NEW type, NEW t, NEW k, NEW n, Requested(type, t, k, n)
  PROVE  /\ t \in Txns /\ k \in Rows(t) /\ k \in Keys /\ type \in Types /\ n # Home[t]
         /\ type = "REPLICATION" => n \in Replicas[k] /\ k \in Writes(t)
         /\ type # "REPLICATION" => n = Master[k] /\ ~IsLocal(t, k)
         /\ type = "ABORT" => /\ k \notin held[t]
                              /\ stage[t] \in {"waiting", "locking", "asked", "rolled_back"}
                              /\ stage[t] = "asked" => Requested("LOCK", t, k, n)
         /\ type = "WRITE" => k \in Writes(t)
<1>0. TypeOK /\ MessagesOK /\ WaitsOK /\ AbortsFirst
  BY DEF Discipline
<1>1. PICK c \in Channels : \E i \in 1..Len(chan[c]) :
        ~chan[c][i].answer /\ chan[c][i].txn = t /\ Id(chan[c][i]) = <<type, k, n>>
  BY DEF Requested
<1>2. PICK i \in 1..Len(chan[c]) :
        ~chan[c][i].answer /\ chan[c][i].txn = t /\ Id(chan[c][i]) = <<type, k, n>>
  BY <1>1
<1>3. PICK m : m = chan[c][i]
  OBVIOUS
<1>4. /\ m.type = type /\ m.key = k /\ m.to = n /\ m.txn = t /\ ~m.answer
      /\ Id(m) = <<type, k, n>>
  BY <1>2, <1>3 DEF Id
<1>5. t \in Txns /\ k \in Keys /\ type \in Types /\ MessageOK(c, m)
  BY <1>0, <1>3, <1>4, PositionTypes DEF MessagesOK
<1>6. c = <<Home[t], n, WorkerOf[t]>>
  BY <1>4, <1>5 DEF MessageOK, Route
<1>7. n # Home[t]
  BY <1>6 DEF Channels
<1>9. type = "ABORT" => /\ k \notin held[t]
                        /\ stage[t] \in {"waiting", "locking", "asked", "rolled_back"}
                        /\ stage[t] = "asked" => Requested("LOCK", t, k, n)
  <2>1. ASSUME type = "ABORT"
        PROVE  /\ k \notin held[t]
               /\ stage[t] \in {"waiting", "locking", "asked", "rolled_back"}
               /\ stage[t] = "asked" => \E j \in 1..Len(chan[c]) :
                    /\ ~chan[c][j].answer
                    /\ chan[c][j].txn = t /\ Id(chan[c][j]) = <<"LOCK", k, n>>
    BY <1>0, <1>3, <1>4, <2>1 DEF AbortsFirst
  <2> QED
    BY <2>1 DEF Requested
<1>10. type # "REPLICATION" => n = Master[k] /\ ~IsLocal(t, k)
  BY <1>4, <1>5, <1>7 DEF MessageOK, IsLocal
<1> QED
  BY <1>4, <1>5, <1>7, <1>9, <1>10 DEF MessageOK

\* A request in flight: its transaction waits for the answer.
LEMMA RequestedFacts ==
  ASSUME Discipline, NEW type, NEW t, NEW k, NEW n, Requested(type, t, k, n)
  PROVE  /\ t \in Txns /\ k \in Rows(t) /\ k \in Keys /\ type \in Types /\ n # Home[t]
         /\ type = "REPLICATION" => n \in Replicas[k] /\ k \in Writes(t)
         /\ type # "REPLICATION" => n = Master[k] /\ ~IsLocal(t, k)
         /\ type # "ABORT" => <<type, k, n>> \in pend[t] /\ stage[t] = StageOf[type]
         /\ type = "ABORT" => /\ k \notin held[t]
                              /\ stage[t] \in {"waiting", "locking", "asked", "rolled_back"}
                              /\ stage[t] = "asked" => Requested("LOCK", t, k, n)
         /\ type = "WRITE" => k \in Writes(t)
<1>0. TypeOK /\ MessagesOK /\ WaitsOK
  BY DEF Discipline
<1>1. PICK c \in Channels : \E i \in 1..Len(chan[c]) :
        ~chan[c][i].answer /\ chan[c][i].txn = t /\ Id(chan[c][i]) = <<type, k, n>>
  BY DEF Requested
<1>2. PICK i \in 1..Len(chan[c]) :
        ~chan[c][i].answer /\ chan[c][i].txn = t /\ Id(chan[c][i]) = <<type, k, n>>
  BY <1>1
<1>3. PICK m : m = chan[c][i]
  OBVIOUS
<1>4. /\ m.type = type /\ m.key = k /\ m.to = n /\ m.txn = t /\ ~m.answer
      /\ Id(m) = <<type, k, n>>
  BY <1>2, <1>3 DEF Id
<1>5. t \in Txns /\ k \in Keys /\ type \in Types /\ MessageOK(c, m)
  BY <1>0, <1>3, <1>4, PositionTypes DEF MessagesOK
<1>6. type # "ABORT" => <<type, k, n>> \in pend[t] /\ stage[t] = StageOf[type]
  <2>1. type # "ABORT" => <<type, k, n>> \in pend[t]
    BY <1>4, <1>5 DEF MessageOK
  <2> QED
    BY <1>0, <1>5, <2>1 DEF WaitsOK
<1> QED
  BY <1>6, RequestedPlace

\* A grant in flight.
LEMMA GrantedFacts ==
  ASSUME Discipline, NEW t, NEW k, Granted(t, k)
  PROVE  /\ t \in Txns /\ k \in Rows(t) /\ k \in Keys /\ ~IsLocal(t, k)
         /\ stage[t] = "asked" /\ <<"LOCK", k, Master[k]>> \in pend[t]
         /\ k \notin held[t] /\ ~Requested("LOCK", t, k, Master[k])
         /\ ~Requested("ABORT", t, k, Master[k]) /\ ~Requested("RELEASE", t, k, Master[k])
<1>0. TypeOK /\ MessagesOK /\ WaitsOK /\ NoDuplicates /\ HeldOK
  BY DEF Discipline
<1>1. PICK c \in Channels : \E i \in 1..Len(chan[c]) :
        chan[c][i].ok /\ chan[c][i].txn = t /\ chan[c][i].key = k
  BY DEF Granted
<1>2. PICK i \in 1..Len(chan[c]) :
        chan[c][i].ok /\ chan[c][i].txn = t /\ chan[c][i].key = k
  BY <1>1
<1>3. PICK m : m = chan[c][i]
  OBVIOUS
<1>4. m.ok /\ m.key = k /\ m.txn = t /\ t \in Txns /\ k \in Keys /\ MessageOK(c, m)
  BY <1>0, <1>2, <1>3, PositionTypes DEF MessagesOK
<1>5. m.type = "LOCK" /\ m.answer /\ m.to = Master[k] /\ k \in Rows(t) /\ Id(m) \in pend[t]
      /\ c = Back(<<Home[t], Master[k], WorkerOf[t]>>)
  BY <1>4 DEF MessageOK, Route
<1>6. Id(m) = <<"LOCK", k, Master[k]>>
  BY <1>4, <1>5 DEF Id
<1>7. ~IsLocal(t, k)
  BY <1>5 DEF IsLocal, Back, Channels
<1>8. stage[t] = "asked"
  <2>1. stage[t] = StageOf["LOCK"]
    BY <1>0, <1>4, <1>5, <1>6 DEF WaitsOK
  <2> QED
    BY <2>1 DEF StageOf
<1>9. k \notin held[t]
  BY <1>0, <1>4, <1>5, <1>6, <1>8 DEF HeldOK
<1>10. ~Requested("LOCK", t, k, Master[k])
  <2> SUFFICES ASSUME Requested("LOCK", t, k, Master[k]) PROVE FALSE
    OBVIOUS
  <2>1. PICK d \in Channels : \E j \in 1..Len(chan[d]) :
          ~chan[d][j].answer /\ chan[d][j].txn = t /\ Id(chan[d][j]) = <<"LOCK", k, Master[k]>>
    BY DEF Requested
  <2>2. PICK j \in 1..Len(chan[d]) :
          ~chan[d][j].answer /\ chan[d][j].txn = t /\ Id(chan[d][j]) = <<"LOCK", k, Master[k]>>
    BY <2>1
  <2>3. Id(chan[c][i]) = <<"LOCK", k, Master[k]>> /\ chan[c][i].txn = t /\ chan[c][i].answer
    BY <1>3, <1>4, <1>5, <1>6
  <2>4. c = d /\ i = j
    BY <1>0, <2>2, <2>3 DEF NoDuplicates
  <2> QED
    BY <2>2, <2>3, <2>4
<1>11. ~Requested("ABORT", t, k, Master[k])
  BY <1>8, <1>10, RequestedFacts
<1>12. ~Requested("RELEASE", t, k, Master[k])
  <2>1. StageOf["RELEASE"] # "asked"
    BY DEF StageOf
  <2> QED
    BY <1>8, <2>1, RequestedFacts
<1> QED
  BY <1>4, <1>5, <1>6, <1>7, <1>8, <1>9, <1>10, <1>11, <1>12

\* The ways to hold a lock exclude each other.
LEMMA HoldsOnce ==
  ASSUME Discipline, NEW t, NEW k, NEW n
  PROVE  /\ Requested("RELEASE", t, k, n) =>
              stage[t] = "releasing" /\ held[t] = {} /\ ~Requested("ABORT", t, k, n)
         /\ Requested("LOCK", t, k, n) =>
              stage[t] = "asked" /\ k \notin held[t] /\ ~Requested("RELEASE", t, k, n)
         /\ Requested("WRITE", t, k, n) \/ Requested("REPLICATION", t, k, n) =>
              stage[t] = "writing" /\ k \in Writes(t) /\ k \in held[t]
<1>0. HeldOK /\ TypeOK
  BY DEF Discipline
<1>1. /\ StageOf["RELEASE"] = "releasing" /\ StageOf["LOCK"] = "asked"
      /\ StageOf["WRITE"] = "writing" /\ StageOf["REPLICATION"] = "writing"
  BY DEF StageOf
<1>2. Requested("RELEASE", t, k, n) =>
        stage[t] = "releasing" /\ held[t] = {} /\ ~Requested("ABORT", t, k, n)
  <2> SUFFICES ASSUME Requested("RELEASE", t, k, n)
               PROVE  stage[t] = "releasing" /\ held[t] = {} /\ ~Requested("ABORT", t, k, n)
    OBVIOUS
  <2>1. t \in Txns /\ stage[t] = "releasing"
    <3>1. t \in Txns /\ stage[t] = StageOf["RELEASE"]
      BY RequestedFacts
    <3> QED
      BY <1>1, <3>1
  <2>2. held[t] = {}
    BY <1>0, <2>1 DEF HeldOK
  <2>3. ~Requested("ABORT", t, k, n)
    BY <2>1, RequestedFacts
  <2> QED
    BY <2>1, <2>2, <2>3
<1>3. Requested("LOCK", t, k, n) =>
        stage[t] = "asked" /\ k \notin held[t] /\ ~Requested("RELEASE", t, k, n)
  <2> SUFFICES ASSUME Requested("LOCK", t, k, n)
               PROVE  stage[t] = "asked" /\ k \notin held[t] /\ ~Requested("RELEASE", t, k, n)
    OBVIOUS
  <2>1. t \in Txns /\ k \in Rows(t) /\ stage[t] = "asked" /\ n = Master[k]
        /\ <<"LOCK", k, n>> \in pend[t]
    <3>1. /\ t \in Txns /\ k \in Rows(t) /\ n = Master[k]
          /\ <<"LOCK", k, n>> \in pend[t] /\ stage[t] = StageOf["LOCK"]
      BY RequestedFacts
    <3> QED
      BY <1>1, <3>1
  <2>2. k \notin held[t]
    BY <1>0, <2>1 DEF HeldOK
  <2> QED
    BY <1>2, <2>1, <2>2
<1>4. Requested("WRITE", t, k, n) \/ Requested("REPLICATION", t, k, n) =>
        stage[t] = "writing" /\ k \in Writes(t) /\ k \in held[t]
  <2> SUFFICES ASSUME Requested("WRITE", t, k, n) \/ Requested("REPLICATION", t, k, n)
               PROVE  stage[t] = "writing" /\ k \in Writes(t) /\ k \in held[t]
    OBVIOUS
  <2>1. t \in Txns /\ k \in Rows(t) /\ stage[t] = "writing" /\ k \in Writes(t)
    <3>1. CASE Requested("WRITE", t, k, n)
      <4>1. /\ t \in Txns /\ k \in Rows(t) /\ k \in Writes(t)
            /\ stage[t] = StageOf["WRITE"]
        BY <3>1, RequestedFacts
      <4> QED
        BY <1>1, <4>1
    <3>2. CASE Requested("REPLICATION", t, k, n)
      <4>1. /\ t \in Txns /\ k \in Rows(t) /\ k \in Writes(t)
            /\ stage[t] = StageOf["REPLICATION"]
        BY <3>2, RequestedFacts
      <4> QED
        BY <1>1, <4>1
    <3> QED
      BY <3>1, <3>2
  <2>2. k \in held[t]
    BY <1>0, <2>1 DEF HeldOK
  <2> QED
    BY <2>1, <2>2
<1> QED
  BY <1>2, <1>3, <1>4

\* Who holds the lock of a row accesses it.
LEMMA HoldsAccess ==
  ASSUME Discipline, NEW t \in Txns, NEW k, Holds(t, k)
  PROVE  k \in Rows(t) /\ k \in Keys /\ (k \in Reads(t) \/ k \in Writes(t))
<1>0. TypeOK /\ HeldOK
  BY DEF Discipline
<1>1. k \in Rows(t)
  BY <1>0, RequestedFacts, GrantedFacts DEF Holds, HeldOK
<1> QED
  BY <1>0, <1>1, AccessFacts

\* A writer that holds a row is alone.
LEMMA Exclusive ==
  ASSUME Discipline, LocksInv, NEW t \in Txns, NEW k, Holds(t, k), k \in Writes(t)
  PROVE  /\ \A u \in Txns : Holds(u, k) => u = t
         /\ MasterRow(k).locked /\ MasterRow(k).readers = 0
<1>0. TypeOK
  BY DEF Discipline
<1> DEFINE holders == {u \in Txns : Holds(u, k)}
           readers == {u \in holders : k \in Reads(u)}
           writers == {u \in holders : k \in Writes(u)}
<1>1. k \in Keys /\ RowLocked(k)
  BY HoldsAccess DEF LocksInv
<1>2. /\ IsFiniteSet(holders) /\ MasterRow(k).readers = Cardinality(readers)
      /\ MasterRow(k).locked <=> writers # {}
      /\ writers # {} => readers = {} /\ Cardinality(writers) = 1
  BY <1>1 DEF RowLocked, MasterRow
<1>3. t \in writers
  OBVIOUS
<1>4. readers = {} /\ Cardinality(writers) = 1 /\ MasterRow(k).locked
  BY <1>2, <1>3
<1>5. Cardinality(readers) = 0
  BY <1>4, FS_EmptySet
<1>6. \A u \in writers : u = t
  <2>1. PICK w : writers = {w}
    <3>1. IsFiniteSet(writers)
      BY <1>2, FS_Subset
    <3> HIDE DEF writers
    <3> QED
      BY <1>4, <3>1, FS_Singleton
  <2> QED
    BY <1>3, <2>1
<1>7. \A u \in Txns : Holds(u, k) => u = t
  <2> SUFFICES ASSUME NEW u \in Txns, Holds(u, k) PROVE u = t
    OBVIOUS
  <2>1. k \in Reads(u) \/ k \in Writes(u)
    BY HoldsAccess
  <2> QED
    BY <1>4, <1>6, <2>1
<1> QED
  BY <1>2, <1>4, <1>5, <1>7

\* A reader that holds a row has a lock that counts.
LEMMA Shared ==
  ASSUME Discipline, LocksInv, NEW t \in Txns, NEW k, Holds(t, k), k \in Reads(t)
  PROVE  MasterRow(k).readers >= 1 /\ ~MasterRow(k).locked
<1>0. TypeOK
  BY DEF Discipline
<1> DEFINE holders == {u \in Txns : Holds(u, k)}
           readers == {u \in holders : k \in Reads(u)}
           writers == {u \in holders : k \in Writes(u)}
<1>1. k \in Keys /\ RowLocked(k)
  BY HoldsAccess DEF LocksInv
<1>2. /\ IsFiniteSet(holders) /\ MasterRow(k).readers = Cardinality(readers)
      /\ MasterRow(k).locked <=> writers # {}
      /\ writers # {} => readers = {} /\ Cardinality(writers) = 1
  BY <1>1 DEF RowLocked, MasterRow
<1>3. t \in readers
  OBVIOUS
<1>4. Cardinality(readers) \in Nat /\ Cardinality(readers) # 0
  <2>1. IsFiniteSet(readers)
    BY <1>2, FS_Subset
  <2> HIDE DEF readers
  <2> QED
    BY <1>3, <2>1, FS_CardinalityType, FS_EmptySet
<1> QED
  BY <1>2, <1>3, <1>4

-----------------------------------------------------------------------------
(* Types and discipline, step by step.                                     *)

RowType == [locked : BOOLEAN, readers : 0..ReadLockMax, tid : Nat, val : Txns \cup {NoTxn}]

\* Locking and unlocking keep a row a row, as long as there is a lock to
\* give back.
LEMMA RowTypes ==
  ASSUME NEW r \in RowType
  PROVE  /\ \A w \in BOOLEAN : Grants(r, w) => Locked(r, w) \in RowType
         /\ \A w \in BOOLEAN : ~w /\ r.readers >= 1 => Unlocked(r, w) \in RowType
         /\ \A w \in BOOLEAN : w => Unlocked(r, w) \in RowType
         /\ \A n \in Nat : Installed(r, n) \in RowType
         /\ \A t \in Txns : [r EXCEPT !.val = t] \in RowType
         /\ \A t \in Txns, n \in Nat : [r EXCEPT !.val = t, !.tid = n] \in RowType
<1>1. /\ r.locked \in BOOLEAN /\ r.readers \in 0..ReadLockMax /\ r.tid \in Nat
      /\ r.val \in Txns \cup {NoTxn} /\ 0 \in 0..ReadLockMax
  BY ReadLockMaxAssumption DEF RowType
<1>2. r.readers < ReadLockMax => r.readers + 1 \in 0..ReadLockMax
  BY <1>1, ReadLockMaxAssumption
<1>3. r.readers >= 1 => r.readers - 1 \in 0..ReadLockMax
  BY <1>1, ReadLockMaxAssumption
<1>4. \A w \in BOOLEAN : Grants(r, w) => Locked(r, w) \in RowType
  BY <1>1, <1>2 DEF Grants, Locked, RowType
<1>5. \A w \in BOOLEAN : ~w /\ r.readers >= 1 => Unlocked(r, w) \in RowType
  BY <1>1, <1>3 DEF Unlocked, RowType
<1>6. \A w \in BOOLEAN : w => Unlocked(r, w) \in RowType
  BY <1>1 DEF Unlocked, RowType
<1>7. \A n \in Nat : Installed(r, n) \in RowType
  BY <1>1 DEF Installed, RowType
<1>8. /\ \A t \in Txns : [r EXCEPT !.val = t] \in RowType
      /\ \A t \in Txns, n \in Nat : [r EXCEPT !.val = t, !.tid = n] \in RowType
  BY <1>1 DEF RowType
<1> QED
  BY <1>4, <1>5, <1>6, <1>7, <1>8

\* A lock that somebody holds can be given back.
LEMMA CanUnlock ==
  ASSUME Discipline, LocksInv, NEW t \in Txns, NEW k, Holds(t, k)
  PROVE  /\ MasterRow(k) \in RowType /\ (k \in Writes(t)) \in BOOLEAN
         /\ Unlocked(MasterRow(k), k \in Writes(t)) \in RowType
<1>1. TypeOK /\ k \in Keys /\ (k \in Reads(t) \/ k \in Writes(t))
  BY HoldsAccess DEF Discipline
<1>2. MasterRow(k) \in RowType
  BY <1>1, Topology DEF TypeOK, MasterRow, RowType
<1>3. CASE k \in Writes(t)
  <2>1. Unlocked(MasterRow(k), TRUE) \in RowType
    BY <1>2, RowTypes
  <2>2. (k \in Writes(t)) = TRUE
    BY <1>3
  <2> QED
    BY <1>2, <2>1, <2>2
<1>4. CASE k \notin Writes(t)
  <2>1. MasterRow(k).readers >= 1
    BY <1>1, <1>4, Shared
  <2>2. Unlocked(MasterRow(k), FALSE) \in RowType
    BY <1>2, <2>1, RowTypes
  <2>3. (k \in Writes(t)) = FALSE
    BY <1>4
  <2> QED
    BY <1>2, <2>2, <2>3
<1> QED
  BY <1>3, <1>4

\* The local locks given back by a transaction.
LEMMA UnlockedRowsFacts ==
  ASSUME Discipline, LocksInv, NEW t \in Txns, NEW install \in BOOLEAN, NEW number \in Nat,
         row' = UnlockedRows(t, install, number)
  PROVE  /\ row' \in [Copies -> RowType]
         /\ \A p \in Copies : p[1] # Master[p[2]] => row'[p] = row[p]
         /\ \A k \in Keys : ~(k \in held[t] /\ IsLocal(t, k)) => MasterRow(k)' = MasterRow(k)
         /\ \A k \in Keys : k \in held[t] /\ IsLocal(t, k) => MasterRow(k)' =
              IF install /\ k \in Writes(t) THEN Installed(MasterRow(k), number)
                                            ELSE Unlocked(MasterRow(k), k \in Writes(t))
<1>0. TypeOK
  BY DEF Discipline
<1> DEFINE Gives(k) == k \in held[t] /\ IsLocal(t, k)
           New(k) == IF install /\ k \in Writes(t)
                       THEN Installed(MasterRow(k), number)
                       ELSE Unlocked(MasterRow(k), k \in Writes(t))
<1>1. ASSUME NEW p \in Copies, ~(p[1] = Home[t] /\ p[2] \in held[t] /\ IsLocal(t, p[2]))
      PROVE  row'[p] = row[p] /\ row[p] \in RowType
  BY <1>0, <1>1 DEF UnlockedRows, TypeOK, RowType
<1>2. ASSUME NEW p \in Copies, p[1] = Home[t], p[2] \in held[t], IsLocal(t, p[2])
      PROVE  p[1] = Master[p[2]] /\ row'[p] = New(p[2]) /\ New(p[2]) \in RowType
  <2>1. p[1] = Master[p[2]] /\ p = <<Master[p[2]], p[2]>> /\ p[2] \in Keys
    BY <1>2, Topology DEF IsLocal
  <2>2. row'[p] = New(p[2])
    BY <1>2, <2>1 DEF UnlockedRows, MasterRow
  <2>3. Holds(t, p[2])
    BY <1>2 DEF Holds
  <2>4. MasterRow(p[2]) \in RowType /\ Unlocked(MasterRow(p[2]), p[2] \in Writes(t)) \in RowType
    BY <2>3, CanUnlock
  <2>5. Installed(MasterRow(p[2]), number) \in RowType
    BY <2>4, RowTypes
  <2>6. New(p[2]) \in RowType
    BY <2>4, <2>5
  <2> QED
    BY <2>1, <2>2, <2>6
<1> HIDE DEF New
<1>3. row' = [p \in Copies |-> row'[p]]
  BY DEF UnlockedRows
<1>4. \A p \in Copies : row'[p] \in RowType
  BY <1>1, <1>2
<1>5. row' \in [Copies -> RowType]
  BY <1>3, <1>4
<1>6. \A p \in Copies : p[1] # Master[p[2]] => row'[p] = row[p]
  BY <1>1, <1>2
<1>7. ASSUME NEW k \in Keys, ~Gives(k) PROVE MasterRow(k)' = MasterRow(k)
  <2>1. PICK p \in Copies : p = <<Master[k], k>> /\ p[1] = Master[k] /\ p[2] = k
    BY Topology
  <2>2. row'[p] = row[p]
    BY <1>1, <1>7, <2>1
  <2> QED
    BY <2>1, <2>2 DEF MasterRow
<1>8. ASSUME NEW k \in Keys, Gives(k) PROVE MasterRow(k)' = New(k)
  <2>1. PICK p \in Copies : p = <<Master[k], k>> /\ p[1] = Master[k] /\ p[2] = k
    BY Topology
  <2>2. p[1] = Home[t]
    BY <1>8, <2>1 DEF IsLocal
  <2>3. row'[p] = New(k)
    BY <1>2, <1>8, <2>1, <2>2
  <2> QED
    BY <2>1, <2>3 DEF MasterRow
<1> QED
  BY <1>5, <1>6, <1>7, <1>8 DEF New

\* One row of a master changes.
LEMMA RowReplaced ==
  ASSUME TypeOK, NEW k \in Keys, NEW r \in RowType,
         row' = [row EXCEPT ![<<Master[k], k>>] = r]
  PROVE  /\ row' \in [Copies -> RowType] /\ MasterRow(k)' = r
         /\ \A p \in Copies : p # <<Master[k], k>> => row'[p] = row[p]
         /\ \A j \in Keys : j # k => MasterRow(j)' = MasterRow(j)
<1>1. <<Master[k], k>> \in Copies /\ row \in [Copies -> RowType]
  BY Topology DEF TypeOK, RowType
<1>2. row' \in [Copies -> RowType] /\ row'[<<Master[k], k>>] = r
  BY <1>1
<1>3. \A p \in Copies : p # <<Master[k], k>> => row'[p] = row[p]
  BY <1>1
<1>4. \A j \in Keys : j # k => <<Master[j], j>> # <<Master[k], k>> /\ <<Master[j], j>> \in Copies
  BY Topology
<1> QED
  BY <1>2, <1>3, <1>4 DEF MasterRow

\* The rows that a commit writes.
LEMMA WrittenRowsFacts ==
  ASSUME TypeOK, NEW t \in Txns, row' = WrittenRows(t)
  PROVE  /\ row' \in [Copies -> RowType]
         /\ \A p \in Copies :
              row'[p] = IF p[1] = Home[t] /\ p[2] \in Writes(t)
                          THEN [row[p] EXCEPT !.val = t] ELSE row[p]
         /\ \A p \in Copies :
              /\ row'[p].locked = row[p].locked /\ row'[p].readers = row[p].readers
              /\ row'[p].tid = row[p].tid
              /\ row'[p].val = IF p[1] = Home[t] /\ p[2] \in Writes(t) THEN t ELSE row[p].val
<1>1. \A p \in Copies : row[p] \in RowType
  BY DEF TypeOK, RowType
<1>2. \A p \in Copies :
        row'[p] = IF p[1] = Home[t] /\ p[2] \in Writes(t)
                    THEN [row[p] EXCEPT !.val = t] ELSE row[p]
  BY DEF WrittenRows
<1>3. \A r \in RowType : /\ [r EXCEPT !.val = t] \in RowType
                         /\ [r EXCEPT !.val = t].locked = r.locked
                         /\ [r EXCEPT !.val = t].readers = r.readers
                         /\ [r EXCEPT !.val = t].tid = r.tid
                         /\ [r EXCEPT !.val = t].val = t
  BY DEF RowType
<1>4. \A p \in Copies : row'[p] \in RowType
  BY <1>1, <1>2, <1>3
<1>5. row' \in [Copies -> RowType]
  BY <1>4 DEF WrittenRows
<1>6. \A p \in Copies :
        /\ row'[p].locked = row[p].locked /\ row'[p].readers = row[p].readers
        /\ row'[p].tid = row[p].tid
        /\ row'[p].val = IF p[1] = Home[t] /\ p[2] \in Writes(t) THEN t ELSE row[p].val
  <2> TAKE p \in Copies
  <2>1. CASE p[1] = Home[t] /\ p[2] \in Writes(t)
    <3>1. row'[p] = [row[p] EXCEPT !.val = t] /\ row[p] \in RowType
      BY <1>1, <1>2, <2>1
    <3> QED
      BY <1>3, <2>1, <3>1
  <2>2. CASE ~(p[1] = Home[t] /\ p[2] \in Writes(t))
    <3>1. row'[p] = row[p]
      BY <1>2, <2>2
    <3> QED
      BY <2>2, <3>1
  <2> QED
    BY <2>1, <2>2
<1> QED
  BY <1>2, <1>5, <1>6

\* One entry of a table of tables changes.
LEMMA Replaced ==
  ASSUME NEW A, NEW B, NEW C, NEW f \in [A -> [B -> C]],
         NEW a \in A, NEW b \in B, NEW v \in C
  PROVE  /\ [f EXCEPT ![a][b] = v] \in [A -> [B -> C]]
         /\ \A x \in A, y \in B :
              [f EXCEPT ![a][b] = v][x][y] = IF x = a /\ y = b THEN v ELSE f[x][y]
OBVIOUS

\* A worker comes to a row of its node.
TakesRow(t, k) ==
  /\ Grants(MasterRow(k), k \in Writes(t))
  /\ row' = [row EXCEPT ![<<Master[k], k>>] = Locked(MasterRow(k), k \in Writes(t))]
  /\ held' = [held EXCEPT ![t] = @ \cup {k}]
  /\ seen' = [seen EXCEPT ![t][k] = MasterRow(k).val]
  /\ seenTid' = [seenTid EXCEPT ![t][k] = MasterRow(k).tid]
  /\ failed' = failed

MissesRow(t, k) ==
  /\ failed' = [failed EXCEPT ![t] = TRUE]
  /\ UNCHANGED <<row, held, seen, seenTid>>

\* The two outcomes of a local lock.
LEMMA LockFacts ==
  ASSUME TypeOK, NEW t \in Txns, NEW k \in Keys, Lock(t, k)
  PROVE  /\ k \in Rows(t) /\ IsLocal(t, k) /\ k \notin tried[t] /\ stage[t] = "locking"
         /\ tried' = [tried EXCEPT ![t] = @ \cup {k}]
         /\ UNCHANGED <<prog, stage, tid, maxTid, pend, chan>>
         /\ TakesRow(t, k) \/ MissesRow(t, k)
<1>1. /\ k \in Rows(t) /\ IsLocal(t, k) /\ k \notin tried[t] /\ stage[t] = "locking"
      /\ tried' = [tried EXCEPT ![t] = @ \cup {k}]
      /\ UNCHANGED <<prog, stage, tid, maxTid, pend, chan>>
  BY DEF Lock, Local
<1>3. Home[t] = Master[k]
  BY <1>1 DEF IsLocal
<1>4. CASE Grants(row[<<Home[t], k>>], k \in Writes(t))
  <2>1. /\ row' = [row EXCEPT ![<<Home[t], k>>] = Locked(@, k \in Writes(t))]
        /\ held' = [held EXCEPT ![t] = @ \cup {k}]
        /\ seen' = [seen EXCEPT ![t][k] = row[<<Home[t], k>>].val]
        /\ seenTid' = [seenTid EXCEPT ![t][k] = row[<<Home[t], k>>].tid]
        /\ UNCHANGED failed
    BY <1>4, Zenon DEF Lock
  <2> QED
    BY <1>1, <1>3, <1>4, <2>1 DEF MasterRow, TakesRow
<1>5. CASE ~Grants(row[<<Home[t], k>>], k \in Writes(t))
  <2>1. failed' = [failed EXCEPT ![t] = TRUE] /\ UNCHANGED <<row, held, seen, seenTid>>
    BY <1>5, Zenon DEF Lock
  <2> QED
    BY <1>1, <2>1 DEF MissesRow
<1> QED
  BY <1>1, <1>4, <1>5

\* Every step keeps the types.
LEMMA WorkTypes ==
  ASSUME Discipline, LocksInv, NEW t \in Txns, Work(t)
  PROVE  TypeOK'
<1>0. TypeOK /\ WaitsOK
  BY DEF Discipline
<1>1. CASE Rollback(t) \/ Finish(t)
  BY <1>0, <1>1 DEF Rollback, Finish, Goto, TypeOK, Stages
<1>2. CASE Begin(t)
  BY <1>0, <1>2 DEF Begin, Goto, TypeOK, Stages
<1>3. ASSUME NEW k \in Keys, Lock(t, k) PROVE TypeOK'
  <2>1. /\ k \in Rows(t) /\ tried' = [tried EXCEPT ![t] = @ \cup {k}]
        /\ UNCHANGED <<prog, stage, tid, maxTid, pend, chan>>
        /\ TakesRow(t, k) \/ MissesRow(t, k)
    BY <1>0, <1>3, LockFacts
  <2>2. CASE TakesRow(t, k)
    <3>1. MasterRow(k) \in RowType /\ (k \in Writes(t)) \in BOOLEAN
      BY <1>0, Topology DEF MasterRow, TypeOK, RowType
    <3>2. Locked(MasterRow(k), k \in Writes(t)) \in RowType
      BY <2>2, <3>1, RowTypes DEF TakesRow
    <3>3. row' \in [Copies -> RowType]
      BY <1>0, <2>2, <3>2, RowReplaced DEF TakesRow
    <3>4. MasterRow(k).val \in Txns \cup {NoTxn} /\ MasterRow(k).tid \in Nat
      BY <3>1 DEF RowType
    <3>5. seen' \in [Txns -> [Keys -> Txns \cup {NoTxn}]]
      BY <1>0, <2>2, <3>4, Replaced DEF TakesRow, TypeOK
    <3>6. seenTid' \in [Txns -> [Keys -> Nat]]
      BY <1>0, <2>2, <3>4, Replaced DEF TakesRow, TypeOK
    <3>7. held' \in [Txns -> SUBSET Keys] /\ tried' \in [Txns -> SUBSET Keys]
      BY <1>0, <2>1, <2>2 DEF TakesRow, TypeOK
    <3> QED
      BY <1>0, <2>1, <2>2, <3>3, <3>5, <3>6, <3>7 DEF TakesRow, TypeOK, RowType
  <2>3. CASE MissesRow(t, k)
    BY <1>0, <2>1, <2>3 DEF MissesRow, TypeOK
  <2> QED
    BY <2>1, <2>2, <2>3
\* The ids that are waited for.
<1>4. ASSUME NEW msgs, Fresh(t, msgs), pend' = [pend EXCEPT ![t] = {Id(m) : m \in msgs}]
      PROVE  pend' \in [Txns -> SUBSET (Types \X Keys \X Nodes)]
  <2> DEFINE P == Types \X Keys \X Nodes
  <2>1. \A m \in Message : Id(m) \in P
    BY DEF Message, Id
  <2>2. {Id(m) : m \in msgs} \in SUBSET P
    BY <1>4, <2>1 DEF Fresh
  <2>3. pend \in [Txns -> SUBSET P]
    BY <1>0 DEF TypeOK
  <2> HIDE DEF P
  <2>4. pend' \in [Txns -> SUBSET P]
    BY <1>4, <2>2, <2>3
  <2> QED
    BY <2>4 DEF P
<1>5. CASE AskLocks(t)
  <2>1. PICK msgs : msgs = ToMaster("LOCK", t, Rows(t), 0)
    OBVIOUS
  <2>2. Fresh(t, msgs) /\ Extended(msgs)
    BY <1>5, <2>1, AskLocksSends
  <2>3. pend' = [pend EXCEPT ![t] = {Id(m) : m \in msgs}]
    BY <1>5, <2>1 DEF AskLocks, Ask
  <2>4. pend' \in [Txns -> SUBSET (Types \X Keys \X Nodes)] /\ chan' \in [Channels -> Seq(Message)]
    BY <1>4, <2>2, <2>3 DEF Extended
  <2> QED
    BY <1>0, <1>5, <2>4 DEF AskLocks, Goto, TypeOK, Stages
<1>6. CASE Abort(t)
  <2>1. PICK msgs : msgs = ToMaster("ABORT", t, held[t], 0)
    OBVIOUS
  <2>2. chan' \in [Channels -> Seq(Message)]
    BY <1>6, <2>1, AbortSends DEF Extended
  <2>3. row' = UnlockedRows(t, FALSE, 0) /\ 0 \in Nat /\ FALSE \in BOOLEAN
    BY <1>6 DEF Abort
  <2>4. row' \in [Copies -> RowType]
    BY <2>3, UnlockedRowsFacts
  <2> QED
    BY <1>0, <1>6, <2>2, <2>4 DEF Abort, Goto, TypeOK, Stages, RowType
<1>7. CASE Commit(t)
  <2>1. PICK msgs : msgs = CommitMessages(t)
    OBVIOUS
  <2>2. Fresh(t, msgs) /\ Extended(msgs)
    BY <1>7, <2>1, CommitSends
  <2>3. pend' = [pend EXCEPT ![t] = {Id(m) : m \in msgs}]
    BY <1>7, <2>1 DEF Commit, Ask, CommitMessages
  <2>4. pend' \in [Txns -> SUBSET (Types \X Keys \X Nodes)] /\ chan' \in [Channels -> Seq(Message)]
    BY <1>4, <2>2, <2>3 DEF Extended
  <2>5. row' \in [Copies -> RowType]
    BY <1>0, <1>7, WrittenRowsFacts DEF Commit
  <2>6. NextTid(t) \in Nat
    BY <1>0, NextTidFacts
  <2>7. /\ tid' \in [Txns -> Nat] /\ maxTid' \in [Nodes \X Workers -> Nat]
        /\ stage' \in [Txns -> Stages]
        /\ UNCHANGED <<prog, tried, held, failed, seen, seenTid>>
    BY <1>0, <1>7, <2>6 DEF Commit, Goto, TypeOK, Stages
  <2> QED
    BY <1>0, <2>4, <2>5, <2>7 DEF TypeOK, RowType
<1>8. CASE Release(t)
  <2>1. PICK msgs : msgs = ToMaster("RELEASE", t, Rows(t), tid[t])
    OBVIOUS
  <2>2. Fresh(t, msgs) /\ Extended(msgs)
    BY <1>8, <2>1, ReleaseSends
  <2>3. pend' = [pend EXCEPT ![t] = {Id(m) : m \in msgs}]
    BY <1>8, <2>1 DEF Release, Ask
  <2>4. pend' \in [Txns -> SUBSET (Types \X Keys \X Nodes)] /\ chan' \in [Channels -> Seq(Message)]
    BY <1>4, <2>2, <2>3 DEF Extended
  <2>5. row' = UnlockedRows(t, TRUE, tid[t]) /\ tid[t] \in Nat /\ TRUE \in BOOLEAN
    BY <1>0, <1>8 DEF Release, TypeOK
  <2>6. row' \in [Copies -> RowType]
    BY <2>5, UnlockedRowsFacts
  <2> QED
    BY <1>0, <1>8, <2>4, <2>6 DEF Release, Goto, TypeOK, Stages, RowType
<1> QED
  BY <1>1, <1>2, <1>3, <1>5, <1>6, <1>7, <1>8 DEF Work

\* A message that is taken, as a request that gives a lock back.
LEMMA HeadHolds ==
  ASSUME TypeOK, NEW c, NEW m, NEW answers, Handled(c, m, answers), MessageOK(c, m)
  PROVE  /\ ~m.answer => Requested(m.type, m.txn, m.key, m.to)
         /\ m.ok => Granted(m.txn, m.key)
         /\ m.type \in {"ABORT", "RELEASE"} /\ ~m.answer => Holds(m.txn, m.key)
         /\ m.ok => Holds(m.txn, m.key)
         /\ m.type # "REPLICATION" => m.to = Master[m.key]
<1>1. ~m.answer => Requested(m.type, m.txn, m.key, m.to)
  BY DEF Requested, Handled, Id
<1>2. m.ok => Granted(m.txn, m.key)
  BY DEF Granted, Handled
<1>3. m.type # "REPLICATION" => m.to = Master[m.key]
  BY DEF MessageOK
<1> QED
  BY <1>1, <1>2, <1>3 DEF Holds

\* A handler keeps the types; a lock that is given back was counted.
LEMMA HandlerTypes ==
  ASSUME Discipline, LocksInv, NEW c \in Channels, NEW m \in Message, NEW answers,
         Handles(c, m, answers)
  PROVE  TypeOK'
<1>0. TypeOK
  BY DEF Discipline
<1>1. /\ Handled(c, m, answers) /\ MessageOK(c, m)
      /\ UNCHANGED <<prog, stage, tried, tid, maxTid>>
      /\ chan' \in [Channels -> Seq(Message)]
  BY DEF Handles, Handled, Taken
<1>2. /\ m.txn \in Txns /\ m.key \in Keys /\ m.write \in BOOLEAN /\ m.to \in Nodes
      /\ m.ok \in BOOLEAN /\ m.val \in Txns \cup {NoTxn} /\ m.tid \in Nat
  BY DEF Message
<1>3. /\ Rows(m.txn) \subseteq Keys /\ (m.write <=> m.key \in Writes(m.txn))
      /\ MasterRow(m.key) \in RowType
  BY <1>0, <1>1, <1>2, AccessFacts, Topology DEF MessageOK, TypeOK, RowType, MasterRow
<1>4. pend' = pend \/ Forgets(m) => pend' \in [Txns -> SUBSET (Types \X Keys \X Nodes)]
  <2> DEFINE P == Types \X Keys \X Nodes
  <2>1. pend \in [Txns -> SUBSET P]
    BY <1>0 DEF TypeOK
  <2> HIDE DEF P
  <2>2. pend' = pend \/ Forgets(m) => pend' \in [Txns -> SUBSET P]
    BY <1>2, <2>1 DEF Forgets
  <2> QED
    BY <2>2 DEF P
\* What is left to show of a handler.
<1>5. ASSUME row' \in [Copies -> RowType], pend' = pend \/ Forgets(m),
             held' \in [Txns -> SUBSET Keys], failed' \in [Txns -> BOOLEAN],
             seen' \in [Txns -> [Keys -> Txns \cup {NoTxn}]],
             seenTid' \in [Txns -> [Keys -> Nat]]
      PROVE  TypeOK'
  BY <1>0, <1>1, <1>4, <1>5 DEF TypeOK, RowType
<1>6. /\ row \in [Copies -> RowType]
      /\ held \in [Txns -> SUBSET Keys] /\ failed \in [Txns -> BOOLEAN]
      /\ seen \in [Txns -> [Keys -> Txns \cup {NoTxn}]]
      /\ seenTid \in [Txns -> [Keys -> Nat]]
  BY <1>0 DEF TypeOK, RowType
\* Handlers that touch nothing but a row.
<1>7. ASSUME row' \in [Copies -> RowType], Quiet PROVE TypeOK'
  BY <1>5, <1>6, <1>7 DEF Quiet
<1>8. CASE GrantsLock(m, answers)
  <2>1. Locked(MasterRow(m.key), m.write) \in RowType
    BY <1>2, <1>3, <1>8, RowTypes DEF GrantsLock
  <2>2. row' \in [Copies -> RowType]
    BY <1>0, <1>2, <1>8, <2>1, RowReplaced DEF GrantsLock
  <2> QED
    BY <1>7, <1>8, <2>2 DEF GrantsLock
<1>9. CASE RefusesLock(m, answers)
  BY <1>6, <1>7, <1>9 DEF RefusesLock
<1>10. CASE TakesLock(m, answers)
  <2>1. seen' \in [Txns -> [Keys -> Txns \cup {NoTxn}]]
    BY <1>2, <1>6, <1>10, Replaced DEF TakesLock
  <2>2. seenTid' \in [Txns -> [Keys -> Nat]]
    BY <1>2, <1>6, <1>10, Replaced DEF TakesLock
  <2>3. held' \in [Txns -> SUBSET Keys]
    BY <1>2, <1>6, <1>10 DEF TakesLock
  <2> QED
    BY <1>5, <1>6, <1>10, <2>1, <2>2, <2>3 DEF TakesLock
<1>11. CASE MissesLock(m, answers)
  BY <1>2, <1>5, <1>6, <1>11 DEF MissesLock
<1>12. CASE AbortsLock(m, answers)
  <2>1. Holds(m.txn, m.key)
    BY <1>0, <1>1, <1>12, HeadHolds DEF AbortsLock
  <2>2. Unlocked(MasterRow(m.key), m.key \in Writes(m.txn)) \in RowType
    BY <1>2, <2>1, CanUnlock
  <2>3. m.write = (m.key \in Writes(m.txn))
    BY <1>2, <1>3
  <2>4. row' \in [Copies -> RowType]
    BY <1>0, <1>2, <1>12, <2>2, <2>3, RowReplaced DEF AbortsLock
  <2> QED
    BY <1>7, <1>12, <2>4 DEF AbortsLock
<1>13. CASE WritesRow(m, answers)
  <2>1. [MasterRow(m.key) EXCEPT !.val = m.txn] \in RowType
    BY <1>2, <1>3, RowTypes
  <2>2. row' \in [Copies -> RowType]
    BY <1>0, <1>2, <1>13, <2>1, RowReplaced DEF WritesRow
  <2> QED
    BY <1>7, <1>13, <2>2 DEF WritesRow
<1>14. CASE Replicates(m, answers)
  <2>1. <<m.to, m.key>> \in Copies
    BY <1>1, <1>2, Topology DEF MessageOK
  <2>2. [row[<<m.to, m.key>>] EXCEPT !.val = m.txn, !.tid = m.tid] \in RowType
    BY <1>2, <1>6, <2>1, RowTypes
  <2>3. row' \in [Copies -> RowType]
    BY <1>6, <1>14, <2>1, <2>2 DEF Replicates
  <2> QED
    BY <1>7, <1>14, <2>3 DEF Replicates
<1>15. CASE ReleasesLock(m, answers)
  <2>1. Holds(m.txn, m.key)
    BY <1>0, <1>1, <1>15, HeadHolds DEF ReleasesLock
  <2>2. Unlocked(MasterRow(m.key), m.key \in Writes(m.txn)) \in RowType
    BY <1>2, <2>1, CanUnlock
  <2>3. ~m.write => FALSE = (m.key \in Writes(m.txn))
    BY <1>2, <1>3
  <2>4. Installed(MasterRow(m.key), m.tid) \in RowType
    BY <1>2, <1>3, RowTypes
  <2>5. (IF m.write THEN Installed(MasterRow(m.key), m.tid)
                    ELSE Unlocked(MasterRow(m.key), FALSE)) \in RowType
    BY <2>2, <2>3, <2>4
  <2>6. row' \in [Copies -> RowType]
    BY <1>0, <1>2, <1>15, <2>5, RowReplaced DEF ReleasesLock
  <2> QED
    BY <1>7, <1>15, <2>6 DEF ReleasesLock
<1>16. CASE Counts(m, answers)
  BY <1>5, <1>6, <1>16 DEF Counts
<1> QED
  BY <1>8, <1>9, <1>10, <1>11, <1>12, <1>13, <1>14, <1>15, <1>16 DEF Handles

\* A step that sends nothing.
LEMMA MessagesKept ==
  ASSUME TypeOK, MessagesOK, NoDuplicates, UNCHANGED <<prog, tid, pend, chan>>
  PROVE  /\ MessagesOK' /\ NoDuplicates'
         /\ \A type, u, k, n : Requested(type, u, k, n)' <=> Requested(type, u, k, n)
         /\ \A u, k : Granted(u, k)' <=> Granted(u, k)
<1>1. MessagesOK'
  <2> SUFFICES ASSUME NEW c \in Channels, NEW i \in 1..Len(chan[c])
               PROVE  MessageOK(c, chan[c][i])'
    BY DEF MessagesOK
  <2>1. PICK m : m = chan[c][i]
    OBVIOUS
  <2>2. MessageOK(c, m) /\ m = chan'[c][i]
    BY <2>1 DEF MessagesOK
  <2>3. Rows(m.txn)' = Rows(m.txn) /\ Writes(m.txn)' = Writes(m.txn)
    BY ProgramsFixed
  <2> QED
    BY <2>2, <2>3 DEF MessageOK
<1>2. NoDuplicates'
  BY DEF NoDuplicates
<1>3. /\ \A type, u, k, n : Requested(type, u, k, n)' <=> Requested(type, u, k, n)
      /\ \A u, k : Granted(u, k)' <=> Granted(u, k)
  BY DEF Requested, Granted
<1> QED
  BY <1>1, <1>2, <1>3

Idle(t) == Rollback(t) \/ Begin(t) \/ (\E k \in Keys : Lock(t, k)) \/ Finish(t)

\* The steps that send nothing, and the others.
LEMMA WorkIdles ==
  ASSUME NEW t \in Txns
  PROVE  /\ Work(t) <=> Idle(t) \/ AskLocks(t) \/ Abort(t) \/ Commit(t) \/ Release(t)
         /\ Idle(t) => UNCHANGED <<prog, tid, maxTid, pend, chan>>
BY DEF Work, Idle, Rollback, Begin, Lock, Finish

\* No step of a transaction duplicates a message or misroutes one.
LEMMA WorkMessages ==
  ASSUME Discipline, NEW t \in Txns, Work(t)
  PROVE  MessagesOK' /\ NoDuplicates'
<1>0. TypeOK /\ MessagesOK /\ NoDuplicates
  BY DEF Discipline
<1>1. CASE Idle(t)
  BY <1>0, <1>1, WorkIdles, MessagesKept
<1>2. CASE AskLocks(t)
  <2>1. PICK msgs : msgs = ToMaster("LOCK", t, Rows(t), 0)
    OBVIOUS
  <2> QED
    BY <1>2, <2>1, AskLocksSends
<1>3. CASE Abort(t)
  <2>1. PICK msgs : msgs = ToMaster("ABORT", t, held[t], 0)
    OBVIOUS
  <2> QED
    BY <1>3, <2>1, AbortSends
<1>4. CASE Commit(t)
  <2>1. PICK msgs : msgs = CommitMessages(t)
    OBVIOUS
  <2> QED
    BY <1>4, <2>1, CommitSends
<1>5. CASE Release(t)
  <2>1. PICK msgs : msgs = ToMaster("RELEASE", t, Rows(t), tid[t])
    OBVIOUS
  <2> QED
    BY <1>5, <2>1, ReleaseSends
<1> QED
  BY <1>1, <1>2, <1>3, <1>4, <1>5, WorkIdles

\* Who asks goes on to the stage at which one waits.
LEMMA WorkWaits ==
  ASSUME Discipline, NEW t \in Txns, Work(t)
  PROVE  WaitsOK'
<1>0. TypeOK /\ WaitsOK
  BY DEF Discipline
<1>1. prog' = prog /\ pend[t] = {} /\ Others(t)
  BY <1>0, WorkFrame
<1>2. ASSUME \A id \in pend'[t] : id[1] # "ABORT" /\ stage'[t] = StageOf[id[1]]
      PROVE  WaitsOK'
  <2> SUFFICES ASSUME NEW u \in Txns, NEW id \in pend'[u]
               PROVE  id[1] # "ABORT" /\ stage'[u] = StageOf[id[1]]
    BY DEF WaitsOK
  <2>1. CASE u = t
    BY <1>2, <2>1
  <2>2. CASE u # t
    BY <1>0, <1>1, <2>2 DEF Others, WaitsOK
  <2> QED
    BY <2>1, <2>2
<1>3. /\ StageOf["RELEASE"] = "releasing" /\ StageOf["LOCK"] = "asked"
      /\ StageOf["WRITE"] = "writing" /\ StageOf["REPLICATION"] = "writing"
  BY DEF StageOf
<1>4. CASE Idle(t) \/ Abort(t)
  <2>1. pend' = pend
    BY <1>4, WorkIdles DEF Abort
  <2> QED
    BY <1>1, <1>2, <2>1
<1>5. CASE AskLocks(t)
  <2>1. PICK msgs : msgs = ToMaster("LOCK", t, Rows(t), 0)
    OBVIOUS
  <2>2. pend'[t] = {Id(m) : m \in msgs} /\ \A m \in msgs : m.type = "LOCK"
    BY <1>5, <2>1, AskLocksSends DEF ToMaster, Request
  <2>3. \A id \in pend'[t] : id[1] = "LOCK"
    BY <2>2 DEF Id
  <2>4. stage'[t] = "asked"
    BY <1>0, <1>5 DEF AskLocks, Goto, TypeOK
  <2> QED
    BY <1>2, <1>3, <2>3, <2>4
<1>6. CASE Commit(t)
  <2>1. PICK msgs : msgs = CommitMessages(t)
    OBVIOUS
  <2>2. pend'[t] = {Id(m) : m \in msgs} /\ \A m \in msgs : m.type \in {"WRITE", "REPLICATION"}
    BY <1>6, <2>1, CommitSends
  <2>3. \A id \in pend'[t] : id[1] \in {"WRITE", "REPLICATION"}
    BY <2>2 DEF Id
  <2>4. stage'[t] = "writing"
    BY <1>0, <1>6 DEF Commit, Goto, TypeOK
  <2> QED
    BY <1>2, <1>3, <2>3, <2>4
<1>7. CASE Release(t)
  <2>1. PICK msgs : msgs = ToMaster("RELEASE", t, Rows(t), tid[t])
    OBVIOUS
  <2>2. pend'[t] = {Id(m) : m \in msgs} /\ \A m \in msgs : m.type = "RELEASE"
    BY <1>7, <2>1, ReleaseSends DEF ToMaster, Request
  <2>3. \A id \in pend'[t] : id[1] = "RELEASE"
    BY <2>2 DEF Id
  <2>4. stage'[t] = "releasing"
    BY <1>0, <1>7 DEF Release, Goto, TypeOK
  <2> QED
    BY <1>2, <1>3, <2>3, <2>4
<1> QED
  BY <1>4, <1>5, <1>6, <1>7, WorkIdles

\* What a transaction has in hand, one transaction at a time.
HeldOf(u) ==
  /\ held[u] \subseteq Rows(u)
  /\ stage[u] \in {"waiting", "releasing", "committed", "rolled_back"} => held[u] = {}
  /\ stage[u] = "locking" =>
       /\ held[u] \subseteq tried[u] /\ \A k \in held[u] : IsLocal(u, k)
       /\ \A k \in tried[u] : k \in held[u] \/ failed[u]
  /\ stage[u] = "asked" => \A k \in Rows(u) :
       /\ k \in held[u] => <<"LOCK", k, Master[k]>> \notin pend[u]
       /\ k \in held[u] \/ failed[u] \/ <<"LOCK", k, Master[k]>> \in pend[u]
  /\ stage[u] = "writing" => held[u] = Rows(u)

\* HeldOK, one transaction at a time.
LEMMA HeldByTxn == (HeldOK <=> \A u \in Txns : HeldOf(u)) /\ (HeldOK' <=> \A u \in Txns : HeldOf(u)')
BY DEF HeldOK, HeldOf

\* A step of a transaction keeps what its stage says of its locks.
LEMMA WorkHeld ==
  ASSUME Discipline, NEW t \in Txns, Work(t)
  PROVE  HeldOK'
<1>0. TypeOK /\ WaitsOK /\ HeldOf(t) /\ \A u \in Txns : HeldOf(u)
  BY HeldByTxn DEF Discipline
<1>1. prog' = prog /\ pend[t] = {} /\ Others(t) /\ \A u \in Txns : Rows(u)' = Rows(u)
  BY <1>0, WorkFrame, ProgramsFixed
<1>2. ASSUME HeldOf(t)' PROVE HeldOK'
  <2> SUFFICES ASSUME NEW u \in Txns PROVE HeldOf(u)'
    BY HeldByTxn
  <2>1. CASE u = t
    BY <1>2, <2>1
  <2>2. CASE u # t
    BY <1>0, <1>1, <2>2 DEF Others, HeldOf, IsLocal
  <2> QED
    BY <2>1, <2>2
<1>3. CASE Rollback(t) \/ Begin(t) \/ Finish(t)
  <2>1. held[t] = {} /\ held' = held
    BY <1>0, <1>3 DEF HeldOf, Rollback, Begin, Finish
  <2>2. \/ stage'[t] = "locking" /\ tried'[t] = {}
        \/ stage'[t] \in {"rolled_back", "committed"}
    BY <1>0, <1>3 DEF Rollback, Begin, Finish, Goto, TypeOK
  <2> QED
    BY <1>2, <2>1, <2>2 DEF HeldOf
<1>4. ASSUME NEW k \in Keys, Lock(t, k) PROVE HeldOf(t)'
  <2>1. /\ k \in Rows(t) /\ IsLocal(t, k) /\ stage[t] = "locking"
        /\ tried' = [tried EXCEPT ![t] = @ \cup {k}] /\ stage' = stage
        /\ TakesRow(t, k) \/ MissesRow(t, k)
    BY <1>0, <1>4, LockFacts
  <2>2. tried'[t] = tried[t] \cup {k} /\ stage'[t] = "locking"
    BY <1>0, <2>1 DEF TypeOK
  <2>3. CASE TakesRow(t, k)
    <3>1. held'[t] = held[t] \cup {k} /\ failed' = failed
      BY <1>0, <2>3 DEF TakesRow, TypeOK
    <3> QED
      BY <1>0, <1>1, <2>1, <2>2, <3>1 DEF HeldOf, IsLocal
  <2>4. CASE MissesRow(t, k)
    <3>1. held' = held /\ failed'[t] = TRUE
      BY <1>0, <2>4 DEF MissesRow, TypeOK
    <3> QED
      BY <1>0, <1>1, <2>1, <2>2, <3>1 DEF HeldOf, IsLocal
  <2> QED
    BY <2>1, <2>3, <2>4
<1>5. CASE AskLocks(t)
  <2>1. PICK msgs : msgs = ToMaster("LOCK", t, Rows(t), 0)
    OBVIOUS
  <2>2. pend'[t] = {Id(m) : m \in msgs}
    BY <1>5, <2>1, AskLocksSends
  <2>3. \A k : <<"LOCK", k, Master[k]>> \in pend'[t] <=> k \in Rows(t) /\ ~IsLocal(t, k)
    <3>1. "LOCK" \in Types /\ 0 \in Nat /\ Rows(t) \in SUBSET Rows(t)
      BY DEF Types
    <3>2. MasterRequests(t, "LOCK", Rows(t), 0, msgs)
      BY <1>0, <2>1, <3>1, ToMasterFacts
    <3>3. \A x, k, n : (\E m \in msgs : Id(m) = <<x, k, n>>) <=>
            x = "LOCK" /\ k \in Rows(t) /\ ~IsLocal(t, k) /\ n = Master[k]
      BY <3>2 DEF MasterRequests
    <3>4. \A id : id \in pend'[t] <=> \E m \in msgs : Id(m) = id
      BY <2>2
    <3> QED
      BY <3>3, <3>4
  <2>4. /\ stage'[t] = "asked" /\ stage[t] = "locking"
        /\ held' = held /\ failed' = failed /\ Local(t, Rows(t)) \subseteq tried[t]
    BY <1>0, <1>5 DEF AskLocks, Goto, TypeOK
  <2>5. \A k \in Rows(t) : IsLocal(t, k) => k \in tried[t]
    BY <2>4 DEF Local
  <2> QED
    BY <1>0, <1>1, <1>2, <2>3, <2>4, <2>5 DEF HeldOf
<1>6. CASE Abort(t) \/ Release(t)
  <2>1. held'[t] = {} /\ stage'[t] \in {"waiting", "releasing"}
    BY <1>0, <1>6 DEF Abort, Release, Goto, TypeOK
  <2> QED
    BY <1>2, <2>1 DEF HeldOf
<1>7. CASE Commit(t)
  <2>1. /\ stage[t] = "asked" /\ ~failed[t] /\ held' = held /\ stage'[t] = "writing"
    BY <1>0, <1>7 DEF Commit, Goto, TypeOK
  <2>2. held[t] = Rows(t)
    BY <1>0, <1>1, <2>1 DEF HeldOf
  <2> QED
    BY <1>1, <1>2, <2>1, <2>2 DEF HeldOf
<1> QED
  BY <1>2, <1>3, <1>4, <1>5, <1>6, <1>7 DEF Work

\* Where the release of an abort may be.
AbortAt(c, i) ==
  LET m == chan[c][i]
  IN  /\ m.key \notin held[m.txn]
      /\ stage[m.txn] \in {"waiting", "locking", "asked", "rolled_back"}
      /\ stage[m.txn] = "asked" => \E j \in 1..Len(chan[c]) :
           /\ j > i /\ ~chan[c][j].answer
           /\ chan[c][j].txn = m.txn /\ Id(chan[c][j]) = <<"LOCK", m.key, m.to>>

\* AbortsFirst, one place of a channel at a time.
LEMMA AbortsByPlace ==
  /\ AbortsFirst <=>
       \A c \in Channels : \A i \in 1..Len(chan[c]) :
         chan[c][i].type = "ABORT" => AbortAt(c, i)
  /\ AbortsFirst' <=>
       \A c \in Channels : \A i \in 1..Len(chan'[c]) :
         chan'[c][i].type = "ABORT" => AbortAt(c, i)'
BY DEF AbortsFirst, AbortAt

\* A turn of t leaves the releases of the others where they are.
LEMMA OthersAborts ==
  ASSUME Discipline, NEW t \in Txns, Others(t), prog' = prog,
         \A c \in Channels : \A i \in 1..Len(chan[c]) :
           i \in 1..Len(chan'[c]) /\ chan'[c][i] = chan[c][i],
         \A c \in Channels : \A i \in 1..Len(chan'[c]) :
           i \in 1..Len(chan[c]) \/ chan'[c][i].txn = t,
         \A c \in Channels : \A i \in 1..Len(chan'[c]) :
           chan'[c][i].type = "ABORT" /\ chan'[c][i].txn = t => AbortAt(c, i)'
  PROVE  AbortsFirst'
<1> SUFFICES ASSUME NEW c \in Channels, NEW i \in 1..Len(chan'[c]),
                    chan'[c][i].type = "ABORT", chan'[c][i].txn # t
             PROVE  AbortAt(c, i)'
  BY AbortsByPlace
<1>1. i \in 1..Len(chan[c]) /\ chan'[c][i] = chan[c][i]
  OBVIOUS
<1>2. PICK m : m = chan[c][i]
  OBVIOUS
<1>3. /\ m.key \notin held[m.txn]
      /\ stage[m.txn] \in {"waiting", "locking", "asked", "rolled_back"}
      /\ stage[m.txn] = "asked" => \E j \in 1..Len(chan[c]) :
           /\ j > i /\ ~chan[c][j].answer
           /\ chan[c][j].txn = m.txn /\ Id(chan[c][j]) = <<"LOCK", m.key, m.to>>
  BY <1>1, <1>2 DEF Discipline, AbortsFirst
<1>4. m.txn \in Txns /\ m.txn # t
  BY <1>1, <1>2, PositionTypes DEF Discipline
<1>5. held'[m.txn] = held[m.txn] /\ stage'[m.txn] = stage[m.txn]
  BY <1>4 DEF Others
<1>6. m = chan'[c][i]
  BY <1>1, <1>2
<1>7. stage'[m.txn] = "asked" => \E j \in 1..Len(chan'[c]) :
        /\ j > i /\ ~chan'[c][j].answer
        /\ chan'[c][j].txn = m.txn /\ Id(chan'[c][j]) = <<"LOCK", m.key, m.to>>
  BY <1>3, <1>5
<1> QED
  BY <1>3, <1>5, <1>6, <1>7, Zenon DEF AbortAt

\* The release of an abort in flight.
Owes(t, k, n) ==
  /\ k \in Rows(t) /\ n = Master[k] /\ ~IsLocal(t, k) /\ k \notin held[t]
  /\ stage[t] \in {"waiting", "locking", "asked", "rolled_back"}
  /\ stage[t] = "asked" => <<"LOCK", k, n>> \in pend[t]

\* A release of an abort in flight is of a lock that is not in hand.
LEMMA AbortRequested ==
  ASSUME Discipline, NEW t, NEW k, NEW n, Requested("ABORT", t, k, n)
  PROVE  Owes(t, k, n)
<1>1. /\ k \in Rows(t) /\ n = Master[k] /\ ~IsLocal(t, k) /\ k \notin held[t]
      /\ stage[t] \in {"waiting", "locking", "asked", "rolled_back"}
      /\ stage[t] = "asked" => Requested("LOCK", t, k, n)
  BY RequestedPlace
<1>2. Requested("LOCK", t, k, n) => <<"LOCK", k, n>> \in pend[t]
  BY RequestedFacts
<1> QED
  BY <1>1, <1>2 DEF Owes

\* An abort of t in flight, when t takes its turn.
OldAbort(t, c, m) ==
  /\ m.txn = t /\ m.type = "ABORT" /\ ~m.answer
  /\ m.key \notin held[t] /\ m.key \in Rows(t) /\ ~IsLocal(t, m.key)
  /\ m.to = Master[m.key] /\ c = Route(m)
  /\ stage[t] \in {"waiting", "locking", "rolled_back"}

\* A transaction that waits for nothing has in flight releases of aborts only.
LEMMA AbortInFlight ==
  ASSUME Discipline, NEW t \in Txns, pend[t] = {}, NEW c \in Channels
  PROVE  \A i \in 1..Len(chan[c]) : chan[c][i].txn = t => OldAbort(t, c, chan[c][i])
<1> SUFFICES ASSUME NEW i \in 1..Len(chan[c]), chan[c][i].txn = t
             PROVE  OldAbort(t, c, chan[c][i])
  OBVIOUS
<1>0. TypeOK /\ MessagesOK
  BY DEF Discipline
<1>1. PICK m : m = chan[c][i]
  OBVIOUS
<1>2. m.type = "ABORT" /\ ~m.answer /\ m.txn = t
  BY <1>0, <1>1, OnlyAborts
<1>3. PICK k, n : k = m.key /\ n = m.to
  OBVIOUS
<1>4. Requested("ABORT", t, k, n)
  BY <1>1, <1>2, <1>3 DEF Requested, Id
<1>5. /\ k \in Rows(t) /\ n = Master[k] /\ ~IsLocal(t, k) /\ k \notin held[t]
      /\ stage[t] \in {"waiting", "locking", "rolled_back"}
  <2>1. Owes(t, k, n)
    BY <1>4, AbortRequested
  <2> QED
    BY <2>1 DEF Owes
<1>6. c = Route(m)
  BY <1>0, <1>1 DEF MessagesOK, MessageOK
<1> QED
  BY <1>1, <1>2, <1>3, <1>5, <1>6 DEF OldAbort

\* The next request for a lock goes behind the release of the last one.
LEMMA AskedBehind ==
  ASSUME Discipline, NEW t \in Txns, AskLocks(t), pend[t] = {},
         NEW c \in Channels, NEW i \in 1..Len(chan'[c]), chan'[c][i].txn = t,
         chan'[c][i].type = "ABORT"
  PROVE  AbortAt(c, i)'
<1>0. TypeOK
  BY DEF Discipline
<1>1. PICK msgs : msgs = ToMaster("LOCK", t, Rows(t), 0)
  OBVIOUS
<1>2. Extended(msgs) /\ Fresh(t, msgs)
  BY <1>1, AskLocksSends
<1>3. MasterRequests(t, "LOCK", Rows(t), 0, msgs)
  <2>1. "LOCK" \in Types /\ 0 \in Nat /\ Rows(t) \in SUBSET Rows(t)
    BY DEF Types
  <2> QED
    BY <1>0, <1>1, <2>1, ToMasterFacts
<1>4. i \in 1..Len(chan[c]) /\ chan'[c][i] = chan[c][i]
  <2>1. chan'[c][i] \notin msgs
    BY <1>3 DEF MasterRequests
  <2> QED
    BY <1>2, <2>1 DEF Extended
<1>5. PICK m : m = chan[c][i] /\ m = chan'[c][i]
  BY <1>4
<1>6. /\ m.key \notin held[t] /\ m.key \in Rows(t) /\ ~IsLocal(t, m.key)
      /\ m.to = Master[m.key] /\ c = Route(m) /\ m.txn = t /\ ~m.answer
  <2>1. OldAbort(t, c, m)
    BY <1>4, <1>5, AbortInFlight
  <2> QED
    BY <2>1 DEF OldAbort
<1>7. PICK n \in msgs : Id(n) = <<"LOCK", m.key, m.to>>
  <2>1. \A x, k, n : (\E y \in msgs : Id(y) = <<x, k, n>>) <=>
          x = "LOCK" /\ k \in Rows(t) /\ ~IsLocal(t, k) /\ n = Master[k]
    BY <1>3 DEF MasterRequests
  <2>2. \A k \in Rows(t) : ~IsLocal(t, k) =>
          \E y \in msgs : Id(y) = <<"LOCK", k, Master[k]>>
    BY <2>1, ZenonT(30)
  <2>3. \E y \in msgs : Id(y) = <<"LOCK", m.key, Master[m.key]>>
    BY <1>6, <2>2
  <2> QED
    BY <1>6, <2>3
<1>8. /\ n.txn = t /\ ~n.answer /\ Route(n) \in Channels
      /\ Route(n) = <<Home[t], n.to, WorkerOf[t]>>
  BY <1>3 DEF MasterRequests
<1>9. n.to = m.to
  BY <1>7 DEF Id
<1>10. Route(n) = c
  BY <1>6, <1>8, <1>9 DEF Route
<1>11. PICK j \in 1..Len(chan'[c]) : chan'[c][j] = n
  BY <1>2, <1>8, <1>10 DEF Extended
<1>12. j \notin 1..Len(chan[c])
  <2> SUFFICES ASSUME j \in 1..Len(chan[c]) PROVE FALSE
    OBVIOUS
  <2>1. chan[c][j] = n
    BY <1>2, <1>11 DEF Extended
  <2> QED
    BY <1>2, <1>8, <2>1 DEF Fresh
<1>13. j > i
  <2>1. Len(chan[c]) \in Nat /\ Len(chan'[c]) \in Nat
    <3>1. chan[c] \in Seq(Message) /\ chan'[c] \in Seq(Message)
      BY <1>0, <1>2 DEF TypeOK, Extended
    <3> QED
      BY <3>1
  <2> QED
    BY <1>4, <1>12, <2>1
<1>14. held' = held /\ stage'[t] = "asked"
  BY <1>0 DEF AskLocks, Goto, TypeOK
<1>15. \E x \in 1..Len(chan'[c]) :
         /\ x > i /\ ~chan'[c][x].answer
         /\ chan'[c][x].txn = m.txn /\ Id(chan'[c][x]) = <<"LOCK", m.key, m.to>>
  BY <1>6, <1>7, <1>8, <1>11, <1>13
<1> QED
  BY <1>5, <1>6, <1>14, <1>15, Zenon DEF AbortAt

\* The next request for a lock leaves behind the release of the last one.
LEMMA WorkAborts ==
  ASSUME Discipline, NEW t \in Txns, Work(t)
  PROVE  AbortsFirst'
<1>0. TypeOK /\ MessagesOK /\ WaitsOK
  BY DEF Discipline
<1>1. prog' = prog /\ pend[t] = {} /\ Others(t)
  BY <1>0, WorkFrame
<1>2. CASE Idle(t)
  <2>1. chan' = chan
    BY <1>2, WorkIdles
  <2> SUFFICES ASSUME NEW c \in Channels, NEW i \in 1..Len(chan[c]), chan[c][i].txn = t
               PROVE  AbortAt(c, i)'
    BY <1>1, <2>1, OthersAborts
  <2>2. PICK m : m = chan[c][i] /\ m = chan'[c][i]
    BY <2>1
  <2>3. /\ m.key \notin held[t] /\ ~IsLocal(t, m.key) /\ m.txn = t
        /\ stage[t] \in {"waiting", "locking", "rolled_back"}
    <3>1. OldAbort(t, c, m)
      BY <1>1, <2>2, AbortInFlight
    <3> QED
      BY <3>1 DEF OldAbort
  <2>4. stage'[t] \in {"locking", "rolled_back"}
    BY <1>0, <1>2, <2>3 DEF Idle, Rollback, Begin, Lock, Finish, Goto, TypeOK
  <2>5. m.key \notin held'[t]
    <3>1. ASSUME NEW k \in Keys, Lock(t, k) PROVE m.key \notin held'[t]
      <4>1. IsLocal(t, k) /\ (TakesRow(t, k) \/ MissesRow(t, k))
        BY <1>0, <3>1, LockFacts
      <4>2. held'[t] \subseteq held[t] \cup {k}
        BY <1>0, <4>1 DEF TakesRow, MissesRow, TypeOK
      <4> QED
        BY <2>3, <4>1, <4>2
    <3>2. CASE Rollback(t) \/ Begin(t) \/ Finish(t)
      BY <2>3, <3>2 DEF Rollback, Begin, Finish
    <3> QED
      BY <1>2, <3>1, <3>2 DEF Idle
  <2>6. stage'[m.txn] # "asked" /\ m.key \notin held'[m.txn]
        /\ stage'[m.txn] \in {"waiting", "locking", "asked", "rolled_back"}
    BY <2>3, <2>4, <2>5
  <2> QED
    BY <2>2, <2>6, Zenon DEF AbortAt
<1>3. ASSUME NEW msgs, Fresh(t, msgs), Extended(msgs),
             \A c \in Channels : \A i \in 1..Len(chan'[c]) :
               chan'[c][i].type = "ABORT" /\ chan'[c][i].txn = t => AbortAt(c, i)'
      PROVE  AbortsFirst'
  <2>1. \A c \in Channels : \A i \in 1..Len(chan[c]) :
          i \in 1..Len(chan'[c]) /\ chan'[c][i] = chan[c][i]
    BY <1>3 DEF Extended
  <2>2. \A c \in Channels : \A i \in 1..Len(chan'[c]) :
          i \in 1..Len(chan[c]) \/ chan'[c][i].txn = t
    BY <1>3 DEF Extended, Fresh
  <2> QED
    BY <1>1, <1>3, <2>1, <2>2, OthersAborts
<1>4. CASE AskLocks(t)
  <2>1. PICK msgs : msgs = ToMaster("LOCK", t, Rows(t), 0)
    OBVIOUS
  <2>2. Fresh(t, msgs) /\ Extended(msgs)
    BY <1>4, <2>1, AskLocksSends
  <2> QED
    BY <1>1, <1>3, <1>4, <2>2, AskedBehind
<1>5. CASE Abort(t)
  <2>1. PICK msgs : msgs = ToMaster("ABORT", t, held[t], 0)
    OBVIOUS
  <2>2. Fresh(t, msgs) /\ Extended(msgs)
    BY <1>5, <2>1, AbortSends
  <2>3. held'[t] = {} /\ stage'[t] = "waiting"
    BY <1>0, <1>5 DEF Abort, Goto, TypeOK
  <2>4. \A c \in Channels : \A i \in 1..Len(chan'[c]) :
          chan'[c][i].txn = t => AbortAt(c, i)'
    BY <2>3 DEF AbortAt
  <2> QED
    BY <1>3, <2>2, <2>4
\* There is no abort in flight, and none is sent.
<1>6. ASSUME NEW msgs, Fresh(t, msgs), Extended(msgs), stage[t] \in {"asked", "writing"},
             \A m \in msgs : m.type # "ABORT"
      PROVE  AbortsFirst'
  <2>1. \A c \in Channels : \A i \in 1..Len(chan'[c]) :
          chan'[c][i].txn = t => chan'[c][i] \in msgs
    <3> SUFFICES ASSUME NEW c \in Channels, NEW i \in 1..Len(chan'[c]),
                        chan'[c][i].txn = t, i \in 1..Len(chan[c])
                 PROVE  FALSE
      BY <1>6 DEF Extended
    <3>1. PICK m : m = chan[c][i]
      OBVIOUS
    <3>2. m.txn = t
      BY <1>6, <3>1 DEF Extended
    <3>3. OldAbort(t, c, m)
      BY <1>1, <3>1, <3>2, AbortInFlight
    <3> QED
      BY <1>6, <3>3 DEF OldAbort
  <2> QED
    BY <1>3, <1>6, <2>1
<1>7. CASE Commit(t)
  <2>1. PICK msgs : msgs = CommitMessages(t)
    OBVIOUS
  <2>2. /\ Fresh(t, msgs) /\ Extended(msgs)
        /\ \A m \in msgs : m.type \in {"WRITE", "REPLICATION"}
    BY <1>7, <2>1, CommitSends
  <2>3. stage[t] = "asked"
    BY <1>7 DEF Commit
  <2> QED
    BY <1>6, <2>2, <2>3
<1>8. CASE Release(t)
  <2>1. PICK msgs : msgs = ToMaster("RELEASE", t, Rows(t), tid[t])
    OBVIOUS
  <2>2. Fresh(t, msgs) /\ Extended(msgs)
    BY <1>8, <2>1, ReleaseSends
  <2>3. stage[t] = "writing" /\ \A m \in msgs : m.type = "RELEASE"
    BY <1>8, <2>1 DEF Release, ToMaster, Request
  <2> QED
    BY <1>6, <2>2, <2>3
<1> QED
  BY <1>2, <1>4, <1>5, <1>7, <1>8, WorkIdles

\* What every handler leaves alone.
LEMMA HandlesFrame ==
  ASSUME TypeOK, NEW c, NEW m \in Message, NEW answers, Handles(c, m, answers)
  PROVE  /\ Handled(c, m, answers) /\ MessageOK(c, m)
         /\ prog' = prog /\ tid' = tid /\ stage' = stage /\ tried' = tried
         /\ \/ pend' = pend
            \/ answers = {} /\ \A u \in Txns :
                 pend'[u] = IF u = m.txn THEN pend[u] \ {Id(m)} ELSE pend[u]
         /\ \/ held' = held
            \/ TakesLock(m, answers)
<1>1. Forgets(m) => \A u \in Txns :
        pend'[u] = IF u = m.txn THEN pend[u] \ {Id(m)} ELSE pend[u]
  BY DEF Forgets, TypeOK
<1>2. \/ pend' = pend
      \/ answers = {} /\ Forgets(m)
  BY DEF Handles, Quiet, GrantsLock, RefusesLock, TakesLock, MissesLock, AbortsLock,
         WritesRow, Replicates, ReleasesLock, Counts
<1>3. held' = held \/ TakesLock(m, answers)
  BY DEF Handles, Quiet, GrantsLock, RefusesLock, MissesLock, AbortsLock,
         WritesRow, Replicates, ReleasesLock, Counts
<1> QED
  BY <1>1, <1>2, <1>3 DEF Handles

\* A handler answers once, and forgets a request with its answer.
LEMMA HandlerMessages ==
  ASSUME Discipline, NEW c \in Channels, NEW m \in Message, NEW answers,
         Handles(c, m, answers)
  PROVE  MessagesOK' /\ NoDuplicates'
<1>0. TypeOK /\ MessagesOK /\ NoDuplicates
  BY DEF Discipline
<1>1. /\ Handled(c, m, answers) /\ prog' = prog /\ tid' = tid
      /\ \/ pend' = pend
         \/ answers = {} /\ \A u \in Txns :
              pend'[u] = IF u = m.txn THEN pend[u] \ {Id(m)} ELSE pend[u]
  BY <1>0, HandlesFrame
<1>2. \A a \in answers : MessageOK(Back(c), a)'
  BY DEF Handles
<1> QED
  BY <1>0, <1>1, <1>2, HandleMessages

\* A handler starts no wait.
LEMMA HandlerWaits ==
  ASSUME Discipline, NEW c \in Channels, NEW m \in Message, NEW answers,
         Handles(c, m, answers)
  PROVE  WaitsOK'
<1>0. TypeOK /\ WaitsOK
  BY DEF Discipline
<1>1. stage' = stage /\ \A u \in Txns : pend'[u] \subseteq pend[u]
  BY <1>0, HandlesFrame
<1> QED
  BY <1>0, <1>1 DEF WaitsOK

\* A lock is in hand once its answer is taken.
LEMMA HandlerHeld ==
  ASSUME Discipline, NEW c \in Channels, NEW m \in Message, NEW answers,
         Handles(c, m, answers)
  PROVE  HeldOK'
<1>0. TypeOK /\ WaitsOK /\ \A u \in Txns : HeldOf(u)
  BY HeldByTxn DEF Discipline
<1>1. /\ Handled(c, m, answers) /\ MessageOK(c, m)
      /\ stage' = stage /\ tried' = tried
      /\ \A u \in Txns : Rows(u)' = Rows(u)
  BY <1>0, HandlesFrame, ProgramsFixed
<1>2. m.txn \in Txns /\ m.key \in Keys
  BY DEF Message
<1>3. CASE pend' = pend /\ failed' = failed /\ held' = held
  <2>1. \A u \in Txns : HeldOf(u)'
    BY <1>0, <1>1, <1>3 DEF HeldOf, IsLocal
  <2> QED
    BY <2>1, HeldByTxn
\* The locks of the others, when a transaction has an answer.
<1>4. ASSUME Forgets(m), HeldOf(m.txn)',
             \A u \in Txns : u # m.txn => held'[u] = held[u] /\ failed'[u] = failed[u]
      PROVE  HeldOK'
  <2> SUFFICES ASSUME NEW u \in Txns, u # m.txn PROVE HeldOf(u)'
    BY <1>4, HeldByTxn
  <2>1. pend'[u] = pend[u] /\ held'[u] = held[u] /\ failed'[u] = failed[u]
    BY <1>0, <1>4 DEF Forgets, TypeOK
  <2> QED
    BY <1>0, <1>1, <2>1 DEF HeldOf, IsLocal
<1>5. ASSUME Forgets(m) PROVE pend'[m.txn] = pend[m.txn] \ {Id(m)}
  BY <1>0, <1>2, <1>5 DEF Forgets, TypeOK
<1>6. ASSUME m.type = "LOCK"
      PROVE  /\ stage[m.txn] = "asked" /\ stage'[m.txn] = "asked"
             /\ m.key \in Rows(m.txn) /\ Id(m) = <<"LOCK", m.key, Master[m.key]>>
  <2>1. Id(m) \in pend[m.txn] /\ Id(m) = <<"LOCK", m.key, Master[m.key]>>
        /\ m.key \in Rows(m.txn)
    BY <1>1, <1>6 DEF MessageOK, Id
  <2>2. stage[m.txn] = StageOf["LOCK"]
    BY <1>0, <1>2, <2>1 DEF WaitsOK
  <2>3. StageOf["LOCK"] = "asked"
    BY DEF StageOf
  <2>4. stage[m.txn] = "asked"
    BY <2>2, <2>3
  <2> QED
    BY <1>1, <2>1, <2>4
<1>7. CASE TakesLock(m, answers)
  <2>1. /\ m.type = "LOCK" /\ Forgets(m) /\ failed' = failed
        /\ held'[m.txn] = held[m.txn] \cup {m.key}
        /\ \A u \in Txns : u # m.txn => held'[u] = held[u]
    BY <1>0, <1>2, <1>7 DEF TakesLock, TypeOK
  <2>2. HeldOf(m.txn)
    BY <1>0, <1>2
  <2>3. HeldOf(m.txn)'
    BY <1>1, <1>2, <1>5, <1>6, <2>1, <2>2 DEF HeldOf
  <2> QED
    BY <1>4, <2>1, <2>3
<1>8. CASE MissesLock(m, answers)
  <2>1. /\ m.type = "LOCK" /\ Forgets(m) /\ held' = held
        /\ failed'[m.txn] = TRUE
        /\ \A u \in Txns : u # m.txn => failed'[u] = failed[u]
    BY <1>0, <1>2, <1>8 DEF MissesLock, TypeOK
  <2>2. HeldOf(m.txn)
    BY <1>0, <1>2
  <2>3. HeldOf(m.txn)'
    BY <1>1, <1>2, <1>5, <1>6, <2>1, <2>2 DEF HeldOf
  <2> QED
    BY <1>4, <2>1, <2>3
<1>9. CASE Counts(m, answers)
  <2>1. /\ m.type \in {"WRITE", "REPLICATION", "RELEASE"} /\ Forgets(m)
        /\ held' = held /\ failed' = failed
    BY <1>9 DEF Counts
  <2>2. HeldOf(m.txn)
    BY <1>0, <1>2
  <2>3. \A k : Id(m) # <<"LOCK", k, Master[k]>>
    BY <2>1 DEF Id
  <2>4. HeldOf(m.txn)'
    BY <1>1, <1>2, <1>5, <2>1, <2>2, <2>3 DEF HeldOf, IsLocal
  <2> QED
    BY <1>4, <2>1, <2>4
<1>10. \/ pend' = pend /\ failed' = failed /\ held' = held
       \/ TakesLock(m, answers) \/ MissesLock(m, answers) \/ Counts(m, answers)
  BY DEF Handles, Quiet, GrantsLock, RefusesLock, AbortsLock,
         WritesRow, Replicates, ReleasesLock
<1> QED
  BY <1>3, <1>7, <1>8, <1>9, <1>10

\* A release in flight stays ahead of the next request for the lock.
LEMMA HandlerAborts ==
  ASSUME Discipline, NEW c \in Channels, NEW m \in Message, NEW answers,
         Handles(c, m, answers)
  PROVE  AbortsFirst'
<1>0. TypeOK /\ MessagesOK /\ NoDuplicates /\ AbortsFirst
  BY DEF Discipline
<1>1. /\ Handled(c, m, answers) /\ MessageOK(c, m) /\ stage' = stage
      /\ held' = held \/ TakesLock(m, answers)
  BY <1>0, HandlesFrame
<1>2. Taken(c, answers) /\ 1 \in 1..Len(chan[c]) /\ m = chan[c][1] /\ m.txn \in Txns
  BY <1>1 DEF Handled, Message
<1> SUFFICES ASSUME NEW d \in Channels, NEW i \in 1..Len(chan'[d]), chan'[d][i].type = "ABORT"
             PROVE  AbortAt(d, i)'
  BY AbortsByPlace
<1>3. PICK n : n = chan'[d][i]
  OBVIOUS
<1>4. \A a \in answers : a.type # "ABORT"
  <2>1. \A a \in answers : a.answer /\ MessageOK(Back(c), a)'
    BY <1>1 DEF Handles, Handled
  <2> QED
    BY <2>1 DEF MessageOK
<1>5. PICK o : o = i + Off(c, d) /\ o \in 1..Len(chan[d]) /\ chan[d][o] = n
  BY <1>2, <1>3, <1>4 DEF Taken
<1>6. /\ n.key \notin held[n.txn]
      /\ stage[n.txn] \in {"waiting", "locking", "asked", "rolled_back"}
      /\ stage[n.txn] = "asked" => \E j \in 1..Len(chan[d]) :
           /\ j > o /\ ~chan[d][j].answer
           /\ chan[d][j].txn = n.txn /\ Id(chan[d][j]) = <<"LOCK", n.key, n.to>>
  BY <1>0, <1>3, <1>5, SMTT(30) DEF AbortsFirst
<1>7. n.type = "ABORT" /\ n.txn \in Txns /\ MessageOK(d, n)
  BY <1>0, <1>3, <1>5, PositionTypes DEF MessagesOK
<1>8. i \in Nat \ {0} /\ Off(c, d) \in {0, 1} /\ (d = c => Off(c, d) = 1)
      /\ Len(chan[d]) \in Nat /\ Len(chan'[d]) \in Nat
  <2>1. chan[d] \in Seq(Message) /\ chan'[d] \in Seq(Message)
    BY <1>0, <1>2 DEF TypeOK, Taken
  <2> QED
    BY <2>1 DEF Off
<1>9. ASSUME stage[n.txn] = "asked"
      PROVE  \E j \in 1..Len(chan'[d]) :
               /\ j > i /\ ~chan'[d][j].answer
               /\ chan'[d][j].txn = n.txn /\ Id(chan'[d][j]) = <<"LOCK", n.key, n.to>>
  <2>1. PICK j \in 1..Len(chan[d]) :
          /\ j > o /\ ~chan[d][j].answer
          /\ chan[d][j].txn = n.txn /\ Id(chan[d][j]) = <<"LOCK", n.key, n.to>>
    BY <1>6, <1>9
  <2>2. ~(d = c /\ j = 1) /\ j - Off(c, d) > i
    BY <1>5, <1>8, <2>1
  <2>3. j - Off(c, d) \in 1..Len(chan'[d]) /\ chan'[d][j - Off(c, d)] = chan[d][j]
    BY <1>2, <2>2 DEF Taken
  <2> QED
    BY <2>1, <2>2, <2>3
<1>10. n.key \notin held'[n.txn]
  <2>1. CASE held' = held
    BY <1>6, <2>1
  <2>2. CASE TakesLock(m, answers)
    <3>1. /\ m.type = "LOCK" /\ m.answer
          /\ \A u \in Txns : held'[u] = IF u = m.txn THEN held[u] \cup {m.key} ELSE held[u]
      BY <1>0, <1>2, <2>2 DEF TakesLock, TypeOK
    <3> SUFFICES ASSUME n.txn = m.txn, n.key = m.key PROVE FALSE
      BY <1>6, <1>7, <3>1
    <3>2. stage[n.txn] = "asked"
      <4>1. Id(m) \in pend[m.txn] /\ Id(m)[1] = "LOCK"
        BY <1>1, <3>1 DEF MessageOK, Id
      <4>2. stage[m.txn] = StageOf["LOCK"]
        BY <1>2, <4>1 DEF Discipline, WaitsOK
      <4>3. StageOf["LOCK"] = "asked"
        BY DEF StageOf
      <4> QED
        BY <4>2, <4>3
    <3>3. PICK j \in 1..Len(chan[d]) :
            /\ j > o /\ ~chan[d][j].answer
            /\ chan[d][j].txn = n.txn /\ Id(chan[d][j]) = <<"LOCK", n.key, n.to>>
      BY <1>6, <3>2
    <3>4. Id(m) = <<"LOCK", n.key, n.to>>
      BY <1>1, <1>7, <3>1 DEF MessageOK, Id
    <3>5. d = c /\ j = 1
      <4>1. PICK x : x = 1 /\ x \in 1..Len(chan[c]) /\ m = chan[c][x]
        BY <1>2
      <4>2. chan[d][j].txn = chan[c][x].txn /\ Id(chan[d][j]) = Id(chan[c][x])
        BY <3>3, <3>4, <4>1
      <4>3. d = c /\ j = x
        BY <1>0, <3>3, <4>1, <4>2 DEF NoDuplicates
      <4> QED
        BY <4>1, <4>3
    <3> QED
      BY <1>2, <3>1, <3>3, <3>5
  <2> QED
    BY <1>1, <2>1, <2>2
<1>11. stage'[n.txn] = stage[n.txn]
  BY <1>1
<1>12. stage'[n.txn] = "asked" => \E j \in 1..Len(chan'[d]) :
               /\ j > i /\ ~chan'[d][j].answer
               /\ chan'[d][j].txn = n.txn /\ Id(chan'[d][j]) = <<"LOCK", n.key, n.to>>
  BY <1>9, <1>11
<1> QED
  BY <1>3, <1>6, <1>10, <1>11, <1>12, Zenon DEF AbortAt

\* The discipline, step by step.
LEMMA DisciplineStep ==
  ASSUME Discipline, LocksInv, Next
  PROVE  Discipline'
<1>1. ASSUME NEW t \in Txns, Work(t) PROVE Discipline'
  BY <1>1, WorkTypes, WorkMessages, WorkWaits, WorkHeld, WorkAborts DEF Discipline
<1>2. ASSUME NEW c \in Channels, Process(c) PROVE Discipline'
  <2>1. PICK m \in Message : \E answers : Handles(c, m, answers)
    BY <1>2, ProcessHandles DEF Discipline
  <2>2. PICK answers : Handles(c, m, answers)
    BY <2>1
  <2> QED
    BY <2>2, HandlerTypes, HandlerMessages, HandlerWaits, HandlerHeld, HandlerAborts
       DEF Discipline
<1> QED
  BY <1>1, <1>2 DEF Next

-----------------------------------------------------------------------------
(* The words of the rows count their holders.                              *)

Lockers(k)  == {t \in Txns : Holds(t, k)}
Sharers(k)  == {t \in Lockers(k) : k \in Reads(t)}
Updaters(k) == {t \in Lockers(k) : k \in Writes(t)}

Counted(k) ==
  /\ IsFiniteSet(Lockers(k))
  /\ MasterRow(k).readers = Cardinality(Sharers(k))
  /\ MasterRow(k).locked <=> Updaters(k) # {}
  /\ Updaters(k) # {} => Sharers(k) = {} /\ Cardinality(Updaters(k)) = 1

\* RowLocked, by the sets of holders.
LEMMA RowCounted ==
  ASSUME NEW k
  PROVE  (RowLocked(k) <=> Counted(k)) /\ (RowLocked(k)' <=> Counted(k)')
<1>1. RowLocked(k) <=> Counted(k)
  BY DEF RowLocked, Counted, Lockers, Sharers, Updaters, MasterRow
<1>2. RowLocked(k)' <=> Counted(k)'
  BY DEF RowLocked, Counted, Lockers, Sharers, Updaters, MasterRow
<1> QED
  BY <1>1, <1>2

\* A row that nobody locks or unlocks.
LEMMA RowKept ==
  ASSUME prog' = prog, NEW k \in Keys, RowLocked(k),
         MasterRow(k)'.locked = MasterRow(k).locked,
         MasterRow(k)'.readers = MasterRow(k).readers,
         \A u \in Txns : Holds(u, k)' <=> Holds(u, k)
  PROVE  RowLocked(k)'
<1>1. Lockers(k)' = Lockers(k)
  BY DEF Lockers
<1>2. Sharers(k)' = Sharers(k) /\ Updaters(k)' = Updaters(k)
  BY <1>1, ProgramsFixed DEF Sharers, Updaters
<1> QED
  BY <1>1, <1>2, RowCounted DEF Counted

\* A row that t locks.
LEMMA RowTaken ==
  ASSUME TypeOK, prog' = prog, NEW k \in Keys, RowLocked(k), MasterRow(k) \in RowType,
         NEW t \in Txns, k \in Rows(t), ~Holds(t, k),
         \A u \in Txns : Holds(u, k)' <=> Holds(u, k) \/ u = t,
         Grants(MasterRow(k), k \in Writes(t)),
         MasterRow(k)' = Locked(MasterRow(k), k \in Writes(t))
  PROVE  RowLocked(k)'
<1> DEFINE L == Lockers(k)
           S == Sharers(k)
           U == Updaters(k)
           r == MasterRow(k)
<1>1. Counted(k)
  BY RowCounted
<1>2. /\ IsFiniteSet(L) /\ r.readers = Cardinality(S)
      /\ r.locked <=> U # {}
      /\ U # {} => S = {} /\ Cardinality(U) = 1
      /\ r.locked \in BOOLEAN /\ r.readers \in 0..ReadLockMax
  BY <1>1 DEF Counted, RowType
<1>3. S \subseteq L /\ U \subseteq L /\ t \notin L
  BY DEF Lockers, Sharers, Updaters
<1>4. Lockers(k)' = L \cup {t}
  BY DEF Lockers
<1>5. IsFiniteSet(Lockers(k)') /\ IsFiniteSet(S) /\ IsFiniteSet(U)
  BY <1>2, <1>3, <1>4, FS_AddElement, FS_Subset
<1>6. (k \in Reads(t) <=> k \notin Writes(t)) /\ Reads(t)' = Reads(t) /\ Writes(t)' = Writes(t)
  BY AccessFacts, ProgramsFixed
<1>7. /\ \A u : u \in Sharers(k)' <=> u \in Lockers(k)' /\ k \in Reads(u)
      /\ \A u : u \in Updaters(k)' <=> u \in Lockers(k)' /\ k \in Writes(u)
  BY ProgramsFixed DEF Sharers, Updaters
<1>8. /\ \A u : u \in S <=> u \in L /\ k \in Reads(u)
      /\ \A u : u \in U <=> u \in L /\ k \in Writes(u)
  BY DEF Sharers, Updaters
<1> HIDE DEF L, S, U, r
<1>9. CASE k \in Writes(t)
  <2>1. Sharers(k)' = S /\ Updaters(k)' = U \cup {t}
    BY <1>4, <1>6, <1>7, <1>8, <1>9
  <2>2. IsFree(r) /\ MasterRow(k)' = [r EXCEPT !.locked = TRUE]
    BY <1>9 DEF Grants, Locked, r
  <2>3. U = {} /\ S = {}
    <3>1. ~r.locked /\ r.readers = 0
      BY <2>2 DEF IsFree
    <3>2. Cardinality(S) = 0
      BY <1>2, <3>1
    <3> QED
      BY <1>2, <1>5, <3>1, <3>2, FS_EmptySet
  <2>4. Cardinality(Updaters(k)') = 1 /\ Updaters(k)' # {}
    BY <2>1, <2>3, FS_Singleton
  <2>5. MasterRow(k)'.locked = TRUE /\ MasterRow(k)'.readers = r.readers
    BY <2>2 DEF RowType, r
  <2> QED
    BY <1>2, <1>5, <2>1, <2>3, <2>4, <2>5, RowCounted DEF Counted
<1>10. CASE k \notin Writes(t)
  <2>1. Sharers(k)' = S \cup {t} /\ Updaters(k)' = U
    BY <1>4, <1>6, <1>7, <1>8, <1>10
  <2>2. ~r.locked /\ MasterRow(k)' = [r EXCEPT !.readers = @ + 1]
    BY <1>10 DEF Grants, Locked, r
  <2>3. U = {} /\ t \notin S
    BY <1>2, <1>3, <2>2
  <2>4. Cardinality(S \cup {t}) = Cardinality(S) + 1
    BY <1>5, <2>3, FS_AddElement
  <2>5. MasterRow(k)'.locked = r.locked /\ MasterRow(k)'.readers = r.readers + 1
    BY <2>2 DEF RowType, r
  <2>6. MasterRow(k)'.readers = Cardinality(Sharers(k)')
    BY <1>2, <2>1, <2>4, <2>5
  <2> QED
    BY <1>5, <2>1, <2>2, <2>3, <2>5, <2>6, RowCounted DEF Counted
<1> QED
  BY <1>9, <1>10

\* A row whose lock t gives back.
Unlocks(t, k) ==
  /\ k \in Writes(t) => MasterRow(k)'.locked = FALSE /\ MasterRow(k)'.readers = 0
  /\ k \notin Writes(t) => /\ MasterRow(k)'.locked = MasterRow(k).locked
                           /\ MasterRow(k)'.readers = MasterRow(k).readers - 1

\* A row stays exact when a holder gives its lock back.
LEMMA RowGiven ==
  ASSUME Discipline, LocksInv, prog' = prog, NEW k \in Keys, NEW t \in Txns, Holds(t, k),
         \A u \in Txns : Holds(u, k)' <=> Holds(u, k) /\ u # t,
         Unlocks(t, k)
  PROVE  RowLocked(k)'
<1> DEFINE L == Lockers(k)
           S == Sharers(k)
           U == Updaters(k)
           r == MasterRow(k)
<1>0. TypeOK
  BY DEF Discipline
<1>1. Counted(k)
  BY RowCounted DEF LocksInv
<1>2. /\ IsFiniteSet(L) /\ r.readers = Cardinality(S)
      /\ r.locked <=> U # {}
      /\ U # {} => S = {} /\ Cardinality(U) = 1
  BY <1>1 DEF Counted
<1>3. S \subseteq L /\ U \subseteq L /\ t \in L
  BY DEF Lockers, Sharers, Updaters
<1>4. Lockers(k)' = L \ {t}
  BY DEF Lockers
<1>5. IsFiniteSet(Lockers(k)') /\ IsFiniteSet(S) /\ IsFiniteSet(U)
  BY <1>2, <1>3, <1>4, FS_Subset
<1>6. k \in Reads(t) <=> k \notin Writes(t)
  BY <1>0, AccessFacts, HoldsAccess
<1>7. /\ \A u : u \in Sharers(k)' <=> u \in Lockers(k)' /\ k \in Reads(u)
      /\ \A u : u \in Updaters(k)' <=> u \in Lockers(k)' /\ k \in Writes(u)
  BY ProgramsFixed DEF Sharers, Updaters
<1>8. /\ \A u : u \in S <=> u \in L /\ k \in Reads(u)
      /\ \A u : u \in U <=> u \in L /\ k \in Writes(u)
  BY DEF Sharers, Updaters
<1>9. CASE k \in Writes(t)
  <2>1. \A u \in L : u = t
    BY <1>9, Exclusive DEF Lockers
  <2> HIDE DEF L, S, U, r
  <2>2. Lockers(k)' = {}
    BY <1>4, <2>1
  <2>3. Sharers(k)' = {} /\ Updaters(k)' = {}
    BY <1>7, <2>2
  <2>4. Cardinality(Sharers(k)') = 0
    BY <2>3, FS_EmptySet
  <2>5. MasterRow(k)'.locked = FALSE /\ MasterRow(k)'.readers = 0
    BY <1>9 DEF Unlocks
  <2> QED
    BY <1>5, <2>3, <2>4, <2>5, RowCounted DEF Counted
<1>10. CASE k \notin Writes(t)
  <2> HIDE DEF L, S, U
  <2>1. Sharers(k)' = S \ {t} /\ Updaters(k)' = U /\ t \in S
    BY <1>3, <1>4, <1>6, <1>7, <1>8, <1>10
  <2>2. Cardinality(S \ {t}) = Cardinality(S) - 1
    BY <1>5, <2>1, FS_RemoveElement
  <2>3. /\ MasterRow(k)'.locked = MasterRow(k).locked
        /\ MasterRow(k)'.readers = MasterRow(k).readers - 1
    BY <1>10 DEF Unlocks
  <2>4. U = {}
    BY <1>2, <2>1
  <2>5. MasterRow(k)'.readers = Cardinality(Sharers(k)')
    BY <1>2, <2>1, <2>2, <2>3
  <2> QED
    BY <1>2, <1>5, <2>1, <2>3, <2>4, <2>5, RowCounted DEF Counted
<1> QED
  BY <1>9, <1>10

\* What a step does to the holders: nothing, t takes k, or t gives rows back.
KeepsLocks == \A u \in Txns, j \in Keys : Holds(u, j)' <=> Holds(u, j)

TakesOne(t, k) ==
  /\ ~Holds(t, k)
  /\ \A u \in Txns, j \in Keys : Holds(u, j)' <=> Holds(u, j) \/ (u = t /\ j = k)

GivesBack(t, keys) ==
  /\ \A k \in keys : Holds(t, k)
  /\ \A u \in Txns, j \in Keys : Holds(u, j)' <=> Holds(u, j) /\ ~(u = t /\ j \in keys)

\* Messages that give or return no lock.
LEMMA HoldsByFlights ==
  ASSUME \A u, k : Granted(u, k)' <=> Granted(u, k),
         \A u, k, n : Requested("ABORT", u, k, n)' <=> Requested("ABORT", u, k, n),
         \A u, k, n : Requested("RELEASE", u, k, n)' <=> Requested("RELEASE", u, k, n)
  PROVE  /\ held' = held => KeepsLocks
         /\ \A t, k : ~Holds(t, k) /\
              (\A u \in Txns : held'[u] = IF u = t THEN held[u] \cup {k} ELSE held[u])
              => TakesOne(t, k)
<1>1. held' = held => KeepsLocks
  BY DEF KeepsLocks, Holds
<1>2. ASSUME NEW t, NEW k, ~Holds(t, k),
             \A u \in Txns : held'[u] = IF u = t THEN held[u] \cup {k} ELSE held[u]
      PROVE  TakesOne(t, k)
  <2>1. \A u \in Txns : \A j : j \in held'[u] <=> j \in held[u] \/ (u = t /\ j = k)
    BY <1>2
  <2>2. \A u \in Txns, j \in Keys : Holds(u, j)' <=> Holds(u, j) \/ (u = t /\ j = k)
    BY <2>1 DEF Holds
  <2> QED
    BY <1>2, <2>2 DEF TakesOne
<1> QED
  BY <1>1, <1>2

\* Requests for locks and writes: who holds what is as before.
LEMMA AskingKeeps ==
  ASSUME Discipline, NEW t \in Txns, AskLocks(t) \/ Commit(t)
  PROVE  KeepsLocks
<1>0. TypeOK
  BY DEF Discipline
<1>1. held' = held
  BY DEF AskLocks, Commit
<1>2. ASSUME NEW msgs, Fresh(t, msgs), Extended(msgs),
             \A m \in msgs : m.type \notin {"ABORT", "RELEASE"}
      PROVE  KeepsLocks
  <2>1. /\ \A u, k : Granted(u, k)' <=> Granted(u, k)
        /\ \A type, u, k, n : Requested(type, u, k, n)' <=>
             \/ Requested(type, u, k, n)
             \/ u = t /\ \E m \in msgs : Id(m) = <<type, k, n>>
    BY <1>0, <1>2, SendFlights
  <2>2. \A k, n : ~(\E m \in msgs : Id(m) = <<"ABORT", k, n>>)
    BY <1>2 DEF Id
  <2>3. \A k, n : ~(\E m \in msgs : Id(m) = <<"RELEASE", k, n>>)
    BY <1>2 DEF Id
  <2>4. \A u, k, n : Requested("ABORT", u, k, n)' <=> Requested("ABORT", u, k, n)
    BY <2>1, <2>2
  <2>5. \A u, k, n : Requested("RELEASE", u, k, n)' <=> Requested("RELEASE", u, k, n)
    BY <2>1, <2>3
  <2> QED
    BY <1>1, <2>1, <2>4, <2>5, HoldsByFlights
<1>3. CASE AskLocks(t)
  <2>1. PICK msgs : msgs = ToMaster("LOCK", t, Rows(t), 0)
    OBVIOUS
  <2>2. Fresh(t, msgs) /\ Extended(msgs)
    BY <1>3, <2>1, AskLocksSends
  <2>3. \A m \in msgs : m.type = "LOCK"
    BY <2>1 DEF ToMaster, Request
  <2> QED
    BY <1>2, <2>2, <2>3
<1>4. CASE Commit(t)
  <2>1. PICK msgs : msgs = CommitMessages(t)
    OBVIOUS
  <2>2. /\ Fresh(t, msgs) /\ Extended(msgs)
        /\ \A m \in msgs : m.type \in {"WRITE", "REPLICATION"}
    BY <1>4, <2>1, CommitSends
  <2> QED
    BY <1>2, <2>2
<1> QED
  BY <1>3, <1>4

\* Who has a lock of a row of its own node has it in hand.
LEMMA LocalInHand ==
  ASSUME Discipline, NEW t \in Txns, NEW k, IsLocal(t, k)
  PROVE  Holds(t, k) <=> k \in held[t]
<1>1. ~Granted(t, k)
  BY GrantedFacts
<1>2. ~Requested("ABORT", t, k, Master[k])
  BY AbortRequested DEF Owes
<1>3. ~Requested("RELEASE", t, k, Master[k])
  BY RequestedFacts, ZenonT(30)
<1> QED
  BY <1>1, <1>2, <1>3 DEF Holds

\* Without messages, a transaction can only take the lock of a local row.
LEMMA IdleHolds ==
  ASSUME Discipline, NEW t \in Txns, Idle(t)
  PROVE  \/ row' = row /\ KeepsLocks
         \/ \E k \in Keys : Lock(t, k) /\ TakesRow(t, k) /\ TakesOne(t, k)
<1>0. TypeOK /\ MessagesOK /\ NoDuplicates /\ HeldOf(t)
  BY HeldByTxn DEF Discipline
<1>1. /\ \A type, u, k, n : Requested(type, u, k, n)' <=> Requested(type, u, k, n)
      /\ \A u, k : Granted(u, k)' <=> Granted(u, k)
  BY <1>0, WorkIdles, MessagesKept
<1>2. /\ \A u, k : Granted(u, k)' <=> Granted(u, k)
      /\ \A u, k, n : Requested("ABORT", u, k, n)' <=> Requested("ABORT", u, k, n)
      /\ \A u, k, n : Requested("RELEASE", u, k, n)' <=> Requested("RELEASE", u, k, n)
  BY <1>1
<1>3. held' = held => KeepsLocks
  BY <1>2, HoldsByFlights
<1>4. CASE Rollback(t) \/ Begin(t) \/ Finish(t)
  BY <1>3, <1>4 DEF Rollback, Begin, Finish
<1>5. ASSUME NEW k \in Keys, Lock(t, k)
      PROVE  (row' = row /\ KeepsLocks) \/ (TakesRow(t, k) /\ TakesOne(t, k))
  <2>1. /\ IsLocal(t, k) /\ k \notin tried[t] /\ stage[t] = "locking"
        /\ TakesRow(t, k) \/ MissesRow(t, k)
    BY <1>0, <1>5, LockFacts
  <2>2. k \notin held[t]
    BY <1>0, <2>1 DEF HeldOf
  <2>3. ~Holds(t, k)
    BY <2>1, <2>2, LocalInHand
  <2>4. CASE TakesRow(t, k)
    <3>1. \A u \in Txns : held'[u] = IF u = t THEN held[u] \cup {k} ELSE held[u]
      BY <1>0, <2>4 DEF TakesRow, TypeOK
    <3>2. TakesOne(t, k)
      BY <1>2, <2>3, <3>1, HoldsByFlights
    <3> QED
      BY <2>4, <3>2
  <2>5. CASE MissesRow(t, k)
    BY <1>3, <2>5 DEF MissesRow
  <2> QED
    BY <2>1, <2>4, <2>5
<1> QED
  BY <1>4, <1>5 DEF Idle

\* A transaction that gives its locks back: the local ones are free at once,
\* the others are on their way.
LEMMA ReturningGives ==
  ASSUME Discipline, NEW t \in Txns, Abort(t) \/ Release(t)
  PROVE  GivesBack(t, Local(t, held[t]))
<1>0. TypeOK /\ HeldOf(t) /\ HeldOK
  BY HeldByTxn DEF Discipline
<1>1. \A u \in Txns : held'[u] = IF u = t THEN {} ELSE held[u]
  BY <1>0 DEF Abort, Release, TypeOK
<1>2. held[t] \subseteq Rows(t) /\ held[t] \subseteq Keys
  BY <1>0, AccessFacts DEF HeldOf
<1>3. ASSUME NEW give \in {"ABORT", "RELEASE"}, NEW keep \in {"ABORT", "RELEASE"}, give # keep,
             NEW msgs, Fresh(t, msgs), Extended(msgs),
             MasterRequests(t, give, held[t], IF give = "ABORT" THEN 0 ELSE tid[t], msgs)
      PROVE  GivesBack(t, Local(t, held[t]))
  <2>1. /\ \A u, k : Granted(u, k)' <=> Granted(u, k)
        /\ \A type, u, k, n : Requested(type, u, k, n)' <=>
             \/ Requested(type, u, k, n)
             \/ u = t /\ \E m \in msgs : Id(m) = <<type, k, n>>
    BY <1>0, <1>3, SendFlights
  <2>2. \A x, k, n : (\E m \in msgs : Id(m) = <<x, k, n>>) <=>
          x = give /\ k \in held[t] /\ ~IsLocal(t, k) /\ n = Master[k]
    BY <1>3 DEF MasterRequests
  <2>3. \A u, k, n : Requested(keep, u, k, n)' <=> Requested(keep, u, k, n)
    BY <1>3, <2>1, <2>2
  <2>4. \A u, k : Requested(give, u, k, Master[k])' <=>
          Requested(give, u, k, Master[k]) \/ (u = t /\ k \in held[t] /\ ~IsLocal(t, k))
    BY <2>1, <2>2
  <2>5. /\ \A u, k : Holds(u, k) <=>
             \/ k \in held[u] \/ Granted(u, k)
             \/ Requested(give, u, k, Master[k]) \/ Requested(keep, u, k, Master[k])
        /\ \A u, k : Holds(u, k)' <=>
             \/ k \in held'[u] \/ Granted(u, k)'
             \/ Requested(give, u, k, Master[k])' \/ Requested(keep, u, k, Master[k])'
    <3>1. CASE give = "ABORT"
      <4>1. keep = "RELEASE"
        BY <1>3, <3>1
      <4> QED
        BY <3>1, <4>1 DEF Holds
    <3>2. CASE give = "RELEASE"
      <4>1. keep = "ABORT"
        BY <1>3, <3>2
      <4> QED
        BY <3>2, <4>1 DEF Holds
    <3> QED
      BY <3>1, <3>2
  <2>6. ASSUME NEW u \in Txns, NEW k \in Keys
        PROVE  Holds(u, k)' <=> Holds(u, k) /\ ~(u = t /\ k \in Local(t, held[t]))
    <3>1. CASE u # t
      BY <1>1, <2>1, <2>3, <2>4, <2>5, <3>1
    <3>2. CASE u = t /\ IsLocal(t, k)
      <4>1. Holds(t, k) <=> k \in held[t]
        BY <3>2, LocalInHand
      <4>2. ~Granted(t, k) /\ ~Requested(give, t, k, Master[k]) /\ ~Requested(keep, t, k, Master[k])
        <5>1. ~Granted(t, k)
          BY <3>2, GrantedFacts
        <5>2. ~Requested("ABORT", t, k, Master[k])
          BY <3>2, AbortRequested DEF Owes
        <5>3. ~Requested("RELEASE", t, k, Master[k])
          BY <3>2, RequestedFacts
        <5> QED
          BY <1>3, <5>1, <5>2, <5>3
      <4>3. ~Holds(t, k)'
        BY <1>1, <2>1, <2>3, <2>4, <2>5, <3>2, <4>2
      <4> QED
        BY <3>2, <4>1, <4>3 DEF Local
    <3>3. CASE u = t /\ ~IsLocal(t, k)
      BY <1>1, <2>1, <2>3, <2>4, <2>5, <3>3 DEF Local
    <3> QED
      BY <3>1, <3>2, <3>3
  <2>7. \A k \in Local(t, held[t]) : Holds(t, k)
    BY DEF Holds, Local
  <2> QED
    BY <2>6, <2>7 DEF GivesBack
<1>4. CASE Abort(t)
  <2>1. PICK msgs : msgs = ToMaster("ABORT", t, held[t], 0)
    OBVIOUS
  <2>2. Fresh(t, msgs) /\ Extended(msgs)
    BY <1>4, <2>1, AbortSends
  <2>3. "ABORT" \in Types /\ 0 \in Nat /\ held[t] \in SUBSET Rows(t)
    BY <1>2 DEF Types
  <2>4. MasterRequests(t, "ABORT", held[t], 0, msgs)
    BY <1>0, <2>1, <2>3, ToMasterFacts
  <2> QED
    BY <1>3, <2>2, <2>4
<1>5. CASE Release(t)
  <2>1. PICK msgs : msgs = ToMaster("RELEASE", t, Rows(t), tid[t])
    OBVIOUS
  <2>2. Fresh(t, msgs) /\ Extended(msgs)
    BY <1>5, <2>1, ReleaseSends
  <2>3. "RELEASE" \in Types /\ tid[t] \in Nat /\ Rows(t) \in SUBSET Rows(t)
    BY <1>0 DEF Types, TypeOK
  <2>4. MasterRequests(t, "RELEASE", Rows(t), tid[t], msgs)
    BY <1>0, <2>1, <2>3, ToMasterFacts
  <2>5. held[t] = Rows(t)
    BY <1>0, <1>5 DEF HeldOf, Release
  <2> QED
    BY <1>3, <2>2, <2>4, <2>5
<1> QED
  BY <1>4, <1>5

\* A lock that is asked for is not on its way back: the release of an abort
\* would be at the head.
LEMMA AskedIsFree ==
  ASSUME Discipline, NEW c, NEW m, NEW answers, Handled(c, m, answers), MessageOK(c, m),
         m.type = "LOCK", ~m.answer
  PROVE  ~Holds(m.txn, m.key)
<1>0. TypeOK /\ MessagesOK /\ NoDuplicates /\ AbortsFirst
  BY DEF Discipline
<1> DEFINE t == m.txn
           k == m.key
<1>1. Requested("LOCK", t, k, Master[k]) /\ Id(m) = <<"LOCK", k, Master[k]>>
  <2>1. Requested(m.type, m.txn, m.key, m.to) /\ m.to = Master[m.key]
    BY <1>0, HeadHolds
  <2> QED
    BY <2>1 DEF Id
<1>2. stage[t] = "asked" /\ k \notin held[t] /\ ~Requested("RELEASE", t, k, Master[k])
  BY <1>1, HoldsOnce
<1>3. ~Granted(t, k)
  BY <1>1, GrantedFacts
<1>4. ASSUME Requested("ABORT", t, k, Master[k]) PROVE FALSE
  <2>1. PICK d \in Channels : \E i \in 1..Len(chan[d]) :
          /\ ~chan[d][i].answer /\ chan[d][i].txn = t
          /\ Id(chan[d][i]) = <<"ABORT", k, Master[k]>>
    BY <1>4 DEF Requested
  <2>2. PICK i \in 1..Len(chan[d]) :
          /\ ~chan[d][i].answer /\ chan[d][i].txn = t
          /\ Id(chan[d][i]) = <<"ABORT", k, Master[k]>>
    BY <2>1
  <2>3. PICK n : n = chan[d][i]
    OBVIOUS
  <2>4. n.type = "ABORT" /\ n.key = k /\ n.to = Master[k] /\ n.txn = t
    BY <2>2, <2>3 DEF Id
  <2>5. PICK j \in 1..Len(chan[d]) :
          j > i /\ chan[d][j].txn = n.txn /\ Id(chan[d][j]) = <<"LOCK", n.key, n.to>>
    BY <1>0, <1>2, <2>3, <2>4 DEF AbortsFirst
  <2>6. PICK x : x = 1 /\ x \in 1..Len(chan[c]) /\ m = chan[c][x] /\ c \in Channels
    BY DEF Handled
  <2>7. chan[d][j].txn = chan[c][x].txn /\ Id(chan[d][j]) = Id(chan[c][x])
    BY <1>1, <2>4, <2>5, <2>6
  <2>8. j = x
    BY <1>0, <2>5, <2>6, <2>7 DEF NoDuplicates
  <2> QED
    BY <2>5, <2>6, <2>8
<1> QED
  BY <1>2, <1>3, <1>4 DEF Holds

\* Which lock requests and grants in flight are gone after a handler.
LEMMA HandlerFlights ==
  ASSUME Discipline, NEW c, NEW m \in Message, NEW answers, Handled(c, m, answers)
  PROVE  /\ \A type, u, k, n : Requested(type, u, k, n)' <=>
              /\ Requested(type, u, k, n)
              /\ ~(~m.answer /\ u = m.txn /\ type = m.type /\ k = m.key /\ n = m.to)
         /\ \A u, k : Granted(u, k)' <=>
              \/ Granted(u, k) /\ ~(m.ok /\ u = m.txn /\ k = m.key)
              \/ \E a \in answers : a.ok /\ a.txn = u /\ a.key = k
<1>0. TypeOK /\ MessagesOK /\ NoDuplicates
  BY DEF Discipline
<1>1. \A type, k, n : Id(m) = <<type, k, n>> <=> type = m.type /\ k = m.key /\ n = m.to
  BY DEF Id
<1>2. \A type, u, k, n : Requested(type, u, k, n)' <=>
        /\ Requested(type, u, k, n)
        /\ ~(~m.answer /\ u = m.txn /\ Id(m) = <<type, k, n>>)
  BY <1>0, HandleFlights
<1>3. \A type, u, k, n : Requested(type, u, k, n)' <=>
        /\ Requested(type, u, k, n)
        /\ ~(~m.answer /\ u = m.txn /\ type = m.type /\ k = m.key /\ n = m.to)
  BY <1>1, <1>2
<1>4. \A u, k : Granted(u, k)' <=>
        \/ Granted(u, k) /\ ~(m.ok /\ u = m.txn /\ k = m.key)
        \/ \E a \in answers : a.ok /\ a.txn = u /\ a.key = k
  BY <1>0, HandleFlights
<1> QED
  BY <1>3, <1>4

\* Which handlers hand out a lock, which take one back, and which do neither.
LEMMA HandlerHolds ==
  ASSUME Discipline, NEW c \in Channels, NEW m \in Message, NEW answers,
         Handles(c, m, answers)
  PROVE  /\ GrantsLock(m, answers) => TakesOne(m.txn, m.key)
         /\ AbortsLock(m, answers) \/ ReleasesLock(m, answers) => GivesBack(m.txn, {m.key})
         /\ ~(GrantsLock(m, answers) \/ AbortsLock(m, answers) \/ ReleasesLock(m, answers))
              => KeepsLocks
<1>0. TypeOK /\ HeldOK
  BY DEF Discipline
<1>1. Handled(c, m, answers) /\ MessageOK(c, m) /\ (held' = held \/ TakesLock(m, answers))
  BY <1>0, HandlesFrame
<1>2. /\ m.txn \in Txns /\ m.key \in Keys
      /\ \A a \in answers : a.txn = m.txn /\ a.key = m.key
  <2>1. \A a \in answers : a.txn = m.txn /\ Id(a) = Id(m)
    BY <1>1 DEF Handled
  <2> QED
    BY <2>1, SameId DEF Message
<1>3. PICK t \in Txns, k \in Keys : t = m.txn /\ k = m.key
  BY <1>2
<1>4. /\ \A u, j : Requested("ABORT", u, j, Master[j])' <=>
           /\ Requested("ABORT", u, j, Master[j])
           /\ ~(m.type = "ABORT" /\ ~m.answer /\ u = t /\ j = k)
      /\ \A u, j : Requested("RELEASE", u, j, Master[j])' <=>
           /\ Requested("RELEASE", u, j, Master[j])
           /\ ~(m.type = "RELEASE" /\ ~m.answer /\ u = t /\ j = k)
  <2>1. \A type, u, j, n : Requested(type, u, j, n)' <=>
          /\ Requested(type, u, j, n)
          /\ ~(~m.answer /\ u = t /\ type = m.type /\ j = k /\ n = m.to)
    BY <1>1, <1>3, HandlerFlights
  <2>2. m.type \in {"ABORT", "RELEASE"} => m.to = Master[k]
    BY <1>1, <1>3 DEF MessageOK
  <2> QED
    BY <2>1, <2>2
<1>5. \A u, j : Granted(u, j)' <=>
        \/ Granted(u, j) /\ ~(m.ok /\ u = t /\ j = k)
        \/ u = t /\ j = k /\ \E a \in answers : a.ok
  <2>1. \A u, j : Granted(u, j)' <=>
          \/ Granted(u, j) /\ ~(m.ok /\ u = t /\ j = k)
          \/ \E a \in answers : a.ok /\ a.txn = u /\ a.key = j
    BY <1>1, <1>3, HandlerFlights
  <2> QED
    BY <1>2, <1>3, <2>1
<1>6. m.ok => m.type = "LOCK" /\ m.answer
  BY <1>1 DEF MessageOK
<1>7. ASSUME GrantsLock(m, answers) PROVE TakesOne(t, k)
  <2>1. /\ m.type = "LOCK" /\ ~m.answer /\ held' = held /\ \E a \in answers : a.ok
    BY <1>7 DEF GrantsLock, Quiet
  <2>2. ~Holds(t, k)
    BY <1>1, <1>3, <2>1, AskedIsFree
  <2>3. ~m.ok
    BY <1>6, <2>1
  <2>4. /\ \A u, j : Requested("ABORT", u, j, Master[j])' <=> Requested("ABORT", u, j, Master[j])
        /\ \A u, j : Requested("RELEASE", u, j, Master[j])' <=> Requested("RELEASE", u, j, Master[j])
        /\ \A u, j : Granted(u, j)' <=> Granted(u, j) \/ (u = t /\ j = k)
    BY <1>4, <1>5, <2>1, <2>3
  <2>5. \A u \in Txns, j \in Keys : Holds(u, j)' <=> Holds(u, j) \/ (u = t /\ j = k)
    BY <2>1, <2>4 DEF Holds
  <2> QED
    BY <2>2, <2>5 DEF TakesOne
<1>8. ASSUME AbortsLock(m, answers) \/ ReleasesLock(m, answers)
      PROVE  GivesBack(t, {k})
  <2>1. /\ m.type \in {"ABORT", "RELEASE"} /\ ~m.answer /\ held' = held
        /\ ~(\E a \in answers : a.ok)
    BY <1>8 DEF AbortsLock, ReleasesLock, Quiet
  <2>2. Requested(m.type, t, k, Master[k]) /\ Holds(t, k)
    <3>1. Requested(m.type, m.txn, m.key, m.to) /\ Holds(m.txn, m.key) /\ m.to = Master[m.key]
      BY <1>0, <1>1, <2>1, HeadHolds
    <3> QED
      BY <1>3, <3>1
  <2>3. ~m.ok
    BY <1>6, <2>1
  <2>4. \A u, j : Granted(u, j)' <=> Granted(u, j)
    BY <1>5, <2>1, <2>3
  <2>5. ~Holds(t, k)'
    <3>1. CASE m.type = "ABORT"
      <4>1. Requested("ABORT", t, k, Master[k])
        BY <2>2, <3>1
      <4>2. k \notin held[t]
        BY <4>1, AbortRequested DEF Owes
      <4>3. ~Granted(t, k)
        BY <4>1, GrantedFacts
      <4>4. ~Requested("RELEASE", t, k, Master[k])
        BY <4>1, HoldsOnce
      <4> QED
        BY <1>4, <2>1, <2>4, <3>1, <4>2, <4>3, <4>4 DEF Holds
    <3>2. CASE m.type = "RELEASE"
      <4>1. Requested("RELEASE", t, k, Master[k])
        BY <2>2, <3>2
      <4>2. k \notin held[t] /\ ~Requested("ABORT", t, k, Master[k])
        BY <4>1, HoldsOnce
      <4>3. ~Granted(t, k)
        BY <4>1, GrantedFacts
      <4> QED
        BY <1>4, <2>1, <2>4, <3>2, <4>2, <4>3 DEF Holds
    <3> QED
      BY <2>1, <3>1, <3>2
  <2>6. \A u \in Txns, j \in Keys : ~(u = t /\ j = k) => (Holds(u, j)' <=> Holds(u, j))
    BY <1>4, <2>1, <2>4 DEF Holds
  <2>7. \A u \in Txns, j \in Keys : Holds(u, j)' <=> Holds(u, j) /\ ~(u = t /\ j \in {k})
    BY <2>5, <2>6
  <2> QED
    BY <2>2, <2>7 DEF GivesBack
<1>9. ASSUME ~(GrantsLock(m, answers) \/ AbortsLock(m, answers) \/ ReleasesLock(m, answers))
      PROVE  KeepsLocks
  <2>1. /\ ~(m.type \in {"ABORT", "RELEASE"} /\ ~m.answer)
        /\ ~(\E a \in answers : a.ok)
        /\ m.ok <=> TakesLock(m, answers)
    BY <1>6, <1>9 DEF Handles, RefusesLock, TakesLock, MissesLock, WritesRow, Replicates, Counts
  <2>2. /\ \A u, j : Requested("ABORT", u, j, Master[j])' <=> Requested("ABORT", u, j, Master[j])
        /\ \A u, j : Requested("RELEASE", u, j, Master[j])' <=> Requested("RELEASE", u, j, Master[j])
        /\ \A u, j : Granted(u, j)' <=> Granted(u, j) /\ ~(m.ok /\ u = t /\ j = k)
    BY <1>4, <1>5, <2>1
  <2>3. CASE ~m.ok
    BY <1>1, <2>1, <2>2, <2>3 DEF KeepsLocks, Holds
  <2>4. CASE m.ok
    <3>1. Granted(t, k)
      BY <1>0, <1>1, <1>3, <2>4, HeadHolds
    <3>2. \A u \in Txns : held'[u] = IF u = t THEN held[u] \cup {k} ELSE held[u]
      BY <1>0, <1>3, <2>1, <2>4 DEF TakesLock, TypeOK
    <3>3. \A u \in Txns : \A j : j \in held'[u] <=> j \in held[u] \/ (u = t /\ j = k)
      BY <3>2
    <3> QED
      BY <2>2, <2>4, <3>1, <3>3 DEF KeepsLocks, Holds
  <2> QED
    BY <2>3, <2>4
<1> QED
  BY <1>3, <1>7, <1>8, <1>9

\* The words of the rows, one at a time.
LEMMA LocksByRow ==
  /\ LocksInv <=> /\ \A k \in Keys : RowLocked(k)
                  /\ \A p \in Copies : p[1] # Master[p[2]] => IsFree(row[p])
  /\ LocksInv' <=> /\ \A k \in Keys : RowLocked(k)'
                   /\ \A p \in Copies : p[1] # Master[p[2]] => IsFree(row'[p])
BY DEF LocksInv, IsFree

\* Locks stay exact when neither words nor holders change.
LEMMA LocksKept ==
  ASSUME LocksInv, prog' = prog, KeepsLocks,
         \A p \in Copies : row'[p].locked = row[p].locked /\ row'[p].readers = row[p].readers
  PROVE  LocksInv'
<1>1. ASSUME NEW k \in Keys PROVE RowLocked(k)'
  <2>1. /\ MasterRow(k)'.locked = MasterRow(k).locked
        /\ MasterRow(k)'.readers = MasterRow(k).readers
    BY Topology DEF MasterRow
  <2>2. \A u \in Txns : Holds(u, k)' <=> Holds(u, k)
    BY DEF KeepsLocks
  <2>3. RowLocked(k)
    BY LocksByRow
  <2> QED
    BY <2>1, <2>2, <2>3, RowKept
<1>2. \A p \in Copies : p[1] # Master[p[2]] => IsFree(row'[p])
  BY LocksByRow DEF IsFree
<1> QED
  BY <1>1, <1>2, LocksByRow

\* t takes the lock of a row.
LEMMA LocksTaken ==
  ASSUME Discipline, LocksInv, prog' = prog, NEW t \in Txns, NEW k \in Keys, k \in Rows(t),
         TakesOne(t, k), Grants(MasterRow(k), k \in Writes(t)),
         row' = [row EXCEPT ![<<Master[k], k>>] = Locked(MasterRow(k), k \in Writes(t))]
  PROVE  LocksInv'
<1>0. TypeOK
  BY DEF Discipline
<1>1. MasterRow(k) \in RowType
  BY <1>0, Topology DEF MasterRow, TypeOK, RowType
<1>2. Locked(MasterRow(k), k \in Writes(t)) \in RowType
  <2>1. (k \in Writes(t)) \in BOOLEAN
    OBVIOUS
  <2> QED
    BY <1>1, <2>1, RowTypes
<1>3. PICK r \in RowType : r = Locked(MasterRow(k), k \in Writes(t))
  BY <1>2
<1>4. /\ MasterRow(k)' = r
      /\ \A p \in Copies : p # <<Master[k], k>> => row'[p] = row[p]
      /\ \A j \in Keys : j # k => MasterRow(j)' = MasterRow(j)
  <2>1. row' = [row EXCEPT ![<<Master[k], k>>] = r]
    BY <1>3
  <2> QED
    BY <1>0, <2>1, RowReplaced
<1>5. ASSUME NEW j \in Keys PROVE RowLocked(j)'
  <2>1. RowLocked(j)
    BY LocksByRow
  <2>2. CASE j = k
    <3>1. ~Holds(t, k) /\ \A u \in Txns : Holds(u, k)' <=> Holds(u, k) \/ u = t
      BY DEF TakesOne
    <3>2. RowLocked(k)'
      BY <1>0, <1>1, <1>3, <1>4, <2>1, <2>2, <3>1, RowTaken
    <3> QED
      BY <2>2, <3>2
  <2>3. CASE j # k
    <3>1. \A u \in Txns : Holds(u, j)' <=> Holds(u, j)
      BY <2>3 DEF TakesOne
    <3> QED
      BY <1>4, <2>1, <2>3, <3>1, RowKept
  <2> QED
    BY <2>2, <2>3
<1>6. \A p \in Copies : p[1] # Master[p[2]] => IsFree(row'[p])
  <2> SUFFICES ASSUME NEW p \in Copies, p[1] # Master[p[2]] PROVE IsFree(row'[p])
    OBVIOUS
  <2>1. p # <<Master[k], k>>
    OBVIOUS
  <2> QED
    BY <1>4, <2>1, LocksByRow
<1> QED
  BY <1>5, <1>6, LocksByRow

\* t gives the locks of some rows back.
LEMMA LocksGiven ==
  ASSUME Discipline, LocksInv, prog' = prog, NEW t \in Txns, NEW keys \in SUBSET Keys,
         GivesBack(t, keys), \A k \in keys : Unlocks(t, k),
         \A k \in Keys \ keys : MasterRow(k)' = MasterRow(k),
         \A p \in Copies : p[1] # Master[p[2]] => row'[p] = row[p]
  PROVE  LocksInv'
<1>1. ASSUME NEW k \in Keys PROVE RowLocked(k)'
  <2>1. RowLocked(k)
    BY LocksByRow
  <2>2. CASE k \in keys
    <3>1. Holds(t, k) /\ \A u \in Txns : Holds(u, k)' <=> Holds(u, k) /\ u # t
      BY <2>2 DEF GivesBack
    <3> QED
      BY <2>1, <2>2, <3>1, RowGiven
  <2>3. CASE k \notin keys
    <3>1. \A u \in Txns : Holds(u, k)' <=> Holds(u, k)
      BY <2>3 DEF GivesBack
    <3> QED
      BY <2>1, <2>3, <3>1, RowKept
  <2> QED
    BY <2>2, <2>3
<1>2. \A p \in Copies : p[1] # Master[p[2]] => IsFree(row'[p])
  BY LocksByRow
<1> QED
  BY <1>1, <1>2, LocksByRow

\* What unlocking does to the word of a row that t holds.
LEMMA UnlockWords ==
  ASSUME Discipline, LocksInv, NEW t \in Txns, NEW k \in Keys, Holds(t, k)
  PROVE  /\ MasterRow(k)' = Unlocked(MasterRow(k), k \in Writes(t)) => Unlocks(t, k)
         /\ \A n : k \in Writes(t) /\ MasterRow(k)' = Installed(MasterRow(k), n) => Unlocks(t, k)
<1>1. MasterRow(k) \in RowType
  BY Topology DEF MasterRow, Discipline, TypeOK, RowType
<1>2. k \in Writes(t) => MasterRow(k).readers = 0
  BY Exclusive
<1>3. PICK r \in RowType : r = MasterRow(k)
  BY <1>1
<1>4. /\ Unlocked(r, TRUE).locked = FALSE /\ Unlocked(r, TRUE).readers = r.readers
      /\ Unlocked(r, FALSE).locked = r.locked /\ Unlocked(r, FALSE).readers = r.readers - 1
      /\ \A n : Installed(r, n).locked = FALSE /\ Installed(r, n).readers = 0
  BY DEF RowType, Unlocked, Installed
<1>5. k \in Writes(t) => (k \in Writes(t)) = TRUE
  OBVIOUS
<1>6. k \notin Writes(t) => (k \in Writes(t)) = FALSE
  OBVIOUS
<1>7. MasterRow(k)' = Unlocked(r, k \in Writes(t)) => Unlocks(t, k)
  <2>1. CASE k \in Writes(t)
    <3>1. Unlocked(r, k \in Writes(t)) = Unlocked(r, TRUE)
      BY <1>5, <2>1
    <3> QED
      BY <1>2, <1>3, <1>4, <2>1, <3>1 DEF Unlocks
  <2>2. CASE k \notin Writes(t)
    <3>1. Unlocked(r, k \in Writes(t)) = Unlocked(r, FALSE)
      BY <1>6, <2>2
    <3> QED
      BY <1>3, <1>4, <2>2, <3>1 DEF Unlocks
  <2> QED
    BY <2>1, <2>2
<1>8. \A n : k \in Writes(t) /\ MasterRow(k)' = Installed(r, n) => Unlocks(t, k)
  BY <1>4 DEF Unlocks
<1> QED
  BY <1>3, <1>7, <1>8

\* The steps of a transaction keep the locks exact.
LEMMA WorkLocks ==
  ASSUME Discipline, LocksInv, NEW t \in Txns, Work(t)
  PROVE  LocksInv'
<1>0. TypeOK /\ WaitsOK /\ HeldOf(t)
  BY HeldByTxn DEF Discipline
<1>1. prog' = prog
  BY <1>0, WorkFrame
<1>2. CASE Idle(t)
  <2>1. CASE row' = row /\ KeepsLocks
    BY <1>1, <2>1, LocksKept
  <2>2. ASSUME NEW k \in Keys, Lock(t, k), TakesRow(t, k), TakesOne(t, k) PROVE LocksInv'
    <3>1. k \in Rows(t)
      BY <1>0, <2>2, LockFacts
    <3> QED
      BY <1>1, <2>2, <3>1, LocksTaken DEF TakesRow
  <2> QED
    BY <1>2, <2>1, <2>2, IdleHolds
<1>3. CASE AskLocks(t)
  BY <1>1, <1>3, AskingKeeps, LocksKept DEF AskLocks
<1>4. CASE Commit(t)
  <2>1. KeepsLocks
    BY <1>4, AskingKeeps
  <2>2. row' = WrittenRows(t)
    BY <1>4 DEF Commit
  <2> QED
    BY <1>0, <1>1, <2>1, <2>2, LocksKept, WrittenRowsFacts
<1>5. ASSUME NEW install \in BOOLEAN, NEW number \in Nat, row' = UnlockedRows(t, install, number),
             GivesBack(t, Local(t, held[t]))
      PROVE  LocksInv'
  <2>1. /\ \A p \in Copies : p[1] # Master[p[2]] => row'[p] = row[p]
        /\ \A k \in Keys : ~(k \in held[t] /\ IsLocal(t, k)) => MasterRow(k)' = MasterRow(k)
        /\ \A k \in Keys : k \in held[t] /\ IsLocal(t, k) => MasterRow(k)' =
             IF install /\ k \in Writes(t) THEN Installed(MasterRow(k), number)
                                           ELSE Unlocked(MasterRow(k), k \in Writes(t))
    BY <1>5, UnlockedRowsFacts
  <2>2. PICK keys : keys = Local(t, held[t])
    OBVIOUS
  <2>3. /\ keys \in SUBSET Keys
        /\ \A k : k \in keys <=> k \in held[t] /\ IsLocal(t, k)
    BY <1>0, <2>2, AccessFacts DEF Local, HeldOf
  <2>4. ASSUME NEW k \in keys PROVE Unlocks(t, k)
    <3>1. k \in Keys /\ Holds(t, k)
      BY <2>3 DEF Holds
    <3>2. MasterRow(k)' = IF install /\ k \in Writes(t) THEN Installed(MasterRow(k), number)
                                           ELSE Unlocked(MasterRow(k), k \in Writes(t))
      BY <2>1, <2>3, <3>1
    <3>3. CASE install /\ k \in Writes(t)
      BY <3>1, <3>2, <3>3, UnlockWords
    <3>4. CASE ~(install /\ k \in Writes(t))
      <4>1. MasterRow(k)' = Unlocked(MasterRow(k), k \in Writes(t))
        BY <3>2, <3>4
      <4> QED
        BY <3>1, <4>1, UnlockWords
    <3> QED
      BY <3>3, <3>4
  <2>5. \A k \in Keys \ keys : MasterRow(k)' = MasterRow(k)
    BY <2>1, <2>3
  <2>6. GivesBack(t, keys)
    BY <1>5, <2>2
  <2> QED
    BY <1>1, <2>1, <2>3, <2>4, <2>5, <2>6, LocksGiven
<1>6. CASE Abort(t)
  <2>1. row' = UnlockedRows(t, FALSE, 0) /\ FALSE \in BOOLEAN /\ 0 \in Nat
    BY <1>6 DEF Abort
  <2>2. GivesBack(t, Local(t, held[t]))
    BY <1>6, ReturningGives
  <2> QED
    BY <1>5, <2>1, <2>2
<1>7. CASE Release(t)
  <2>1. row' = UnlockedRows(t, TRUE, tid[t]) /\ TRUE \in BOOLEAN /\ tid[t] \in Nat
    BY <1>0, <1>7 DEF Release, TypeOK
  <2>2. GivesBack(t, Local(t, held[t]))
    BY <1>7, ReturningGives
  <2> QED
    BY <1>5, <2>1, <2>2
<1> QED
  BY <1>2, <1>3, <1>4, <1>6, <1>7, WorkIdles

\* The handlers keep the locks exact.
LEMMA HandlerLocks ==
  ASSUME Discipline, LocksInv, NEW c \in Channels, NEW m \in Message, NEW answers,
         Handles(c, m, answers)
  PROVE  LocksInv'
<1>0. TypeOK
  BY DEF Discipline
<1>1. Handled(c, m, answers) /\ MessageOK(c, m) /\ prog' = prog
  BY <1>0, HandlesFrame
<1>2. PICK t \in Txns, k \in Keys : t = m.txn /\ k = m.key
  BY DEF Message
<1>3. /\ k \in Rows(t) /\ m.write = (k \in Writes(t)) /\ m.write \in BOOLEAN
      /\ MasterRow(k) \in RowType
  BY <1>0, <1>1, <1>2, Topology DEF MessageOK, Message, MasterRow, TypeOK, RowType
<1>4. CASE GrantsLock(m, answers)
  <2>1. TakesOne(t, k)
    BY <1>2, <1>4, HandlerHolds
  <2>2. /\ Grants(MasterRow(k), k \in Writes(t))
        /\ row' = [row EXCEPT ![<<Master[k], k>>] = Locked(MasterRow(k), k \in Writes(t))]
    BY <1>2, <1>3, <1>4 DEF GrantsLock
  <2> QED
    BY <1>1, <1>3, <2>1, <2>2, LocksTaken
\* The one row that a release frees.
<1>5. ASSUME NEW r \in RowType, row' = [row EXCEPT ![<<Master[k], k>>] = r],
             GivesBack(t, {k}), MasterRow(k)' = r => Unlocks(t, k)
      PROVE  LocksInv'
  <2>1. /\ MasterRow(k)' = r
        /\ \A p \in Copies : p # <<Master[k], k>> => row'[p] = row[p]
        /\ \A j \in Keys : j # k => MasterRow(j)' = MasterRow(j)
    BY <1>0, <1>5, RowReplaced
  <2>2. /\ \A j \in {k} : Unlocks(t, j)
        /\ \A j \in Keys \ {k} : MasterRow(j)' = MasterRow(j)
        /\ {k} \in SUBSET Keys
    BY <1>5, <2>1
  <2>3. \A p \in Copies : p[1] # Master[p[2]] => row'[p] = row[p]
    <3> SUFFICES ASSUME NEW p \in Copies, p[1] # Master[p[2]] PROVE row'[p] = row[p]
      OBVIOUS
    <3>1. p # <<Master[k], k>>
      OBVIOUS
    <3> QED
      BY <2>1, <3>1
  <2> QED
    BY <1>1, <1>5, <2>2, <2>3, LocksGiven
<1>6. CASE AbortsLock(m, answers)
  <2>1. GivesBack(t, {k})
    BY <1>2, <1>6, HandlerHolds
  <2>2. Holds(t, k)
    BY <2>1 DEF GivesBack
  <2>3. PICK r \in RowType : r = Unlocked(MasterRow(k), k \in Writes(t))
    BY <2>2, CanUnlock
  <2>4. row' = [row EXCEPT ![<<Master[k], k>>] = r]
    BY <1>2, <1>3, <1>6, <2>3 DEF AbortsLock
  <2>5. MasterRow(k)' = r => Unlocks(t, k)
    BY <2>2, <2>3, UnlockWords
  <2> QED
    BY <1>5, <2>1, <2>4, <2>5
<1>7. CASE ReleasesLock(m, answers)
  <2>1. GivesBack(t, {k})
    BY <1>2, <1>7, HandlerHolds
  <2>2. Holds(t, k)
    BY <2>1 DEF GivesBack
  <2>3. CASE m.write
    <3>1. PICK r \in RowType : r = Installed(MasterRow(k), m.tid)
      BY <1>3, RowTypes DEF Message
    <3>2. row' = [row EXCEPT ![<<Master[k], k>>] = r]
      BY <1>2, <1>7, <2>3, <3>1 DEF ReleasesLock
    <3>3. MasterRow(k)' = r => Unlocks(t, k)
      BY <1>3, <2>2, <2>3, <3>1, UnlockWords
    <3> QED
      BY <1>5, <2>1, <3>2, <3>3
  <2>4. CASE ~m.write
    <3>1. PICK r \in RowType : r = Unlocked(MasterRow(k), k \in Writes(t))
      BY <2>2, CanUnlock
    <3>2. FALSE = (k \in Writes(t))
      BY <1>3, <2>4
    <3>3. row' = [row EXCEPT ![<<Master[k], k>>] = r]
      BY <1>2, <1>7, <2>4, <3>1, <3>2 DEF ReleasesLock
    <3>4. MasterRow(k)' = r => Unlocks(t, k)
      BY <2>2, <3>1, UnlockWords
    <3> QED
      BY <1>5, <2>1, <3>3, <3>4
  <2> QED
    BY <2>3, <2>4
<1>8. CASE ~(GrantsLock(m, answers) \/ AbortsLock(m, answers) \/ ReleasesLock(m, answers))
  <2>1. KeepsLocks
    BY <1>8, HandlerHolds
  <2>2. \A p \in Copies : row'[p].locked = row[p].locked /\ row'[p].readers = row[p].readers
    <3>1. \A p \in Copies : row[p] \in RowType
      BY <1>0 DEF TypeOK, RowType
    <3>2. CASE row' = row
      BY <3>2
    <3>3. ASSUME NEW q \in Copies, NEW r \in RowType, row' = [row EXCEPT ![q] = r],
                 r.locked = row[q].locked, r.readers = row[q].readers
          PROVE  \A p \in Copies : row'[p].locked = row[p].locked /\ row'[p].readers = row[p].readers
      BY <1>0, <3>3 DEF TypeOK
    <3>4. CASE WritesRow(m, answers)
      <4>1. PICK q \in Copies : q = <<Master[k], k>> /\ row[q] = MasterRow(k)
        BY Topology DEF MasterRow
      <4>2. PICK r \in RowType : r = [row[q] EXCEPT !.val = t]
        BY <3>1, RowTypes
      <4>3. row' = [row EXCEPT ![q] = r]
        BY <1>2, <3>4, <4>1, <4>2 DEF WritesRow
      <4>4. r.locked = row[q].locked /\ r.readers = row[q].readers
        BY <3>1, <4>2 DEF RowType
      <4> QED
        BY <3>3, <4>3, <4>4
    <3>5. CASE Replicates(m, answers)
      <4>1. PICK q \in Copies : q = <<m.to, m.key>>
        BY <1>1, <1>2, Topology DEF MessageOK
      <4>2. PICK r \in RowType : r = [row[q] EXCEPT !.val = t, !.tid = m.tid]
        <5>1. m.tid \in Nat
          BY DEF Message
        <5> QED
          BY <3>1, <5>1, RowTypes
      <4>3. row' = [row EXCEPT ![q] = r]
        BY <1>2, <3>5, <4>1, <4>2 DEF Replicates
      <4>4. r.locked = row[q].locked /\ r.readers = row[q].readers
        BY <3>1, <4>2 DEF RowType
      <4> QED
        BY <3>3, <4>3, <4>4
    <3> QED
      BY <1>8, <3>2, <3>4, <3>5 DEF Handles, RefusesLock, TakesLock, MissesLock, Counts
  <2> QED
    BY <1>1, <2>1, <2>2, LocksKept
<1> QED
  BY <1>4, <1>6, <1>7, <1>8

-----------------------------------------------------------------------------
(* The locks are exact, always.                                            *)

LockDiscipline == Discipline /\ LocksInv

\* Nothing is in flight at the start.
LEMMA EmptyChannels ==
  ASSUME Init
  PROVE  /\ \A c \in Channels : 1..Len(chan[c]) = {}
         /\ \A type, t, k, n : ~Requested(type, t, k, n)
         /\ \A t, k : ~Granted(t, k)
<1>1. \A c \in Channels : 1..Len(chan[c]) = {}
  BY DEF Init
<1> QED
  BY <1>1 DEF Requested, Granted

\* The discipline and the counts of locks hold at the start ...
LEMMA LockDisciplineInit == Init => LockDiscipline
<1> SUFFICES ASSUME Init PROVE LockDiscipline
  OBVIOUS
<1>1. TypeOK
  <2>1. FreeWord \in RowType
    BY ReadLockMaxAssumption DEF FreeWord, RowType
  <2>2. row \in [Copies -> RowType]
    BY <2>1 DEF Init
  <2>3. <<>> \in Seq(Message)
    OBVIOUS
  <2>4. chan \in [Channels -> Seq(Message)]
    BY <2>3 DEF Init
  <2>5. /\ prog \in [Txns -> Programs] /\ stage \in [Txns -> Stages]
        /\ tried \in [Txns -> SUBSET Keys] /\ held \in [Txns -> SUBSET Keys]
        /\ failed \in [Txns -> BOOLEAN] /\ seen \in [Txns -> [Keys -> Txns \cup {NoTxn}]]
        /\ seenTid \in [Txns -> [Keys -> Nat]] /\ tid \in [Txns -> Nat]
        /\ maxTid \in [Nodes \X Workers -> Nat]
        /\ pend \in [Txns -> SUBSET (Types \X Keys \X Nodes)]
    BY DEF Init, Stages
  <2> QED
    BY <2>2, <2>4, <2>5 DEF TypeOK, RowType
<1>2. MessagesOK /\ NoDuplicates /\ AbortsFirst
  BY EmptyChannels DEF MessagesOK, NoDuplicates, AbortsFirst
<1>3. WaitsOK
  BY DEF Init, WaitsOK
<1>4. HeldOK
  BY DEF Init, HeldOK
<1>5. \A t \in Txns : \A k : ~Holds(t, k)
  BY EmptyChannels DEF Init, Holds
<1>6. ASSUME NEW p \in Copies PROVE row[p].locked = FALSE /\ row[p].readers = 0
  BY DEF Init, FreeWord
<1>7. ASSUME NEW k \in Keys PROVE RowLocked(k)
  <2>1. MasterRow(k).locked = FALSE /\ MasterRow(k).readers = 0
    BY <1>6, Topology DEF MasterRow
  <2>2. Lockers(k) = {} /\ Sharers(k) = {} /\ Updaters(k) = {}
    BY <1>5 DEF Lockers, Sharers, Updaters
  <2>3. IsFiniteSet(Lockers(k)) /\ Cardinality(Sharers(k)) = 0
    BY <2>2, FS_EmptySet
  <2>4. Counted(k)
    BY <2>1, <2>2, <2>3 DEF Counted
  <2> QED
    BY <2>4, RowCounted
<1>8. LocksInv
  BY <1>6, <1>7, LocksByRow DEF IsFree
<1> QED
  BY <1>1, <1>2, <1>3, <1>4, <1>8 DEF LockDiscipline, Discipline

\* ... and every step keeps them.
LEMMA LockDisciplineStep == LockDiscipline /\ [Next]_vars => LockDiscipline'
<1> SUFFICES ASSUME LockDiscipline, [Next]_vars PROVE LockDiscipline'
  OBVIOUS
<1>0. Discipline /\ LocksInv
  BY DEF LockDiscipline
<1>1. CASE Next
  <2>1. Discipline'
    BY <1>0, <1>1, DisciplineStep
  <2>2. LocksInv'
    <3>1. ASSUME NEW t \in Txns, Work(t) PROVE LocksInv'
      BY <1>0, <3>1, WorkLocks
    <3>2. ASSUME NEW c \in Channels, Process(c) PROVE LocksInv'
      <4>1. PICK m \in Message : \E answers : Handles(c, m, answers)
        BY <1>0, <3>2, ProcessHandles DEF Discipline
      <4>2. PICK answers : Handles(c, m, answers)
        BY <4>1
      <4> QED
        BY <1>0, <4>2, HandlerLocks
    <3> QED
      BY <1>1, <3>1, <3>2 DEF Next
  <2> QED
    BY <2>1, <2>2 DEF LockDiscipline
<1>2. CASE UNCHANGED vars
  <2>1. UNCHANGED <<prog, stage, tried, held, failed, seen, seenTid, tid, maxTid, pend, row, chan>>
    BY <1>2 DEF vars
  <2>2. TypeOK /\ MessagesOK /\ NoDuplicates /\ WaitsOK /\ HeldOK /\ AbortsFirst
    BY <1>0 DEF Discipline
  <2>3. TypeOK'
    BY <2>1, <2>2 DEF TypeOK
  <2>4. /\ MessagesOK' /\ NoDuplicates'
        /\ \A type, u, k, n : Requested(type, u, k, n)' <=> Requested(type, u, k, n)
        /\ \A u, k : Granted(u, k)' <=> Granted(u, k)
    BY <2>1, <2>2, MessagesKept
  <2>5. WaitsOK'
    BY <2>1, <2>2 DEF WaitsOK
  <2>6. HeldOK'
    <3>1. \A t : Rows(t)' = Rows(t)
      BY <2>1, ProgramsFixed
    <3> QED
      BY <2>1, <2>2, <3>1 DEF HeldOK, IsLocal
  <2>7. AbortsFirst'
    BY <2>1, <2>2 DEF AbortsFirst
  <2>8. KeepsLocks
    BY <2>1, <2>4 DEF KeepsLocks, Holds
  <2>9. LocksInv'
    BY <1>0, <2>1, <2>8, LocksKept
  <2> QED
    BY <2>3, <2>4, <2>5, <2>6, <2>7, <2>9 DEF LockDiscipline, Discipline
<1> QED
  BY <1>1, <1>2

\* The messages in flight, by type.
Flies(m) == \E c \in Channels : \E i \in 1..Len(chan[c]) : chan[c][i] = m

\* InFlight, by what flies.
LEMMA InFlightFacts ==
  ASSUME TypeOK, NEW type, NEW answer, NEW m
  PROVE  m \in InFlight(type, answer) <=> m.type = type /\ m.answer = answer /\ Flies(m)
<1>1. \A c \in Channels : DOMAIN chan[c] = 1..Len(chan[c])
  BY DEF TypeOK
<1>2. \A c \in Channels : m \in Range(chan[c]) <=> \E i \in 1..Len(chan[c]) : chan[c][i] = m
  BY <1>1 DEF Range
<1>3. m \in UNION {Range(chan[c]) : c \in Channels} <=> Flies(m)
  BY <1>2 DEF Flies
<1> QED
  BY <1>3 DEF InFlight

\* Holders is who holds a lock, as the invariant counts them.
LEMMA HoldersFacts ==
  ASSUME Discipline, NEW k \in Keys
  PROVE  Holders(k) = Lockers(k)
<1>0. TypeOK /\ MessagesOK
  BY DEF Discipline
<1>1. ASSUME NEW t
      PROVE  (\E m \in InFlight("LOCK", TRUE) : m.ok /\ m.key = k /\ m.txn = t) <=> Granted(t, k)
  <2>1. ASSUME NEW m \in InFlight("LOCK", TRUE), m.ok, m.key = k, m.txn = t
        PROVE  Granted(t, k)
    <3>1. Flies(m)
      BY <1>0, InFlightFacts
    <3> QED
      BY <2>1, <3>1 DEF Flies, Granted
  <2>2. ASSUME Granted(t, k)
        PROVE  \E m \in InFlight("LOCK", TRUE) : m.ok /\ m.key = k /\ m.txn = t
    <3>1. PICK c \in Channels : \E i \in 1..Len(chan[c]) :
            chan[c][i].ok /\ chan[c][i].txn = t /\ chan[c][i].key = k
      BY <2>2 DEF Granted
    <3>2. PICK i \in 1..Len(chan[c]) :
            chan[c][i].ok /\ chan[c][i].txn = t /\ chan[c][i].key = k
      BY <3>1
    <3>3. PICK m : m = chan[c][i]
      OBVIOUS
    <3>4. m.type = "LOCK" /\ m.answer /\ m.answer \in BOOLEAN
      BY <1>0, <3>2, <3>3, PositionTypes DEF MessagesOK, MessageOK
    <3>5. m.answer = TRUE
      BY <3>4
    <3>6. m \in InFlight("LOCK", TRUE)
      <4>1. Flies(m)
        BY <3>3 DEF Flies
      <4> QED
        BY <1>0, <3>4, <3>5, <4>1, InFlightFacts
    <3> QED
      BY <3>2, <3>3, <3>6
  <2> QED
    BY <2>1, <2>2
<1>2. ASSUME NEW type \in {"ABORT", "RELEASE"}, NEW t
      PROVE  (\E m \in InFlight(type, FALSE) : m.key = k /\ m.txn = t)
               <=> Requested(type, t, k, Master[k])
  <2>1. ASSUME NEW m \in InFlight(type, FALSE), m.key = k, m.txn = t
        PROVE  Requested(type, t, k, Master[k])
    <3>1. PICK c \in Channels : \E i \in 1..Len(chan[c]) : chan[c][i] = m
      <4>1. Flies(m)
        BY <1>0, InFlightFacts
      <4> QED
        BY <4>1 DEF Flies
    <3>2. PICK i \in 1..Len(chan[c]) : chan[c][i] = m
      BY <3>1
    <3>3. m.type = type /\ ~m.answer /\ MessageOK(c, m)
      <4>1. m.type = type /\ m.answer = FALSE
        BY <1>0, InFlightFacts
      <4> QED
        BY <1>0, <3>2, <4>1 DEF MessagesOK
    <3>4. m.to = Master[k]
      BY <2>1, <3>3 DEF MessageOK
    <3> QED
      BY <2>1, <3>2, <3>3, <3>4 DEF Requested, Id
  <2>2. ASSUME Requested(type, t, k, Master[k])
        PROVE  \E m \in InFlight(type, FALSE) : m.key = k /\ m.txn = t
    <3>1. PICK c \in Channels : \E i \in 1..Len(chan[c]) :
            ~chan[c][i].answer /\ chan[c][i].txn = t /\ Id(chan[c][i]) = <<type, k, Master[k]>>
      BY <2>2 DEF Requested
    <3>2. PICK i \in 1..Len(chan[c]) :
            ~chan[c][i].answer /\ chan[c][i].txn = t /\ Id(chan[c][i]) = <<type, k, Master[k]>>
      BY <3>1
    <3>3. PICK m : m = chan[c][i]
      OBVIOUS
    <3>4. m.type = type /\ m.key = k /\ m.answer \in BOOLEAN
      BY <1>0, <3>2, <3>3, PositionTypes DEF Id
    <3>5. m.answer = FALSE
      BY <3>2, <3>3, <3>4
    <3>6. m \in InFlight(type, FALSE)
      <4>1. Flies(m)
        BY <3>3 DEF Flies
      <4> QED
        BY <1>0, <3>4, <3>5, <4>1, InFlightFacts
    <3> QED
      BY <3>2, <3>3, <3>4, <3>6
  <2> QED
    BY <2>1, <2>2
<1>3. ASSUME NEW t
      PROVE  t \in Holders(k) <=>
               \/ t \in Txns /\ k \in held[t]
               \/ \E m \in InFlight("LOCK", TRUE) : m.ok /\ m.key = k /\ m.txn = t
               \/ \E m \in InFlight("ABORT", FALSE) : m.key = k /\ m.txn = t
               \/ \E m \in InFlight("RELEASE", FALSE) : m.key = k /\ m.txn = t
  BY DEF Holders
<1>4. \A t : Granted(t, k) => t \in Txns
  BY GrantedFacts
<1>5. \A t : Requested("ABORT", t, k, Master[k]) => t \in Txns
  BY RequestedPlace
<1>6. \A t : Requested("RELEASE", t, k, Master[k]) => t \in Txns
  BY RequestedPlace
<1>7. \A t : t \in Holders(k) <=> t \in Txns /\ Holds(t, k)
  BY <1>1, <1>2, <1>3, <1>4, <1>5, <1>6 DEF Holds
<1> QED
  BY <1>7 DEF Lockers

\* Two-phase locking counts its locks exactly: no lock is lost when a
\* transaction aborts or commits and none is given back twice, whatever
\* requests and answers are in flight; so a writer is alone, and the
\* assertions of read_lock_release and write_lock_release hold.
THEOREM LocksAccountedHolds == Spec => []LocksAccounted
<1>1. LockDiscipline => LocksAccounted
  <2> SUFFICES ASSUME LockDiscipline PROVE LocksAccounted
    OBVIOUS
  <2>0. Discipline /\ LocksInv /\ TypeOK
    BY DEF LockDiscipline, Discipline
  <2>1. ASSUME NEW k \in Keys
        PROVE  /\ MasterRow(k).readers = Cardinality({t \in Holders(k) : k \in Reads(t)})
               /\ MasterRow(k).locked <=> {t \in Holders(k) : k \in Writes(t)} # {}
               /\ {t \in Holders(k) : k \in Writes(t)} # {} =>
                    /\ {t \in Holders(k) : k \in Reads(t)} = {}
                    /\ Cardinality({t \in Holders(k) : k \in Writes(t)}) = 1
    <3>1. Counted(k)
      BY <2>0, LocksByRow, RowCounted
    <3>2. /\ {t \in Holders(k) : k \in Reads(t)} = Sharers(k)
          /\ {t \in Holders(k) : k \in Writes(t)} = Updaters(k)
      BY <2>0, HoldersFacts DEF Sharers, Updaters
    <3> QED
      BY <3>1, <3>2 DEF Counted
  <2>2. \A p \in Copies : p[1] # Master[p[2]] => IsFree(row[p])
    BY <2>0, LocksByRow
  <2> QED
    BY <2>0, <2>1, <2>2 DEF LocksAccounted, MasterRow
<1> QED
  BY <1>1, LockDisciplineInit, LockDisciplineStep, PTL DEF Spec

-----------------------------------------------------------------------------
(* Values and tids: who may change those of a row.                         *)

\* Locking leaves the value and the tid alone, installing sets the tid.
LEMMA WordFacts ==
  ASSUME NEW r \in RowType
  PROVE  /\ \A w \in BOOLEAN : /\ Locked(r, w).val = r.val /\ Locked(r, w).tid = r.tid
                               /\ Unlocked(r, w).val = r.val /\ Unlocked(r, w).tid = r.tid
         /\ \A n : Installed(r, n).val = r.val /\ Installed(r, n).tid = n
         /\ \A t : [r EXCEPT !.val = t].val = t /\ [r EXCEPT !.val = t].tid = r.tid
         /\ \A t, n : /\ [r EXCEPT !.val = t, !.tid = n].val = t
                      /\ [r EXCEPT !.val = t, !.tid = n].tid = n
BY DEF RowType, Locked, Unlocked, Installed

\* t writes the row, which it has locked.
WrittenBy(t, k) ==
  /\ k \in Writes(t) /\ Holds(t, k) /\ ~Granted(t, k)
  /\ stage[t] \in {"asked", "writing"} /\ stage'[t] = "writing"

\* t gives back the lock of a row that it has written.
ReleasedBy(t, k) ==
  /\ k \in Writes(t) /\ Holds(t, k) /\ ~Granted(t, k) /\ ~Holds(t, k)'
  /\ stage[t] \in {"writing", "releasing"} /\ stage'[t] = "releasing"

\* t has replicated a row.
Replicated(t, k, n) ==
  Requested("REPLICATION", t, k, n) /\ ~Requested("REPLICATION", t, k, n)'

ValsStep ==
  \A p \in Copies :
    row'[p].val = row[p].val \/ \E t \in Txns : row'[p].val = t /\ WrittenBy(t, p[2])

TidsStep ==
  \A k \in Keys :
    \/ MasterRow(k)'.tid = MasterRow(k).tid
    \/ \E t \in Txns : MasterRow(k)'.tid = tid[t] /\ ReleasedBy(t, k)

CopiesStep ==
  \A k \in Keys : \A n \in Replicas[k] :
    \/ row'[<<n, k>>].tid = row[<<n, k>>].tid
    \/ \E t \in Txns : row'[<<n, k>>].tid = tid[t] /\ Replicated(t, k, n)

DataStep == ValsStep /\ TidsStep /\ CopiesStep

\* A step that writes no row.
DataKept == \A p \in Copies : row'[p].val = row[p].val /\ row'[p].tid = row[p].tid

\* A step that changes no value and no tid is a step of the data.
LEMMA KeptData ==
  ASSUME DataKept
  PROVE  DataStep
BY Topology DEF DataKept, DataStep, ValsStep, TidsStep, CopiesStep, MasterRow

\* One row of a master changes.
LEMMA OneRow ==
  ASSUME TypeOK, NEW k \in Keys, NEW r \in RowType,
         row' = [row EXCEPT ![<<Master[k], k>>] = r]
  PROVE  /\ MasterRow(k).val = r.val /\ MasterRow(k).tid = r.tid => DataKept
         /\ \A t \in Txns : MasterRow(k).tid = r.tid /\ r.val = t /\ WrittenBy(t, k) => DataStep
         /\ \A t \in Txns : MasterRow(k).val = r.val /\ r.tid = tid[t] /\ ReleasedBy(t, k) => DataStep
<1>1. PICK q \in Copies : q = <<Master[k], k>> /\ q[2] = k /\ row[q] = MasterRow(k)
  BY Topology DEF MasterRow
<1>2. /\ row'[q] = r /\ \A p \in Copies : p # q => row'[p] = row[p]
      /\ MasterRow(k)' = r /\ \A j \in Keys : j # k => MasterRow(j)' = MasterRow(j)
  <2>1. /\ MasterRow(k)' = r
        /\ \A p \in Copies : p # <<Master[k], k>> => row'[p] = row[p]
        /\ \A j \in Keys : j # k => MasterRow(j)' = MasterRow(j)
    BY RowReplaced
  <2>2. row'[q] = r
    BY <1>1, <2>1 DEF MasterRow
  <2> QED
    BY <1>1, <2>1, <2>2
<1>3. \A j \in Keys : \A n \in Replicas[j] : <<n, j>> \in Copies /\ <<n, j>> # q
  <2> SUFFICES ASSUME NEW j \in Keys, NEW n \in Replicas[j]
               PROVE  <<n, j>> \in Copies /\ <<n, j>> # q
    OBVIOUS
  <2>1. n # Master[j] /\ <<n, j>> \in Copies
    BY Topology
  <2> QED
    BY <1>1, <2>1
<1>4. CopiesStep
  BY <1>2, <1>3 DEF CopiesStep
<1>5. MasterRow(k).val = r.val /\ MasterRow(k).tid = r.tid => DataKept
  BY <1>1, <1>2 DEF DataKept
<1>6. ASSUME NEW t \in Txns, MasterRow(k).tid = r.tid, r.val = t, WrittenBy(t, k)
      PROVE  DataStep
  <2>1. ValsStep
    BY <1>1, <1>2, <1>6 DEF ValsStep
  <2>2. TidsStep
    BY <1>2, <1>6 DEF TidsStep
  <2> QED
    BY <1>4, <2>1, <2>2 DEF DataStep
<1>7. ASSUME NEW t \in Txns, MasterRow(k).val = r.val, r.tid = tid[t], ReleasedBy(t, k)
      PROVE  DataStep
  <2>1. ValsStep
    BY <1>1, <1>2, <1>7 DEF ValsStep
  <2>2. TidsStep
    BY <1>2, <1>7 DEF TidsStep
  <2> QED
    BY <1>4, <2>1, <2>2 DEF DataStep
<1> QED
  BY <1>5, <1>6, <1>7

\* A transaction that waits for nothing at its commit has all its locks.
LEMMA AllHeld ==
  ASSUME Discipline, NEW t \in Txns,
         (stage[t] = "asked" /\ pend[t] = {} /\ ~failed[t]) \/ stage[t] = "writing"
  PROVE  held[t] = Rows(t) /\ \A k \in Rows(t) : Holds(t, k) /\ ~Granted(t, k)
<1>1. HeldOf(t)
  BY HeldByTxn DEF Discipline
<1>2. held[t] = Rows(t)
  BY <1>1 DEF HeldOf
<1>3. \A k \in Rows(t) : Holds(t, k)
  BY <1>2 DEF Holds
<1>4. \A k : Granted(t, k) => k \notin held[t]
  BY GrantedFacts
<1> QED
  BY <1>2, <1>3, <1>4

\* A commit writes rows it has locked, a release sets their tids, and the other
\* steps of a transaction write nothing.
LEMMA WorkData ==
  ASSUME Discipline, LocksInv, NEW t \in Txns, Work(t)
  PROVE  DataStep /\ (~Commit(t) /\ ~Release(t) => DataKept)
<1>0. TypeOK
  BY DEF Discipline
<1>1. \A p \in Copies : row[p] \in RowType
  BY <1>0 DEF TypeOK, RowType
<1>2. \A k \in Keys : MasterRow(k) \in RowType
  BY <1>1, Topology DEF MasterRow
<1>3. CASE Idle(t)
  <2>1. CASE row' = row
    <3>1. DataKept
      BY <2>1 DEF DataKept
    <3> QED
      BY <3>1, KeptData
  <2>2. ASSUME NEW k \in Keys, TakesRow(t, k) PROVE DataKept
    <3>1. (k \in Writes(t)) \in BOOLEAN
      OBVIOUS
    <3>2. PICK r \in RowType : r = Locked(MasterRow(k), k \in Writes(t))
      BY <1>2, <2>2, <3>1, RowTypes DEF TakesRow
    <3>3. r.val = MasterRow(k).val /\ r.tid = MasterRow(k).tid
      BY <1>2, <3>1, <3>2, WordFacts
    <3>4. row' = [row EXCEPT ![<<Master[k], k>>] = r]
      BY <2>2, <3>2 DEF TakesRow
    <3> QED
      BY <1>0, <3>3, <3>4, OneRow
  <2>3. row' = row \/ \E k \in Keys : TakesRow(t, k)
    BY <1>3, IdleHolds
  <2> QED
    BY <2>1, <2>2, <2>3, KeptData DEF DataKept
<1>4. CASE AskLocks(t)
  <2>1. DataKept
    BY <1>4 DEF AskLocks, DataKept
  <2> QED
    BY <2>1, KeptData
<1>5. ASSUME NEW install \in BOOLEAN, NEW number \in Nat,
             row' = UnlockedRows(t, install, number)
      PROVE  /\ \A p \in Copies : row'[p].val = row[p].val
             /\ \A p \in Copies : p[1] # Master[p[2]] => row'[p].tid = row[p].tid
             /\ \A k \in Keys : MasterRow(k)'.tid =
                  IF install /\ k \in Writes(t) /\ k \in held[t] /\ IsLocal(t, k)
                    THEN number ELSE MasterRow(k).tid
  <2>1. /\ \A p \in Copies : p[1] # Master[p[2]] => row'[p] = row[p]
        /\ \A k \in Keys : ~(k \in held[t] /\ IsLocal(t, k)) => MasterRow(k)' = MasterRow(k)
        /\ \A k \in Keys : k \in held[t] /\ IsLocal(t, k) => MasterRow(k)' =
             IF install /\ k \in Writes(t) THEN Installed(MasterRow(k), number)
                                           ELSE Unlocked(MasterRow(k), k \in Writes(t))
    BY <1>5, UnlockedRowsFacts
  <2>2. ASSUME NEW k \in Keys
        PROVE  /\ MasterRow(k)'.val = MasterRow(k).val
               /\ MasterRow(k)'.tid =
                    IF install /\ k \in Writes(t) /\ k \in held[t] /\ IsLocal(t, k)
                      THEN number ELSE MasterRow(k).tid
    <3>1. CASE ~(k \in held[t] /\ IsLocal(t, k))
      BY <2>1, <3>1
    <3>2. CASE k \in held[t] /\ IsLocal(t, k) /\ install /\ k \in Writes(t)
      <4>1. MasterRow(k)' = Installed(MasterRow(k), number)
        BY <2>1, <3>2
      <4>2. MasterRow(k)'.val = MasterRow(k).val /\ MasterRow(k)'.tid = number
        BY <1>2, <4>1, WordFacts
      <4> QED
        BY <3>2, <4>2
    <3>3. CASE k \in held[t] /\ IsLocal(t, k) /\ ~(install /\ k \in Writes(t))
      <4>1. MasterRow(k)' = Unlocked(MasterRow(k), k \in Writes(t))
        BY <2>1, <3>3
      <4>2. PICK r \in RowType : r = MasterRow(k)
        BY <1>2
      <4>3. MasterRow(k)'.val = r.val /\ MasterRow(k)'.tid = r.tid
        BY <4>1, <4>2 DEF Unlocked, RowType
      <4> QED
        BY <3>3, <4>2, <4>3
    <3> QED
      BY <3>1, <3>2, <3>3
  <2>3. \A p \in Copies : row'[p].val = row[p].val
    <3> SUFFICES ASSUME NEW p \in Copies, p[1] = Master[p[2]] PROVE row'[p].val = row[p].val
      BY <2>1
    <3>1. PICK k \in Keys : p = <<Master[k], k>>
      BY Topology
    <3> QED
      BY <2>2, <3>1 DEF MasterRow
  <2> QED
    BY <2>1, <2>2, <2>3
<1>6. CASE Abort(t)
  <2>1. row' = UnlockedRows(t, FALSE, 0) /\ FALSE \in BOOLEAN /\ 0 \in Nat
    BY <1>6 DEF Abort
  <2>2. /\ \A p \in Copies : row'[p].val = row[p].val
        /\ \A p \in Copies : p[1] # Master[p[2]] => row'[p].tid = row[p].tid
        /\ \A k \in Keys : MasterRow(k)'.tid = MasterRow(k).tid
    BY <1>5, <2>1
  <2>3. \A p \in Copies : p[1] = Master[p[2]] => row'[p].tid = row[p].tid
    <3> SUFFICES ASSUME NEW p \in Copies, p[1] = Master[p[2]] PROVE row'[p].tid = row[p].tid
      OBVIOUS
    <3>1. PICK k \in Keys : p = <<Master[k], k>>
      BY Topology
    <3> QED
      BY <2>2, <3>1 DEF MasterRow
  <2>4. DataKept
    BY <2>2, <2>3 DEF DataKept
  <2> QED
    BY <2>4, KeptData
<1>7. CASE Commit(t)
  <2>1. row' = WrittenRows(t) /\ stage[t] = "asked" /\ stage'[t] = "writing"
    BY <1>0, <1>7 DEF Commit, Goto, TypeOK
  <2>2. \A p \in Copies :
          /\ row'[p].tid = row[p].tid
          /\ row'[p].val = IF p[1] = Home[t] /\ p[2] \in Writes(t) THEN t ELSE row[p].val
    BY <1>0, <2>1, WrittenRowsFacts
  <2>3. \A k \in Writes(t) : WrittenBy(t, k)
    <3>1. stage[t] = "asked" /\ pend[t] = {} /\ ~failed[t]
      BY <1>7 DEF Commit
    <3>2. \A k \in Rows(t) : Holds(t, k) /\ ~Granted(t, k)
      BY <3>1, AllHeld
    <3> QED
      BY <1>0, <2>1, <3>2, AccessFacts DEF WrittenBy
  <2>4. ValsStep
    BY <2>2, <2>3 DEF ValsStep
  <2>5. TidsStep /\ CopiesStep
    BY <2>2, Topology DEF TidsStep, CopiesStep, MasterRow
  <2> QED
    BY <1>7, <2>4, <2>5 DEF DataStep
<1>8. CASE Release(t)
  <2>1. row' = UnlockedRows(t, TRUE, tid[t]) /\ TRUE \in BOOLEAN /\ tid[t] \in Nat
        /\ stage[t] = "writing" /\ stage'[t] = "releasing"
    BY <1>0, <1>8 DEF Release, Goto, TypeOK
  <2>2. /\ \A p \in Copies : row'[p].val = row[p].val
        /\ \A p \in Copies : p[1] # Master[p[2]] => row'[p].tid = row[p].tid
        /\ \A k \in Keys : MasterRow(k)'.tid =
             IF k \in Writes(t) /\ k \in held[t] /\ IsLocal(t, k) THEN tid[t] ELSE MasterRow(k).tid
    BY <1>5, <2>1
  <2>3. ASSUME NEW k \in Keys, k \in Writes(t), k \in held[t], IsLocal(t, k)
        PROVE  ReleasedBy(t, k)
    <3>1. Holds(t, k) /\ ~Granted(t, k)
      BY <1>0, <2>1, <2>3, AllHeld, AccessFacts
    <3>2. k \in Local(t, held[t])
      BY <2>3 DEF Local
    <3>3. ~Holds(t, k)'
      BY <1>8, <3>2, ReturningGives DEF GivesBack
    <3> QED
      BY <2>1, <2>3, <3>1, <3>3 DEF ReleasedBy
  <2>4. TidsStep
    BY <2>2, <2>3 DEF TidsStep
  <2>5. ValsStep
    BY <2>2 DEF ValsStep
  <2>6. CopiesStep
    <3>1. \A k \in Keys : \A n \in Replicas[k] : row'[<<n, k>>].tid = row[<<n, k>>].tid
      BY <2>2, Topology
    <3> QED
      BY <3>1 DEF CopiesStep
  <2> QED
    BY <1>8, <2>4, <2>5, <2>6 DEF DataStep
<1> QED
  BY <1>3, <1>4, <1>6, <1>7, <1>8, WorkIdles

\* A handler writes a row on behalf of a transaction that has locked it, and
\* sets a tid when that transaction gives the lock back, or has replicated.
LEMMA HandlerData ==
  ASSUME Discipline, LocksInv, NEW c \in Channels, NEW m \in Message, NEW answers,
         Handles(c, m, answers)
  PROVE  DataStep
<1>0. TypeOK /\ MessagesOK
  BY DEF Discipline
<1>1. Handled(c, m, answers) /\ MessageOK(c, m) /\ prog' = prog /\ tid' = tid /\ stage' = stage
  BY <1>0, HandlesFrame
<1>2. PICK t \in Txns, k \in Keys : t = m.txn /\ k = m.key
  BY DEF Message
<1>3. /\ k \in Rows(t) /\ m.write = (k \in Writes(t)) /\ m.write \in BOOLEAN
      /\ MasterRow(k) \in RowType /\ m.tid \in Nat
  BY <1>0, <1>1, <1>2, Topology DEF MessageOK, Message, MasterRow, TypeOK, RowType
<1>4. ASSUME NEW r \in RowType, row' = [row EXCEPT ![<<Master[k], k>>] = r],
             r.val = MasterRow(k).val, r.tid = MasterRow(k).tid
      PROVE  DataStep
  <2>1. DataKept
    BY <1>0, <1>4, OneRow
  <2> QED
    BY <2>1, KeptData
<1>5. CASE GrantsLock(m, answers)
  <2>1. PICK r \in RowType : r = Locked(MasterRow(k), m.write)
    BY <1>2, <1>3, <1>5, RowTypes DEF GrantsLock
  <2>2. r.val = MasterRow(k).val /\ r.tid = MasterRow(k).tid
    BY <1>3, <2>1, WordFacts, ZenonT(30)
  <2>3. row' = [row EXCEPT ![<<Master[k], k>>] = r]
    BY <1>2, <1>5, <2>1 DEF GrantsLock
  <2> QED
    BY <1>4, <2>2, <2>3
<1>6. CASE AbortsLock(m, answers)
  <2>1. Holds(t, k)
    BY <1>0, <1>1, <1>2, <1>6, HeadHolds DEF AbortsLock
  <2>2. PICK r \in RowType : r = Unlocked(MasterRow(k), m.write)
    BY <1>3, <2>1, CanUnlock
  <2>3. r.val = MasterRow(k).val /\ r.tid = MasterRow(k).tid
    BY <1>3, <2>2, WordFacts, ZenonT(30)
  <2>4. row' = [row EXCEPT ![<<Master[k], k>>] = r]
    BY <1>2, <1>6, <2>2 DEF AbortsLock
  <2> QED
    BY <1>4, <2>3, <2>4
<1>7. CASE WritesRow(m, answers)
  <2>1. Requested("WRITE", t, k, m.to)
    BY <1>0, <1>1, <1>2, <1>7, HeadHolds DEF WritesRow
  <2>2. stage[t] = "writing" /\ k \in Writes(t) /\ k \in held[t]
    BY <2>1, HoldsOnce
  <2>3. WrittenBy(t, k)
    <3>1. Holds(t, k)
      BY <2>2 DEF Holds
    <3>2. ~Granted(t, k)
      BY <2>2, GrantedFacts
    <3> QED
      BY <1>1, <2>2, <3>1, <3>2 DEF WrittenBy
  <2>4. PICK r \in RowType : r = [MasterRow(k) EXCEPT !.val = t]
    BY <1>3, RowTypes
  <2>5. r.val = t /\ r.tid = MasterRow(k).tid
    BY <1>3, <2>4, WordFacts
  <2>6. row' = [row EXCEPT ![<<Master[k], k>>] = r]
    BY <1>2, <1>7, <2>4 DEF WritesRow
  <2> QED
    BY <1>0, <2>3, <2>5, <2>6, OneRow
<1>8. CASE ReleasesLock(m, answers)
  <2>1. GivesBack(t, {k}) /\ Holds(t, k)
    <3>1. GivesBack(t, {k})
      BY <1>2, <1>8, HandlerHolds
    <3> QED
      BY <3>1 DEF GivesBack
  <2>2. CASE ~m.write
    <3>1. PICK r \in RowType : r = Unlocked(MasterRow(k), m.write)
      BY <1>3, <2>1, CanUnlock
    <3>2. r.val = MasterRow(k).val /\ r.tid = MasterRow(k).tid
      BY <1>3, <3>1, WordFacts, ZenonT(30)
    <3>3. FALSE = m.write
      BY <1>3, <2>2
    <3>4. row' = [row EXCEPT ![<<Master[k], k>>] = r]
      BY <1>2, <1>8, <2>2, <3>1, <3>3 DEF ReleasesLock
    <3> QED
      BY <1>4, <3>2, <3>4
  <2>3. CASE m.write
    <3>1. ReleasedBy(t, k)
      <4>1. Requested("RELEASE", t, k, Master[k])
        BY <1>0, <1>1, <1>2, <1>8, HeadHolds DEF ReleasesLock
      <4>2. stage[t] = "releasing"
        BY <4>1, HoldsOnce
      <4>3. ~Granted(t, k)
        BY <4>2, GrantedFacts
      <4>4. ~Holds(t, k)'
        BY <2>1 DEF GivesBack
      <4> QED
        BY <1>1, <1>3, <2>1, <2>3, <4>2, <4>3, <4>4 DEF ReleasedBy
    <3>2. PICK r \in RowType : r = Installed(MasterRow(k), m.tid)
      BY <1>3, RowTypes
    <3>3. r.val = MasterRow(k).val /\ r.tid = m.tid
      BY <1>3, <3>2, WordFacts
    <3>4. row' = [row EXCEPT ![<<Master[k], k>>] = r]
      BY <1>2, <1>8, <2>3, <3>2 DEF ReleasesLock
    <3>5. m.tid = tid[t]
      BY <1>1, <1>2, <1>8 DEF MessageOK, ReleasesLock
    <3> QED
      BY <1>0, <3>1, <3>3, <3>4, <3>5, OneRow
  <2> QED
    BY <2>2, <2>3
<1>9. CASE Replicates(m, answers)
  <2>1. Requested("REPLICATION", t, k, m.to)
    BY <1>0, <1>1, <1>2, <1>9, HeadHolds DEF Replicates
  <2>2. stage[t] = "writing" /\ k \in Writes(t) /\ k \in held[t]
    BY <2>1, HoldsOnce
  <2>3. WrittenBy(t, k)
    <3>1. Holds(t, k)
      BY <2>2 DEF Holds
    <3>2. ~Granted(t, k)
      BY <2>2, GrantedFacts
    <3> QED
      BY <1>1, <2>2, <3>1, <3>2 DEF WrittenBy
  <2>4. Replicated(t, k, m.to)
    <3>1. ~Requested("REPLICATION", t, k, m.to)'
      BY <1>1, <1>2, <1>9, HandlerFlights, SMTT(30) DEF Replicates
    <3> QED
      BY <2>1, <3>1 DEF Replicated
  <2>5. m.to \in Replicas[k] /\ m.tid = tid[t]
    BY <1>1, <1>2, <1>9 DEF MessageOK, Replicates
  <2>6. PICK q \in Copies : q = <<m.to, k>> /\ q[1] = m.to /\ q[2] = k
    BY <2>5, Topology, ZenonT(30)
  <2>7. row[q] \in RowType
    BY <1>0 DEF TypeOK, RowType
  <2>8. PICK r \in RowType : r = [row[q] EXCEPT !.val = t, !.tid = m.tid]
    BY <1>3, <2>7, RowTypes
  <2>9. r.val = t /\ r.tid = tid[t]
    BY <2>5, <2>7, <2>8, WordFacts
  <2>10. row'[q] = r /\ \A p \in Copies : p # q => row'[p] = row[p]
    <3>1. row' = [row EXCEPT ![q] = r]
      BY <1>2, <1>9, <2>6, <2>8 DEF Replicates
    <3> QED
      BY <1>0, <3>1 DEF TypeOK
  <2>11. ValsStep
    BY <2>3, <2>6, <2>9, <2>10 DEF ValsStep
  <2>12. TidsStep
    <3>1. \A j \in Keys : <<Master[j], j>> \in Copies /\ <<Master[j], j>> # q
      BY <2>5, <2>6, Topology
    <3>2. \A j \in Keys : MasterRow(j)' = MasterRow(j)
      BY <2>10, <3>1 DEF MasterRow
    <3> QED
      BY <3>2 DEF TidsStep
  <2>13. CopiesStep
    <3> SUFFICES ASSUME NEW j \in Keys, NEW n \in Replicas[j]
                 PROVE  \/ row'[<<n, j>>].tid = row[<<n, j>>].tid
                        \/ \E u \in Txns : row'[<<n, j>>].tid = tid[u] /\ Replicated(u, j, n)
      BY DEF CopiesStep
    <3>1. <<n, j>> \in Copies
      BY Topology
    <3>2. CASE <<n, j>> = q
      <4>1. n = m.to /\ j = k
        BY <2>6, <3>2
      <4> QED
        BY <2>4, <2>9, <2>10, <3>2, <4>1
    <3> QED
      BY <2>10, <3>1, <3>2
  <2> QED
    BY <2>11, <2>12, <2>13 DEF DataStep
<1>10. CASE row' = row
  <2>1. DataKept
    BY <1>10 DEF DataKept
  <2> QED
    BY <2>1, KeptData
<1> QED
  BY <1>5, <1>6, <1>7, <1>8, <1>9, <1>10
  DEF Handles, RefusesLock, TakesLock, MissesLock, Counts

\* Every step writes rows on behalf of who has locked them.
LEMMA DataNext ==
  ASSUME LockDiscipline, Next
  PROVE  DataStep
<1>0. Discipline /\ LocksInv /\ TypeOK /\ MessagesOK /\ WaitsOK
  BY DEF LockDiscipline, Discipline
<1>1. ASSUME NEW t \in Txns, Work(t) PROVE DataStep
  BY <1>0, <1>1, WorkData
<1>2. ASSUME NEW c \in Channels, Process(c) PROVE DataStep
  <2>1. PICK m \in Message : \E answers : Handles(c, m, answers)
    BY <1>0, <1>2, ProcessHandles
  <2>2. PICK answers : Handles(c, m, answers)
    BY <2>1
  <2> QED
    BY <1>0, <2>2, HandlerData
<1> QED
  BY <1>1, <1>2 DEF Next

-----------------------------------------------------------------------------
(* What a step may do to a transaction once it has committed.              *)

\* It commits once, then releases, then finishes; its tid and what it has
\* read are what they were when it committed.
LifeStep(u) ==
  /\ Rows(u)' = Rows(u) /\ Reads(u)' = Reads(u) /\ Writes(u)' = Writes(u)
  /\ stage'[u] = "writing" => stage[u] = "writing" \/ Commit(u)
  /\ stage'[u] = "releasing" => stage[u] = "releasing" \/ Release(u)
  /\ stage[u] = "writing" => stage'[u] = "writing" \/ Release(u)
  /\ HasCommitted(u)' <=> HasCommitted(u) \/ Commit(u)
  /\ HasCommitted(u) => ~Commit(u) /\ seen'[u] = seen[u]
  /\ ~Commit(u) => tid'[u] = tid[u]

\* The steps of transactions, seen from each transaction.
LEMMA WorkLife ==
  ASSUME Discipline, NEW t \in Txns, Work(t), NEW u \in Txns
  PROVE  LifeStep(u)
<1>0. TypeOK /\ WaitsOK
  BY DEF Discipline
<1>1. prog' = prog /\ Others(t)
  BY <1>0, WorkFrame
<1>2. /\ Rows(u)' = Rows(u) /\ Reads(u)' = Reads(u) /\ Writes(u)' = Writes(u)
      /\ HasCommitted(u)' <=> stage'[u] \in {"writing", "releasing", "committed"}
  BY <1>1, ProgramsFixed
<1>3. CASE u # t
  <2>1. stage'[u] = stage[u] /\ seen'[u] = seen[u] /\ tid'[u] = tid[u]
    BY <1>1, <1>3 DEF Others
  <2>2. ~(stage[u] = "asked" /\ stage'[u] = "writing")
    BY <2>1
  <2>3. ~Commit(u)
    BY <1>0, <2>2 DEF Commit, Goto, TypeOK
  <2> QED
    BY <1>2, <2>1, <2>3 DEF LifeStep, HasCommitted
<1>4. CASE u = t
  <2>1. CASE Commit(t)
    <3>1. stage[t] = "asked" /\ stage'[t] = "writing"
      BY <1>0, <2>1 DEF Commit, Goto, TypeOK
    <3> QED
      BY <1>2, <1>4, <2>1, <3>1 DEF LifeStep, HasCommitted
  <2>2. CASE Release(t)
    <3>1. stage[t] = "writing" /\ stage'[t] = "releasing" /\ seen' = seen /\ tid' = tid
      BY <1>0, <2>2 DEF Release, Goto, TypeOK
    <3>2. ~Commit(t)
      BY <3>1 DEF Commit
    <3> QED
      BY <1>2, <1>4, <2>2, <3>1, <3>2 DEF LifeStep, HasCommitted
  <2>3. CASE Finish(t)
    <3>1. stage[t] = "releasing" /\ stage'[t] = "committed" /\ seen' = seen /\ tid' = tid
      BY <1>0, <2>3 DEF Finish, Goto, TypeOK
    <3>2. ~Commit(t)
      BY <3>1 DEF Commit
    <3> QED
      BY <1>2, <1>4, <3>1, <3>2 DEF LifeStep, HasCommitted
  <2>4. CASE Rollback(t) \/ Begin(t) \/ (\E k \in Keys : Lock(t, k)) \/ AskLocks(t) \/ Abort(t)
    <3>1. /\ stage[t] \in {"waiting", "locking", "asked"}
          /\ stage'[t] \in {"waiting", "locking", "asked", "rolled_back"}
          /\ tid' = tid
      BY <1>0, <2>4 DEF Rollback, Begin, Lock, AskLocks, Abort, Goto, TypeOK
    <3>2. ~Commit(t)
      BY <1>0, <3>1 DEF Commit, Goto, TypeOK
    <3> QED
      BY <1>2, <1>4, <3>1, <3>2 DEF LifeStep, HasCommitted
  <2> QED
    BY <2>1, <2>2, <2>3, <2>4 DEF Work
<1> QED
  BY <1>3, <1>4

\* The handlers, seen from each transaction.
LEMMA HandlerLife ==
  ASSUME Discipline, NEW c \in Channels, NEW m \in Message, NEW answers,
         Handles(c, m, answers), NEW u \in Txns
  PROVE  LifeStep(u)
<1>0. TypeOK /\ MessagesOK
  BY DEF Discipline
<1>1. /\ Handled(c, m, answers) /\ MessageOK(c, m)
      /\ prog' = prog /\ tid' = tid /\ stage' = stage
  BY <1>0, HandlesFrame
<1>2. /\ Rows(u)' = Rows(u) /\ Reads(u)' = Reads(u) /\ Writes(u)' = Writes(u)
      /\ HasCommitted(u)' <=> stage'[u] \in {"writing", "releasing", "committed"}
  BY <1>1, ProgramsFixed
<1>3. ~Commit(u)
  <2>1. ~(stage[u] = "asked" /\ stage'[u] = "writing")
    BY <1>1
  <2> QED
    BY <1>0, <2>1 DEF Commit, Goto, TypeOK
<1>4. HasCommitted(u) => seen'[u] = seen[u]
  <2>1. CASE TakesLock(m, answers)
    <3>1. stage[m.txn] = "asked"
      <4>1. Granted(m.txn, m.key)
        BY <1>0, <1>1, <2>1, HeadHolds DEF TakesLock
      <4> QED
        BY <4>1, GrantedFacts
    <3>2. u # m.txn => seen'[u] = seen[u]
      BY <1>0, <2>1 DEF TakesLock, TypeOK
    <3> QED
      BY <3>1, <3>2 DEF HasCommitted
  <2>2. CASE seen' = seen
    BY <2>2
  <2> QED
    BY <2>1, <2>2 DEF Handles, GrantsLock, RefusesLock, MissesLock, AbortsLock, WritesRow,
                      Replicates, ReleasesLock, Counts, Quiet
<1> QED
  BY <1>1, <1>2, <1>3, <1>4 DEF LifeStep, HasCommitted

\* Every step, seen from each transaction.
LEMMA LifeNext ==
  ASSUME LockDiscipline, Next
  PROVE  prog' = prog /\ \A u \in Txns : LifeStep(u)
<1>0. Discipline /\ TypeOK /\ MessagesOK /\ WaitsOK
  BY DEF LockDiscipline, Discipline
<1>1. ASSUME NEW t \in Txns, Work(t)
      PROVE  prog' = prog /\ \A u \in Txns : LifeStep(u)
  BY <1>0, <1>1, WorkLife, WorkFrame
<1>2. ASSUME NEW c \in Channels, Process(c)
      PROVE  prog' = prog /\ \A u \in Txns : LifeStep(u)
  <2>1. PICK m \in Message : \E answers : Handles(c, m, answers)
    BY <1>0, <1>2, ProcessHandles
  <2>2. PICK answers : Handles(c, m, answers)
    BY <2>1
  <2> QED
    BY <1>0, <2>2, HandlerLife, HandlesFrame
<1> QED
  BY <1>1, <1>2 DEF Next

-----------------------------------------------------------------------------
(* What becomes of requests, answers and locks.                            *)

\* No step of a transaction takes a message out, and none grants a lock.
LEMMA WorkFlights ==
  ASSUME Discipline, NEW t \in Txns, Work(t)
  PROVE  /\ \A type, u, k, n : Requested(type, u, k, n) => Requested(type, u, k, n)'
         /\ \A type, u, k, n : Requested(type, u, k, n)' => Requested(type, u, k, n) \/ u = t
         /\ \A m : Flies(m)' /\ m.ok => Flies(m)
<1>0. TypeOK /\ MessagesOK /\ NoDuplicates /\ WaitsOK
  BY DEF Discipline
<1>1. CASE Idle(t)
  <2>1. UNCHANGED <<prog, tid, maxTid, pend, chan>>
    BY <1>1, WorkIdles
  <2>2. \A type, u, k, n : Requested(type, u, k, n)' <=> Requested(type, u, k, n)
    BY <1>0, <2>1, MessagesKept
  <2>3. \A m : Flies(m)' => Flies(m)
    BY <2>1 DEF Flies
  <2> QED
    BY <2>2, <2>3
<1>2. ASSUME NEW msgs, Fresh(t, msgs), Extended(msgs)
      PROVE  /\ \A type, u, k, n : Requested(type, u, k, n) => Requested(type, u, k, n)'
             /\ \A type, u, k, n : Requested(type, u, k, n)' => Requested(type, u, k, n) \/ u = t
             /\ \A m : Flies(m)' /\ m.ok => Flies(m)
  <2>1. \A type, u, k, n : Requested(type, u, k, n)' <=>
              \/ Requested(type, u, k, n)
              \/ u = t /\ \E m \in msgs : Id(m) = <<type, k, n>>
    BY <1>0, <1>2, SendFlights
  <2>2. ASSUME NEW m, Flies(m)', m.ok PROVE Flies(m)
    <3>1. PICK c \in Channels : \E i \in 1..Len(chan'[c]) : chan'[c][i] = m
      BY <2>2 DEF Flies
    <3>2. PICK i \in 1..Len(chan'[c]) : chan'[c][i] = m
      BY <3>1
    <3>3. m \notin msgs
      BY <1>2, <2>2 DEF Fresh
    <3>4. i \in 1..Len(chan[c]) /\ chan[c][i] = m
      BY <1>2, <3>2, <3>3 DEF Extended
    <3> QED
      BY <3>4 DEF Flies
  <2> QED
    BY <2>1, <2>2
<1>3. CASE AskLocks(t)
  BY <1>2, <1>3, AskLocksSends
<1>4. CASE Abort(t)
  BY <1>2, <1>4, AbortSends
<1>5. CASE Commit(t)
  BY <1>2, <1>5, CommitSends
<1>6. CASE Release(t)
  BY <1>2, <1>6, ReleaseSends
<1> QED
  BY <1>1, <1>3, <1>4, <1>5, <1>6, WorkIdles

\* A handler puts nothing on its way but its answer.
LEMMA HandlerFlies ==
  ASSUME NEW c, NEW m, NEW answers, Handled(c, m, answers), NEW x, Flies(x)'
  PROVE  Flies(x) \/ x \in answers
<1>1. PICK d \in Channels : \E i \in 1..Len(chan'[d]) : chan'[d][i] = x
  BY DEF Flies
<1>2. PICK i \in 1..Len(chan'[d]) : chan'[d][i] = x
  BY <1>1
<1>3. \/ i + Off(c, d) \in 1..Len(chan[d]) /\ chan'[d][i] = chan[d][i + Off(c, d)]
      \/ chan'[d][i] \in answers
  BY DEF Handled, Taken
<1> QED
  BY <1>2, <1>3 DEF Flies

\* A write and a replication are served by writing the value.
LEMMA RequestServed ==
  ASSUME LockDiscipline, Next, NEW type \in {"WRITE", "REPLICATION"}, NEW u, NEW k, NEW n,
         Requested(type, u, k, n), ~Requested(type, u, k, n)'
  PROVE  row'[<<n, k>>].val = u
<1>0. Discipline /\ TypeOK /\ MessagesOK /\ WaitsOK
  BY DEF LockDiscipline, Discipline
<1>1. ASSUME NEW t \in Txns, Work(t) PROVE FALSE
  BY <1>0, <1>1, WorkFlights
<1>2. ASSUME NEW c \in Channels, Process(c) PROVE row'[<<n, k>>].val = u
  <2>1. PICK m \in Message : \E answers : Handles(c, m, answers)
    BY <1>0, <1>2, ProcessHandles
  <2>2. PICK answers : Handles(c, m, answers)
    BY <2>1
  <2>3. Handled(c, m, answers) /\ MessageOK(c, m)
    BY <1>0, <2>2, HandlesFrame
  <2>4. ~m.answer /\ u = m.txn /\ type = m.type /\ k = m.key /\ n = m.to
    BY <1>0, <2>3, HandlerFlights
  <2>5. u \in Txns /\ k \in Keys
    BY <1>0, RequestedPlace
  <2>6. PICK q \in Copies : q = <<n, k>>
    BY <2>3, <2>4, <2>5, Topology DEF MessageOK
  <2>7. row[q] \in RowType
    BY <1>0 DEF TypeOK, RowType
  <2>8. CASE WritesRow(m, answers)
    <3>1. n = Master[k]
      BY <2>3, <2>4, <2>8 DEF WritesRow, MessageOK
    <3>2. row' = [row EXCEPT ![q] = [row[q] EXCEPT !.val = u]]
      BY <2>4, <2>6, <2>8, <3>1 DEF WritesRow, MasterRow
    <3>3. row'[q] = [row[q] EXCEPT !.val = u]
      BY <1>0, <3>2 DEF TypeOK
    <3> QED
      BY <2>6, <2>7, <3>3, WordFacts
  <2>9. CASE Replicates(m, answers)
    <3>1. row' = [row EXCEPT ![q] = [row[q] EXCEPT !.val = u, !.tid = m.tid]]
      BY <2>4, <2>6, <2>9 DEF Replicates
    <3>2. row'[q] = [row[q] EXCEPT !.val = u, !.tid = m.tid]
      BY <1>0, <3>1 DEF TypeOK
    <3> QED
      BY <2>6, <2>7, <3>2, WordFacts
  <2> QED
    BY <2>2, <2>4, <2>8, <2>9
    DEF Handles, GrantsLock, RefusesLock, TakesLock, MissesLock, AbortsLock, ReleasesLock, Counts
<1> QED
  BY <1>1, <1>2 DEF Next

\* A transaction that has committed takes no lock.
LEMMA HoldsLate ==
  ASSUME LockDiscipline, Next, NEW u \in Txns, NEW k,
         stage[u] \in {"writing", "releasing"}, Holds(u, k)', k \in Keys
  PROVE  Holds(u, k)
<1>0. Discipline /\ TypeOK /\ MessagesOK /\ WaitsOK
  BY DEF LockDiscipline, Discipline
<1>1. ASSUME NEW t \in Txns, Work(t) PROVE Holds(u, k)
  <2>1. CASE Idle(t)
    <3>1. CASE KeepsLocks
      BY <3>1 DEF KeepsLocks
    <3>2. ASSUME NEW j \in Keys, Lock(t, j), TakesOne(t, j) PROVE Holds(u, k)
      <4>1. u # t
        BY <3>2 DEF Lock
      <4> QED
        BY <3>2, <4>1 DEF TakesOne
    <3> QED
      BY <1>0, <2>1, <3>1, <3>2, IdleHolds
  <2>2. CASE AskLocks(t) \/ Commit(t)
    BY <1>0, <2>2, AskingKeeps DEF KeepsLocks
  <2>3. CASE Abort(t) \/ Release(t)
    BY <1>0, <2>3, ReturningGives DEF GivesBack
  <2> QED
    BY <1>1, <2>1, <2>2, <2>3, WorkIdles
<1>2. ASSUME NEW c \in Channels, Process(c) PROVE Holds(u, k)
  <2>1. PICK m \in Message : \E answers : Handles(c, m, answers)
    BY <1>0, <1>2, ProcessHandles
  <2>2. PICK answers : Handles(c, m, answers)
    BY <2>1
  <2>3. Handled(c, m, answers) /\ MessageOK(c, m)
    BY <1>0, <2>2, HandlesFrame
  <2>4. CASE GrantsLock(m, answers)
    <3>1. Requested("LOCK", m.txn, m.key, m.to)
      BY <1>0, <2>3, <2>4, HeadHolds DEF GrantsLock
    <3>2. u # m.txn
      BY <1>0, <3>1, HoldsOnce
    <3>3. TakesOne(m.txn, m.key)
      BY <1>0, <2>2, <2>4, HandlerHolds
    <3> QED
      BY <3>2, <3>3 DEF TakesOne
  <2>5. CASE AbortsLock(m, answers) \/ ReleasesLock(m, answers)
    <3>1. GivesBack(m.txn, {m.key})
      BY <1>0, <2>2, <2>5, HandlerHolds
    <3> QED
      BY <3>1 DEF GivesBack
  <2>6. CASE ~(GrantsLock(m, answers) \/ AbortsLock(m, answers) \/ ReleasesLock(m, answers))
    <3>1. KeepsLocks
      BY <1>0, <2>2, <2>6, HandlerHolds
    <3> QED
      BY <3>1 DEF KeepsLocks
  <2> QED
    BY <2>4, <2>5, <2>6
<1> QED
  BY <1>1, <1>2 DEF Next

-----------------------------------------------------------------------------
(* Reads are current.                                                      *)

\* t knows, or is being told, that a row holds v and has the tid n.
Knows(t, k, v, n) ==
  \/ /\ stage[t] \in {"locking", "asked"} /\ k \in held[t]
     /\ v = seen[t][k] /\ n = seenTid[t][k]
  \/ \E m \in Message :
       Flies(m) /\ m.ok /\ m.txn = t /\ m.key = k /\ m.val = v /\ m.tid = n

Current(k, v, n) == v = MasterRow(k).val /\ n = MasterRow(k).tid

\* ReadsCurrent, said of whoever knows a row.
LEMMA ReadsByKnowledge ==
  TypeOK => (ReadsCurrent <=>
    \A t \in Txns, k \in Keys : \A v, n : Knows(t, k, v, n) => Current(k, v, n))
<1> SUFFICES ASSUME TypeOK
             PROVE  ReadsCurrent <=> \A t \in Txns, k \in Keys : \A v, n :
                                       Knows(t, k, v, n) => Current(k, v, n)
  OBVIOUS
<1>1. ASSUME ReadsCurrent, NEW t \in Txns, NEW k \in Keys, NEW v, NEW n, Knows(t, k, v, n)
      PROVE  Current(k, v, n)
  <2>1. CASE stage[t] \in {"locking", "asked"} /\ k \in held[t]
             /\ v = seen[t][k] /\ n = seenTid[t][k]
    BY <1>1, <2>1 DEF ReadsCurrent, Current
  <2>2. ASSUME NEW m \in Message, Flies(m), m.ok, m.txn = t, m.key = k, m.val = v, m.tid = n
        PROVE  Current(k, v, n)
    <3>1. PICK c \in Channels : \E i \in 1..Len(chan[c]) : chan[c][i] = m
      BY <2>2 DEF Flies
    <3>2. PICK i \in 1..Len(chan[c]) : chan[c][i] = m
      BY <3>1
    <3> QED
      BY <1>1, <2>2, <3>2 DEF ReadsCurrent, Current
  <2> QED
    BY <1>1, <2>1, <2>2 DEF Knows
<1>2. ASSUME \A t \in Txns, k \in Keys : \A v, n : Knows(t, k, v, n) => Current(k, v, n)
      PROVE  ReadsCurrent
  <2>1. ASSUME NEW t \in Txns, stage[t] \in {"locking", "asked"}, NEW k \in held[t]
        PROVE  seen[t][k] = MasterRow(k).val /\ seenTid[t][k] = MasterRow(k).tid
    <3>1. k \in Keys
      BY DEF TypeOK
    <3>2. Knows(t, k, seen[t][k], seenTid[t][k])
      BY <2>1 DEF Knows
    <3> QED
      BY <1>2, <3>1, <3>2 DEF Current
  <2>2. ASSUME NEW c \in Channels, NEW i \in 1..Len(chan[c]), chan[c][i].ok
        PROVE  /\ chan[c][i].val = MasterRow(chan[c][i].key).val
               /\ chan[c][i].tid = MasterRow(chan[c][i].key).tid
    <3>1. PICK m \in Message : m = chan[c][i] /\ m.txn \in Txns /\ m.key \in Keys
      BY PositionTypes
    <3>2. Flies(m) /\ m.ok
      BY <2>2, <3>1 DEF Flies
    <3>3. Knows(m.txn, m.key, m.val, m.tid)
      BY <3>2 DEF Knows
    <3> QED
      BY <1>2, <3>1, <3>3 DEF Current
  <2> QED
    BY <2>1, <2>2 DEF ReadsCurrent
<1> QED
  BY <1>1, <1>2

\* Who knows a row has a lock of it and has not committed.
LEMMA KnowingHolds ==
  Discipline => \A t \in Txns : \A k, v, n :
    Knows(t, k, v, n) => Holds(t, k) /\ stage[t] \in {"locking", "asked"}
<1> SUFFICES ASSUME Discipline, NEW t \in Txns, NEW k, NEW v, NEW n, Knows(t, k, v, n)
             PROVE  Holds(t, k) /\ stage[t] \in {"locking", "asked"}
  OBVIOUS
<1>1. CASE k \in held[t] /\ stage[t] \in {"locking", "asked"}
  BY <1>1 DEF Holds
<1>2. ASSUME NEW m \in Message, Flies(m), m.ok, m.txn = t, m.key = k
      PROVE  Holds(t, k) /\ stage[t] \in {"locking", "asked"}
  <2>1. Granted(t, k)
    BY <1>2 DEF Flies, Granted
  <2>2. stage[t] = "asked"
    BY <2>1, GrantedFacts
  <2> QED
    BY <2>1, <2>2 DEF Holds
<1> QED
  BY <1>1, <1>2 DEF Knows

\* A transaction learns of a row when it locks it.
LEMMA WorkKnows ==
  ASSUME Discipline, LocksInv, NEW t \in Txns, Work(t),
         NEW u \in Txns, NEW k \in Keys, NEW v, NEW n, Knows(u, k, v, n)'
  PROVE  Knows(u, k, v, n) \/ Current(k, v, n)'
<1>0. TypeOK /\ WaitsOK /\ HeldOK
  BY DEF Discipline
<1>1. ASSUME NEW m \in Message, Flies(m)', m.ok, m.txn = u, m.key = k, m.val = v, m.tid = n
      PROVE  Knows(u, k, v, n)
  BY <1>1, WorkFlights DEF Knows
<1>2. ASSUME stage'[u] \in {"locking", "asked"}, k \in held'[u],
             v = seen'[u][k], n = seenTid'[u][k]
      PROVE  Knows(u, k, v, n) \/ Current(k, v, n)'
  <2>1. CASE u # t
    <3>1. stage'[u] = stage[u] /\ held'[u] = held[u] /\ seen'[u] = seen[u] /\ seenTid'[u] = seenTid[u]
      BY <1>0, <2>1, WorkFrame DEF Others
    <3> QED
      BY <1>2, <3>1 DEF Knows
  <2>2. CASE u = t /\ Begin(t)
    <3>1. held'[t] = held[t] /\ stage[t] = "waiting"
      BY <2>2 DEF Begin
    <3> QED
      BY <1>0, <1>2, <2>2, <3>1 DEF HeldOK
  <2>3. ASSUME u = t, NEW j \in Keys, Lock(t, j)
        PROVE  Knows(u, k, v, n) \/ Current(k, v, n)'
    <3>1. stage[t] = "locking" /\ (TakesRow(t, j) \/ MissesRow(t, j))
      BY <1>0, <2>3, LockFacts
    <3>2. CASE MissesRow(t, j)
      BY <1>2, <2>3, <3>1, <3>2 DEF MissesRow, Knows
    <3>3. CASE TakesRow(t, j)
      <4>1. MasterRow(j) \in RowType
        BY <1>0, Topology DEF TypeOK, RowType, MasterRow
      <4>2. /\ seen'[t][k] = IF k = j THEN MasterRow(j).val ELSE seen[t][k]
            /\ seenTid'[t][k] = IF k = j THEN MasterRow(j).tid ELSE seenTid[t][k]
        <5>1. seen \in [Txns -> [Keys -> Txns \cup {NoTxn}]] /\ seenTid \in [Txns -> [Keys -> Nat]]
          BY <1>0 DEF TypeOK
        <5>2. MasterRow(j).val \in Txns \cup {NoTxn} /\ MasterRow(j).tid \in Nat
          BY <4>1 DEF RowType
        <5>3. /\ seen' = [seen EXCEPT ![t][j] = MasterRow(j).val]
              /\ seenTid' = [seenTid EXCEPT ![t][j] = MasterRow(j).tid]
          BY <3>3 DEF TakesRow
        <5>4. seen'[t][k] = IF k = j THEN MasterRow(j).val ELSE seen[t][k]
          BY <5>1, <5>2, <5>3, Replaced
        <5>5. seenTid'[t][k] = IF k = j THEN MasterRow(j).tid ELSE seenTid[t][k]
          BY <5>1, <5>2, <5>3, Replaced
        <5> QED
          BY <5>4, <5>5
      <4>3. CASE k = j
        <5>1. DataKept
          <6>1. ~Commit(t) /\ ~Release(t)
            BY <3>1 DEF Commit, Release
          <6> QED
            BY <6>1, WorkData
        <5>2. MasterRow(j)'.val = MasterRow(j).val /\ MasterRow(j)'.tid = MasterRow(j).tid
          BY <5>1, Topology DEF DataKept, MasterRow
        <5> QED
          BY <1>2, <2>3, <4>2, <4>3, <5>2 DEF Current
      <4>4. CASE k # j
        <5>1. k \in held[t]
          BY <1>0, <1>2, <2>3, <3>3, <4>4 DEF TakesRow, TypeOK
        <5> QED
          BY <1>2, <2>3, <3>1, <4>2, <4>4, <5>1 DEF Knows
      <4> QED
        BY <4>3, <4>4
    <3> QED
      BY <3>1, <3>2, <3>3
  <2>4. CASE u = t /\ AskLocks(t)
    BY <1>2, <2>4 DEF AskLocks, Knows
  <2>5. CASE u = t /\ (Rollback(t) \/ Abort(t) \/ Commit(t) \/ Release(t) \/ Finish(t))
    <3>1. stage'[t] \in {"rolled_back", "waiting", "writing", "releasing", "committed"}
      BY <1>0, <2>5 DEF Rollback, Abort, Commit, Release, Finish, Goto, TypeOK
    <3> QED
      BY <1>2, <2>5, <3>1
  <2> QED
    BY <2>1, <2>2, <2>3, <2>4, <2>5 DEF Work
<1> QED
  BY <1>1, <1>2 DEF Knows

\* A handler tells a transaction of a row when it locks it.
LEMMA HandlerKnows ==
  ASSUME Discipline, LocksInv, NEW c \in Channels, NEW m \in Message, NEW answers,
         Handles(c, m, answers),
         NEW u \in Txns, NEW k \in Keys, NEW v, NEW n, Knows(u, k, v, n)'
  PROVE  Knows(u, k, v, n) \/ Current(k, v, n)'
<1>0. TypeOK /\ MessagesOK /\ NoDuplicates
  BY DEF Discipline
<1>1. /\ Handled(c, m, answers) /\ MessageOK(c, m)
      /\ prog' = prog /\ tid' = tid /\ stage' = stage
  BY <1>0, HandlesFrame
<1>2. /\ m.txn \in Txns /\ m.key \in Keys /\ m.write \in BOOLEAN
      /\ m.val \in Txns \cup {NoTxn} /\ m.tid \in Nat /\ m = chan[c][1] /\ 1 \in 1..Len(chan[c])
  BY <1>1 DEF Message, Handled
<1>3. ASSUME NEW x \in Message, Flies(x)', x.ok, x.txn = u, x.key = k, x.val = v, x.tid = n
      PROVE  Knows(u, k, v, n) \/ Current(k, v, n)'
  <2>1. CASE Flies(x)
    BY <1>3, <2>1 DEF Knows
  <2>2. CASE x \in answers
    <3>1. x.txn = m.txn /\ x.key = m.key
      BY <1>1, <2>2 DEF Handled, Id
    <3>2. GrantsLock(m, answers)
      BY <1>3, <2>2 DEF Handles, RefusesLock, TakesLock, MissesLock, AbortsLock,
                        WritesRow, Replicates, ReleasesLock, Counts
    <3>3. x.val = MasterRow(k).val /\ x.tid = MasterRow(k).tid
      BY <1>3, <2>2, <3>1, <3>2 DEF GrantsLock
    <3>4. MasterRow(k) \in RowType
      BY <1>0, Topology DEF TypeOK, RowType, MasterRow
    <3>5. PICK r \in RowType : r = Locked(MasterRow(k), m.write)
      BY <1>2, <1>3, <3>1, <3>2, <3>4, RowTypes DEF GrantsLock
    <3>6. row' = [row EXCEPT ![<<Master[k], k>>] = r]
      BY <1>3, <3>1, <3>2, <3>5 DEF GrantsLock
    <3>7. MasterRow(k)' = r
      BY <1>0, <3>6, RowReplaced
    <3>8. r.val = MasterRow(k).val /\ r.tid = MasterRow(k).tid
      BY <1>2, <3>4, <3>5, WordFacts
    <3> QED
      BY <1>3, <3>3, <3>7, <3>8 DEF Current
  <2> QED
    BY <1>1, <1>3, <2>1, <2>2, HandlerFlies
<1>4. ASSUME stage'[u] \in {"locking", "asked"}, k \in held'[u],
             v = seen'[u][k], n = seenTid'[u][k]
      PROVE  Knows(u, k, v, n)
  <2>1. CASE TakesLock(m, answers)
    <3>1. /\ seen'[u][k] = IF u = m.txn /\ k = m.key THEN m.val ELSE seen[u][k]
          /\ seenTid'[u][k] = IF u = m.txn /\ k = m.key THEN m.tid ELSE seenTid[u][k]
      <4>1. seen \in [Txns -> [Keys -> Txns \cup {NoTxn}]] /\ seenTid \in [Txns -> [Keys -> Nat]]
        BY <1>0 DEF TypeOK
      <4>2. /\ seen' = [seen EXCEPT ![m.txn][m.key] = m.val]
            /\ seenTid' = [seenTid EXCEPT ![m.txn][m.key] = m.tid]
        BY <2>1 DEF TakesLock
      <4>3. seen'[u][k] = IF u = m.txn /\ k = m.key THEN m.val ELSE seen[u][k]
        BY <1>2, <4>1, <4>2, Replaced
      <4>4. seenTid'[u][k] = IF u = m.txn /\ k = m.key THEN m.tid ELSE seenTid[u][k]
        BY <1>2, <4>1, <4>2, Replaced
      <4> QED
        BY <4>3, <4>4
    <3>2. CASE u = m.txn /\ k = m.key
      <4>1. Flies(m) /\ m.ok
        BY <1>2, <2>1 DEF Flies, TakesLock
      <4> QED
        BY <1>4, <3>1, <3>2, <4>1 DEF Knows
    <3>3. CASE ~(u = m.txn /\ k = m.key)
      <4>1. k \in held[u]
        BY <1>0, <1>4, <2>1, <3>3 DEF TakesLock, TypeOK
      <4> QED
        BY <1>1, <1>4, <3>1, <3>3, <4>1 DEF Knows
    <3> QED
      BY <3>2, <3>3
  <2>2. CASE held' = held /\ seen' = seen /\ seenTid' = seenTid
    BY <1>1, <1>4, <2>2 DEF Knows
  <2> QED
    BY <2>1, <2>2 DEF Handles, GrantsLock, RefusesLock, MissesLock, AbortsLock, WritesRow,
                      Replicates, ReleasesLock, Counts, Quiet
<1> QED
  BY <1>3, <1>4 DEF Knows

\* What is known of a row stays true: only who holds its lock to write
\* changes it, and that has committed.
LEMMA ReadsCurrentStep ==
  ASSUME LockDiscipline, LockDiscipline', ReadsCurrent, Next
  PROVE  ReadsCurrent'
<1>0. Discipline /\ LocksInv /\ TypeOK /\ MessagesOK /\ WaitsOK /\ TypeOK' /\ Discipline'
  BY DEF LockDiscipline, Discipline
<1>1. \A t \in Txns, k \in Keys : \A v, n : Knows(t, k, v, n) => Current(k, v, n)
  BY <1>0, ReadsByKnowledge
<1>2. ReadsCurrent' <=> \A t \in Txns, k \in Keys : \A v, n : Knows(t, k, v, n)' => Current(k, v, n)'
  <2>1. TypeOK' => (ReadsCurrent <=>
          \A t \in Txns, k \in Keys : \A v, n : Knows(t, k, v, n) => Current(k, v, n))'
    BY ReadsByKnowledge, PTL
  <2> QED
    BY <1>0, <2>1
<1>3. \A t \in Txns : \A k, v, n : Knows(t, k, v, n)' => stage'[t] \in {"locking", "asked"}
  <2>1. Discipline' => (\A t \in Txns : \A k, v, n :
          Knows(t, k, v, n) => Holds(t, k) /\ stage[t] \in {"locking", "asked"})'
    BY KnowingHolds, PTL
  <2> QED
    BY <1>0, <2>1
<1>4. ASSUME NEW t \in Txns, NEW k \in Keys, NEW v, NEW n, Knows(t, k, v, n)'
      PROVE  Current(k, v, n)'
  <2>1. Knows(t, k, v, n) \/ Current(k, v, n)'
    <3>1. ASSUME NEW u \in Txns, Work(u) PROVE Knows(t, k, v, n) \/ Current(k, v, n)'
      BY <1>0, <1>4, <3>1, WorkKnows
    <3>2. ASSUME NEW c \in Channels, Process(c) PROVE Knows(t, k, v, n) \/ Current(k, v, n)'
      <4>1. PICK m \in Message : \E answers : Handles(c, m, answers)
        BY <1>0, <3>2, ProcessHandles
      <4>2. PICK answers : Handles(c, m, answers)
        BY <4>1
      <4> QED
        BY <1>0, <1>4, <4>2, HandlerKnows
    <3> QED
      BY <3>1, <3>2 DEF Next
  <2>2. ASSUME Knows(t, k, v, n) PROVE Current(k, v, n)'
    <3>1. Holds(t, k) /\ Current(k, v, n)
      BY <1>0, <1>1, <2>2, KnowingHolds
    <3>2. ASSUME NEW u \in Txns, Holds(u, k), k \in Writes(u), stage'[u] \in {"writing", "releasing"}
          PROVE  FALSE
      <4>1. t = u
        BY <1>0, <3>1, <3>2, Exclusive
      <4> QED
        BY <1>3, <1>4, <3>2, <4>1
    <3>3. ValsStep /\ TidsStep
      BY DataNext DEF DataStep
    <3>4. MasterRow(k)'.val = MasterRow(k).val
      <4>1. PICK q \in Copies : q = <<Master[k], k>> /\ q[2] = k /\ row[q] = MasterRow(k)
                                /\ row'[q] = MasterRow(k)'
        BY Topology DEF MasterRow
      <4>2. row'[q].val = row[q].val \/ \E u \in Txns : WrittenBy(u, k)
        BY <3>3, <4>1 DEF ValsStep
      <4> QED
        BY <3>2, <4>1, <4>2 DEF WrittenBy
    <3>5. MasterRow(k)'.tid = MasterRow(k).tid
      <4>1. MasterRow(k)'.tid = MasterRow(k).tid \/ \E u \in Txns : ReleasedBy(u, k)
        BY <3>3 DEF TidsStep
      <4> QED
        BY <3>2, <4>1 DEF ReleasedBy
    <3> QED
      BY <3>1, <3>4, <3>5 DEF Current
  <2> QED
    BY <2>1, <2>2
<1> QED
  BY <1>2, <1>4

-----------------------------------------------------------------------------
(* Writes arrive.                                                          *)

TypeAt(p) == IF p[1] = Master[p[2]] THEN "WRITE" ELSE "REPLICATION"

\* What t writes is in the copy p, or on its way there.
Arrives(t, p) == row[p].val = t \/ Requested(TypeAt(p), t, p[2], p[1])

\* WritesArrive, said of the copies.
LEMMA WritesByCopy ==
  TypeOK => (WritesArrive <=>
    \A t \in Txns, p \in Copies : stage[t] = "writing" /\ p[2] \in Writes(t) => Arrives(t, p))
<1> SUFFICES ASSUME TypeOK
             PROVE  WritesArrive <=> \A t \in Txns, p \in Copies :
                      stage[t] = "writing" /\ p[2] \in Writes(t) => Arrives(t, p)
  OBVIOUS
<1>1. ASSUME WritesArrive, NEW t \in Txns, NEW p \in Copies,
             stage[t] = "writing", p[2] \in Writes(t)
      PROVE  Arrives(t, p)
  <2>1. PICK k \in Keys, n \in Nodes : p = <<n, k>> /\ p[1] = n /\ p[2] = k
    BY Topology
  <2>2. CASE n = Master[k]
    BY <1>1, <2>1, <2>2 DEF WritesArrive, Arrives, TypeAt, MasterRow
  <2>3. CASE n # Master[k]
    <3>1. n \in Replicas[k]
      BY <2>1, <2>3, Topology
    <3> QED
      BY <1>1, <2>1, <2>3, <3>1 DEF WritesArrive, Arrives, TypeAt
  <2> QED
    BY <2>2, <2>3
<1>2. ASSUME \A t \in Txns, p \in Copies :
               stage[t] = "writing" /\ p[2] \in Writes(t) => Arrives(t, p),
             NEW t \in Txns, stage[t] = "writing", NEW k \in Writes(t)
      PROVE  /\ MasterRow(k).val = t \/ Requested("WRITE", t, k, Master[k])
             /\ \A n \in Replicas[k] :
                  row[<<n, k>>].val = t \/ Requested("REPLICATION", t, k, n)
  <2>1. k \in Keys
    BY AccessFacts
  <2>2. MasterRow(k).val = t \/ Requested("WRITE", t, k, Master[k])
    <3>1. PICK p \in Copies : p = <<Master[k], k>> /\ p[1] = Master[k] /\ p[2] = k
      BY <2>1, Topology
    <3> QED
      BY <1>2, <3>1 DEF Arrives, TypeAt, MasterRow
  <2>3. ASSUME NEW n \in Replicas[k]
        PROVE  row[<<n, k>>].val = t \/ Requested("REPLICATION", t, k, n)
    <3>1. PICK p \in Copies : p = <<n, k>> /\ p[1] = n /\ p[2] = k
      BY <2>1, Topology
    <3>2. n # Master[k]
      BY <2>1, Topology
    <3> QED
      BY <1>2, <3>1, <3>2 DEF Arrives, TypeAt
  <2> QED
    BY <2>2, <2>3
<1> QED
  BY <1>1, <1>2 DEF WritesArrive

\* At its commit a transaction writes its own copies and asks for the others.
LEMMA CommitArrives ==
  ASSUME Discipline, NEW t \in Txns, Commit(t), NEW p \in Copies, p[2] \in Writes(t)
  PROVE  Arrives(t, p)'
<1>0. TypeOK
  BY DEF Discipline
<1>1. PICK k \in Keys, n \in Nodes :
        /\ p = <<n, k>> /\ p[1] = n /\ p[2] = k
        /\ n = Master[k] \/ n \in Replicas[k]
  BY Topology
<1>2. CASE n = Home[t]
  <2>1. row' = WrittenRows(t)
    BY <1>2 DEF Commit
  <2>2. row'[p].val = t
    BY <1>0, <1>1, <1>2, <2>1, WrittenRowsFacts
  <2> QED
    BY <2>2 DEF Arrives
<1>3. CASE n # Home[t]
  <2>1. PICK msgs : msgs = CommitMessages(t)
    OBVIOUS
  <2>2. Fresh(t, msgs) /\ Extended(msgs)
    BY <2>1, CommitSends
  <2>5. CommitAsks(t, msgs)
    BY <2>1, CommitSends
  <2>3. \E m \in msgs : Id(m) = <<TypeAt(p), k, n>>
    <3>1. CASE n = Master[k]
      <4>1. TypeAt(p) = "WRITE" /\ ~IsLocal(t, k)
        BY <1>1, <1>3, <3>1 DEF TypeAt, IsLocal
      <4> QED
        BY <1>1, <2>5, <3>1, <4>1 DEF CommitAsks
    <3>2. CASE n # Master[k]
      <4>1. TypeAt(p) = "REPLICATION" /\ n \in Replicas[k] \ {Home[t]}
        BY <1>1, <1>3, <3>2 DEF TypeAt
      <4> QED
        BY <1>1, <2>5, <4>1 DEF CommitAsks
    <3> QED
      BY <3>1, <3>2
  <2>4. Requested(TypeAt(p), t, k, n)'
    BY <1>0, <2>2, <2>3, SendFlights
  <2> QED
    BY <1>1, <2>4 DEF Arrives
<1> QED
  BY <1>2, <1>3

\* Between its commit and its release a transaction has its locks, and so
\* nobody else writes there.
LEMMA WritesArriveStep ==
  ASSUME LockDiscipline, LockDiscipline', WritesArrive, Next
  PROVE  WritesArrive'
<1>0. Discipline /\ LocksInv /\ TypeOK /\ TypeOK'
  BY DEF LockDiscipline, Discipline
<1>1. \A t \in Txns, p \in Copies :
        stage[t] = "writing" /\ p[2] \in Writes(t) => Arrives(t, p)
  BY <1>0, WritesByCopy
<1>2. WritesArrive' <=> \A t \in Txns, p \in Copies :
        stage'[t] = "writing" /\ p[2] \in Writes(t)' => Arrives(t, p)'
  <2>1. TypeOK' => (WritesArrive <=> \A t \in Txns, p \in Copies :
          stage[t] = "writing" /\ p[2] \in Writes(t) => Arrives(t, p))'
    BY WritesByCopy, PTL
  <2> QED
    BY <1>0, <2>1
<1>3. ASSUME NEW t \in Txns, NEW p \in Copies, stage'[t] = "writing", p[2] \in Writes(t)'
      PROVE  Arrives(t, p)'
  <2>1. LifeStep(t) /\ p[2] \in Writes(t)
    BY <1>3, LifeNext DEF LifeStep
  <2>2. CASE Commit(t)
    BY <1>0, <2>1, <2>2, CommitArrives
  <2>3. CASE stage[t] = "writing"
    <3>1. Arrives(t, p) /\ Holds(t, p[2]) /\ p[2] \in Keys
      <4>1. p[2] \in Rows(t) /\ p[2] \in Keys
        BY <1>0, <2>1, AccessFacts, Topology
      <4> QED
        BY <1>0, <1>1, <2>1, <2>3, <4>1, AllHeld
    <3>2. row'[p].val = row[p].val \/ row'[p].val = t
      <4>1. row'[p].val = row[p].val \/ \E u \in Txns : row'[p].val = u /\ WrittenBy(u, p[2])
        BY DataNext DEF DataStep, ValsStep
      <4>2. \A u \in Txns : WrittenBy(u, p[2]) => u = t
        BY <1>0, <2>1, <3>1, Exclusive DEF WrittenBy
      <4> QED
        BY <4>1, <4>2
    <3>3. CASE row[p].val = t
      BY <3>2, <3>3 DEF Arrives
    <3>4. CASE Requested(TypeAt(p), t, p[2], p[1])
      <4>1. TypeAt(p) \in {"WRITE", "REPLICATION"} /\ p = <<p[1], p[2]>>
        BY Topology DEF TypeAt
      <4>2. Requested(TypeAt(p), t, p[2], p[1])' \/ row'[p].val = t
        BY <3>4, <4>1, RequestServed
      <4> QED
        BY <4>2 DEF Arrives, TypeAt
    <3> QED
      BY <3>1, <3>3, <3>4 DEF Arrives
  <2> QED
    BY <1>3, <2>1, <2>2, <2>3 DEF LifeStep
<1> QED
  BY <1>2, <1>3

-----------------------------------------------------------------------------
(* Tids grow.                                                              *)

\* A commit keeps the lock of what it has written until the row has its tid.
LEMMA InstallingKept ==
  ASSUME LockDiscipline, Next, NEW t \in Txns, NEW k \in Keys, Installing(t, k)
  PROVE  tid'[t] = tid[t] /\ (Installing(t, k)' \/ MasterRow(k)'.tid = tid[t])
<1>0. Discipline /\ LocksInv /\ TypeOK /\ MessagesOK /\ WaitsOK /\ HeldOK
  BY DEF LockDiscipline, Discipline
<1>1. k \in Writes(t) /\ stage[t] \in {"writing", "releasing"} /\ Holds(t, k)
  BY DEF Installing
<1>2. LifeStep(t)
  BY LifeNext
<1>3. tid'[t] = tid[t] /\ k \in Writes(t)'
  BY <1>1, <1>2 DEF LifeStep, HasCommitted
<1>4. MasterRow(k) \in RowType
  BY <1>0, Topology DEF TypeOK, RowType, MasterRow
<1>5. ASSUME stage'[t] \in {"writing", "releasing"}, Holds(t, k)'
      PROVE  Installing(t, k)'
  BY <1>3, <1>5 DEF Installing
<1>6. ASSUME NEW u \in Txns, Work(u) PROVE Installing(t, k)' \/ MasterRow(k)'.tid = tid[t]
  <2>1. CASE u # t
    <3>1. stage'[t] = stage[t]
      BY <1>0, <1>6, <2>1, WorkFrame DEF Others
    <3>2. Holds(t, k)'
      <4>1. CASE Idle(u)
        <5>1. KeepsLocks \/ \E j \in Keys : TakesOne(u, j)
          BY <1>0, <4>1, IdleHolds
        <5> QED
          BY <1>1, <2>1, <5>1 DEF KeepsLocks, TakesOne
      <4>2. CASE AskLocks(u) \/ Commit(u)
        BY <1>0, <1>1, <4>2, AskingKeeps DEF KeepsLocks
      <4>3. CASE Abort(u) \/ Release(u)
        <5>1. GivesBack(u, Local(u, held[u]))
          BY <1>0, <4>3, ReturningGives
        <5> QED
          BY <1>1, <2>1, <5>1 DEF GivesBack
      <4> QED
        BY <1>6, <4>1, <4>2, <4>3, WorkIdles
    <3> QED
      BY <1>1, <1>5, <3>1, <3>2
  <2>2. CASE u = t /\ Release(t)
    <3>1. stage[t] = "writing" /\ stage'[t] = "releasing" /\ row' = UnlockedRows(t, TRUE, tid[t])
      BY <1>0, <2>2 DEF Release, Goto, TypeOK
    <3>2. k \in held[t]
      BY <1>0, <1>1, <3>1, AllHeld, AccessFacts
    <3>3. CASE IsLocal(t, k)
      <4>1. tid[t] \in Nat /\ TRUE \in BOOLEAN
        BY <1>0 DEF TypeOK
      <4>2. MasterRow(k)' = IF TRUE /\ k \in Writes(t) THEN Installed(MasterRow(k), tid[t])
                                     ELSE Unlocked(MasterRow(k), k \in Writes(t))
        BY <1>0, <3>1, <3>2, <3>3, <4>1, UnlockedRowsFacts
      <4>3. MasterRow(k)' = Installed(MasterRow(k), tid[t])
        BY <1>1, <4>2
      <4> QED
        BY <1>4, <4>3, WordFacts
    <3>4. CASE ~IsLocal(t, k)
      <4>1. GivesBack(t, Local(t, held[t]))
        BY <1>0, <2>2, ReturningGives
      <4>2. Holds(t, k)'
        BY <1>1, <3>4, <4>1 DEF GivesBack, Local
      <4> QED
        BY <1>5, <3>1, <4>2
    <3> QED
      BY <3>3, <3>4
  <2>3. CASE u = t /\ ~Release(t)
    <3>1. Finish(t)
      BY <1>1, <1>6, <2>3 DEF Work, Rollback, Begin, Lock, AskLocks, Abort, Commit
    <3>2. stage[t] = "releasing" /\ pend[t] = {}
      BY <3>1 DEF Finish
    <3>3. k \notin held[t]
      BY <1>0, <3>2 DEF HeldOK
    <3>4. ~Granted(t, k)
      BY <1>0, <3>2, GrantedFacts
    <3>5. ~Requested("ABORT", t, k, Master[k])
      BY <1>0, <3>2, RequestedPlace
    <3>6. ~Requested("RELEASE", t, k, Master[k])
      BY <1>0, <3>2, RequestedFacts
    <3> QED
      BY <1>1, <3>3, <3>4, <3>5, <3>6 DEF Holds
  <2> QED
    BY <2>1, <2>2, <2>3
<1>7. ASSUME NEW c \in Channels, Process(c)
      PROVE  Installing(t, k)' \/ MasterRow(k)'.tid = tid[t]
  <2>1. PICK m \in Message : \E answers : Handles(c, m, answers)
    BY <1>0, <1>7, ProcessHandles
  <2>2. PICK answers : Handles(c, m, answers)
    BY <2>1
  <2>3. Handled(c, m, answers) /\ MessageOK(c, m) /\ stage' = stage
    BY <1>0, <2>2, HandlesFrame
  <2>4. CASE GrantsLock(m, answers)
    BY <1>0, <1>1, <1>5, <2>2, <2>3, <2>4, HandlerHolds DEF TakesOne
  <2>5. CASE (AbortsLock(m, answers) \/ ReleasesLock(m, answers)) /\ ~(t = m.txn /\ k = m.key)
    <3>1. GivesBack(m.txn, {m.key})
      BY <1>0, <2>2, <2>5, HandlerHolds
    <3> QED
      BY <1>1, <1>5, <2>3, <2>5, <3>1 DEF GivesBack
  <2>6. CASE AbortsLock(m, answers) /\ t = m.txn /\ k = m.key
    <3>1. Requested("ABORT", t, k, m.to)
      BY <1>0, <2>3, <2>6, HeadHolds DEF AbortsLock
    <3> QED
      BY <1>0, <1>1, <3>1, RequestedPlace
  <2>7. CASE ReleasesLock(m, answers) /\ t = m.txn /\ k = m.key
    <3>1. m.write /\ m.tid = tid[t] /\ m.tid \in Nat
      BY <1>1, <2>3, <2>7 DEF MessageOK, ReleasesLock, Message
    <3>2. PICK r \in RowType : r = Installed(MasterRow(k), m.tid)
      BY <1>4, <3>1, RowTypes
    <3>3. row' = [row EXCEPT ![<<Master[k], k>>] = r]
      BY <2>7, <3>1, <3>2 DEF ReleasesLock
    <3>4. MasterRow(k)' = r
      BY <1>0, <3>3, RowReplaced
    <3>5. r.tid = m.tid
      BY <1>4, <3>2, WordFacts
    <3> QED
      BY <3>1, <3>4, <3>5
  <2>8. CASE ~(GrantsLock(m, answers) \/ AbortsLock(m, answers) \/ ReleasesLock(m, answers))
    <3>1. KeepsLocks
      BY <1>0, <2>2, <2>8, HandlerHolds
    <3> QED
      BY <1>1, <1>5, <2>3, <3>1 DEF KeepsLocks
  <2> QED
    BY <2>4, <2>5, <2>6, <2>7, <2>8
<1> QED
  BY <1>3, <1>6, <1>7 DEF Next

\* Who releases a row is the one that installs there.
LEMMA ReleasingInstalls ==
  ASSUME LockDiscipline, NEW t \in Txns, NEW k \in Keys
  PROVE  /\ ReleasedBy(t, k) => Installing(t, k) /\ ~Installing(t, k)'
         /\ \A u \in Txns : Installing(t, k) /\ Installing(u, k) => u = t
BY Exclusive DEF LockDiscipline, ReleasedBy, Installing

\* The tid of a commit is above those of its rows.
LEMMA CommitTids ==
  ASSUME LockDiscipline, ReadsCurrent, NEW t \in Txns, Commit(t)
  PROVE  /\ \A k \in Rows(t) : MasterRow(k).tid < tid'[t] /\ Holds(t, k)
                               /\ seen[t][k] = MasterRow(k).val
         /\ \A p \in Copies : row'[p].tid = row[p].tid
         /\ tid'[t] \in Nat
<1>0. Discipline /\ TypeOK
  BY DEF LockDiscipline, Discipline
<1>1. stage[t] = "asked" /\ pend[t] = {} /\ ~failed[t]
  BY DEF Commit
<1>2. held[t] = Rows(t) /\ \A k \in Rows(t) : Holds(t, k)
  BY <1>0, <1>1, AllHeld
<1>3. \A k \in Rows(t) : seen[t][k] = MasterRow(k).val /\ seenTid[t][k] = MasterRow(k).tid
  BY <1>1, <1>2 DEF ReadsCurrent
<1>4. tid'[t] = NextTid(t)
  BY <1>0 DEF Commit, TypeOK
<1>5. NextTid(t) \in Nat /\ \A k \in Rows(t) : seenTid[t][k] < NextTid(t)
  BY <1>0, NextTidFacts
<1>6. \A p \in Copies : row'[p].tid = row[p].tid
  <2>1. row' = WrittenRows(t)
    BY DEF Commit
  <2> QED
    BY <1>0, <2>1, WrittenRowsFacts
<1> QED
  BY <1>2, <1>3, <1>4, <1>5, <1>6

\* A commit takes a tid above all it has locked, and the lock keeps others from
\* raising them before it has installed its own.
LEMMA TidsGrowStep ==
  ASSUME LockDiscipline, LockDiscipline', ReadsCurrent, TidsGrow, Next
  PROVE  TidsGrow'
<1>0. Discipline /\ LocksInv /\ TypeOK /\ TypeOK'
  BY DEF LockDiscipline, Discipline
<1>1. /\ \A k \in Keys : MasterRow(k).tid \in Nat /\ MasterRow(k)'.tid \in Nat
      /\ \A p \in Copies : row[p].tid \in Nat /\ row'[p].tid \in Nat
      /\ \A t \in Txns : tid[t] \in Nat /\ tid'[t] \in Nat
  BY <1>0, Topology DEF TypeOK, MasterRow
<1>2. TidsStep /\ CopiesStep
  BY DataNext DEF DataStep
<1>3. ASSUME NEW t \in Txns, NEW k \in Keys, Installing(t, k)'
      PROVE  MasterRow(k)'.tid < tid'[t]
  <2>1. LifeStep(t) /\ k \in Writes(t) /\ stage'[t] \in {"writing", "releasing"} /\ Holds(t, k)'
    BY <1>3, LifeNext DEF Installing, LifeStep
  <2>2. CASE Commit(t)
    <3>1. k \in Rows(t)
      BY <1>0, <2>1, AccessFacts
    <3>2. MasterRow(k).tid < tid'[t] /\ MasterRow(k)'.tid = MasterRow(k).tid
      BY <2>2, <3>1, CommitTids, Topology DEF MasterRow
    <3> QED
      BY <3>2
  <2>3. CASE ~Commit(t)
    <3>1. stage[t] \in {"writing", "releasing"}
      BY <2>1, <2>3 DEF LifeStep, Release
    <3>2. Installing(t, k) /\ tid'[t] = tid[t]
      BY <2>1, <2>3, <3>1, HoldsLate DEF Installing, LifeStep
    <3>3. MasterRow(k)'.tid = MasterRow(k).tid
      <4>1. \A u \in Txns : ~ReleasedBy(u, k)
        BY <1>3, <3>2, ReleasingInstalls
      <4> QED
        BY <1>2, <4>1 DEF TidsStep
    <3> QED
      BY <3>2, <3>3 DEF TidsGrow
  <2> QED
    BY <2>2, <2>3
\* The tid of an installation counts until the row has it.
<1>4. ASSUME NEW k \in Keys, NEW n \in Replicas[k], NEW t \in Txns, Installing(t, k),
             row'[<<n, k>>].tid <= tid[t]
      PROVE  \/ row'[<<n, k>>].tid <= MasterRow(k)'.tid
             \/ \E u \in Txns : Installing(u, k)' /\ row'[<<n, k>>].tid <= tid'[u]
  <2>1. tid'[t] = tid[t] /\ (Installing(t, k)' \/ MasterRow(k)'.tid = tid[t])
    BY <1>4, InstallingKept
  <2> QED
    BY <1>4, <2>1
<1>5. ASSUME NEW k \in Keys, NEW n \in Replicas[k]
      PROVE  \/ row'[<<n, k>>].tid <= MasterRow(k)'.tid
             \/ \E u \in Txns : Installing(u, k)' /\ row'[<<n, k>>].tid <= tid'[u]
  <2>0. <<n, k>> \in Copies
    BY Topology
  <2>1. ASSUME NEW t \in Txns, row'[<<n, k>>].tid = tid[t], Replicated(t, k, n)
        PROVE  Installing(t, k) /\ row'[<<n, k>>].tid <= tid[t]
    <3>1. stage[t] = "writing" /\ k \in Writes(t) /\ k \in held[t]
      BY <1>0, <2>1, HoldsOnce DEF Replicated
    <3>2. Installing(t, k)
      BY <3>1 DEF Installing, Holds
    <3> QED
      BY <1>1, <2>0, <2>1, <3>2
  <2>2. CASE row'[<<n, k>>].tid = row[<<n, k>>].tid
    <3>1. ASSUME NEW t \in Txns, Installing(t, k), row[<<n, k>>].tid <= tid[t]
          PROVE  Installing(t, k) /\ row'[<<n, k>>].tid <= tid[t]
      BY <2>2, <3>1
    <3>2. CASE row[<<n, k>>].tid <= MasterRow(k).tid
      <4>1. CASE MasterRow(k)'.tid = MasterRow(k).tid
        BY <2>2, <3>2, <4>1
      <4>2. ASSUME NEW t \in Txns, MasterRow(k)'.tid = tid[t], ReleasedBy(t, k)
            PROVE  row'[<<n, k>>].tid <= MasterRow(k)'.tid
        <5>1. MasterRow(k).tid < tid[t]
          BY <4>2, ReleasingInstalls DEF TidsGrow
        <5> QED
          BY <1>1, <2>0, <2>2, <3>2, <4>2, <5>1
      <4> QED
        BY <1>2, <4>1, <4>2 DEF TidsStep
    <3> QED
      BY <1>4, <3>1, <3>2 DEF TidsGrow
  <2> QED
    BY <1>2, <1>4, <2>1, <2>2 DEF CopiesStep
<1> QED
  BY <1>3, <1>5 DEF TidsGrow

-----------------------------------------------------------------------------
(* Replicas follow.                                                        *)

\* The two parts of ReplicasFollow, of one transaction and one copy.
Behind(t, k, n) == row[<<n, k>>].tid < tid[t]

Follows(p) ==
  \/ row[p].val = MasterRow(p[2]).val
  \/ \E t \in Txns : stage[t] = "writing" /\ p[2] \in Writes(t)

\* ReplicasFollow, said of the requests in flight and of the copies.
LEMMA FollowByRequest ==
  Discipline => (ReplicasFollow <=>
    /\ \A t, k, n : Requested("REPLICATION", t, k, n) => Behind(t, k, n)
    /\ \A p \in Copies : Follows(p))
<1> SUFFICES ASSUME Discipline
             PROVE  ReplicasFollow <=>
                      /\ \A t, k, n : Requested("REPLICATION", t, k, n) => Behind(t, k, n)
                      /\ \A p \in Copies : Follows(p)
  OBVIOUS
<1>0. TypeOK /\ MessagesOK
  BY DEF Discipline
<1>1. ASSUME \A m \in InFlight("REPLICATION", FALSE) : row[<<m.to, m.key>>].tid < m.tid,
             NEW t, NEW k, NEW n, Requested("REPLICATION", t, k, n)
      PROVE  Behind(t, k, n)
  <2>1. PICK c \in Channels : \E i \in 1..Len(chan[c]) :
          ~chan[c][i].answer /\ chan[c][i].txn = t /\ Id(chan[c][i]) = <<"REPLICATION", k, n>>
    BY <1>1 DEF Requested
  <2>2. PICK i \in 1..Len(chan[c]) :
          ~chan[c][i].answer /\ chan[c][i].txn = t /\ Id(chan[c][i]) = <<"REPLICATION", k, n>>
    BY <2>1
  <2>3. PICK m : m = chan[c][i]
    OBVIOUS
  <2>4. m.answer \in BOOLEAN /\ MessageOK(c, m)
    BY <1>0, <2>3, PositionTypes DEF MessagesOK
  <2>5. /\ m.type = "REPLICATION" /\ m.key = k /\ m.to = n /\ m.txn = t
        /\ m.answer = FALSE /\ Flies(m)
    BY <2>2, <2>3, <2>4 DEF Id, Flies
  <2>6. m \in InFlight("REPLICATION", FALSE)
    BY <1>0, <2>5, InFlightFacts
  <2>7. m.tid = tid[t]
    BY <2>4, <2>5 DEF MessageOK
  <2> QED
    BY <1>1, <2>5, <2>6, <2>7 DEF Behind
<1>2. ASSUME \A t, k, n : Requested("REPLICATION", t, k, n) => Behind(t, k, n),
             NEW m \in InFlight("REPLICATION", FALSE)
      PROVE  row[<<m.to, m.key>>].tid < m.tid
  <2>1. m.type = "REPLICATION" /\ m.answer = FALSE /\ Flies(m)
    BY <1>0, <1>2, InFlightFacts
  <2>2. PICK c \in Channels : \E i \in 1..Len(chan[c]) : chan[c][i] = m
    BY <2>1 DEF Flies
  <2>3. PICK i \in 1..Len(chan[c]) : chan[c][i] = m
    BY <2>2
  <2>4. MessageOK(c, m)
    BY <1>0, <2>3 DEF MessagesOK
  <2>5. m.tid = tid[m.txn]
    BY <2>1, <2>4 DEF MessageOK
  <2>6. Requested("REPLICATION", m.txn, m.key, m.to)
    BY <2>1, <2>3 DEF Requested, Id
  <2> QED
    BY <1>2, <2>5, <2>6 DEF Behind
<1> QED
  BY <1>1, <1>2 DEF ReplicasFollow, Follows, MasterRow

\* Who replicates has the lock of the row to write it.
LEMMA ReplicationPlace ==
  Discipline => \A t, k, n : Requested("REPLICATION", t, k, n) =>
    /\ t \in Txns /\ k \in Keys /\ n \in Replicas[k]
    /\ stage[t] = "writing" /\ k \in Writes(t) /\ Holds(t, k)
<1> SUFFICES ASSUME Discipline, NEW t, NEW k, NEW n, Requested("REPLICATION", t, k, n)
             PROVE  /\ t \in Txns /\ k \in Keys /\ n \in Replicas[k]
                    /\ stage[t] = "writing" /\ k \in Writes(t) /\ Holds(t, k)
  OBVIOUS
<1>1. t \in Txns /\ k \in Keys /\ n \in Replicas[k]
  BY RequestedPlace
<1>2. stage[t] = "writing" /\ k \in Writes(t) /\ k \in held[t]
  BY HoldsOnce
<1> QED
  BY <1>1, <1>2 DEF Holds

\* The same, after a step.
LEMMA ReplicationPlaceNext ==
  Discipline' => (\A t, k, n : Requested("REPLICATION", t, k, n) =>
    /\ t \in Txns /\ k \in Keys /\ n \in Replicas[k]
    /\ stage[t] = "writing" /\ k \in Writes(t) /\ Holds(t, k))'
BY ReplicationPlace, PTL

\* A request of a replication leaves at the commit, and not later.
LEMMA ReplicationAsked ==
  ASSUME LockDiscipline, Next, NEW t \in Txns, NEW k, NEW n,
         Requested("REPLICATION", t, k, n)', stage'[t] = "writing"
  PROVE  Requested("REPLICATION", t, k, n) \/ Commit(t)
<1>0. Discipline /\ TypeOK /\ MessagesOK /\ NoDuplicates /\ WaitsOK
  BY DEF LockDiscipline, Discipline
<1>1. ASSUME NEW u \in Txns, Work(u) PROVE Requested("REPLICATION", t, k, n) \/ Commit(t)
  <2>1. Requested("REPLICATION", t, k, n) \/ t = u
    BY <1>0, <1>1, WorkFlights
  <2>2. CASE t = u
    <3>1. CASE Idle(t)
      <4>1. UNCHANGED <<prog, tid, maxTid, pend, chan>>
        BY <3>1, WorkIdles
      <4> QED
        BY <1>0, <4>1, MessagesKept
    <3>2. CASE AskLocks(t) \/ Abort(t) \/ Release(t)
      <4>1. stage'[t] \in {"asked", "waiting", "releasing"}
        BY <1>0, <3>2 DEF AskLocks, Abort, Release, Goto, TypeOK
      <4> QED
        BY <4>1
    <3> QED
      BY <1>1, <2>2, <3>1, <3>2, WorkIdles
  <2> QED
    BY <2>1, <2>2
<1>2. ASSUME NEW c \in Channels, Process(c) PROVE Requested("REPLICATION", t, k, n)
  <2>1. PICK m \in Message : \E answers : Handles(c, m, answers)
    BY <1>0, <1>2, ProcessHandles
  <2>2. PICK answers : Handles(c, m, answers)
    BY <2>1
  <2>3. Handled(c, m, answers)
    BY <1>0, <2>2, HandlesFrame
  <2> QED
    BY <1>0, <2>3, HandlerFlights
<1> QED
  BY <1>1, <1>2 DEF Next

\* A replication raises the tid of its copy: the copy lags behind the master
\* or has the tid of the one that has the lock.
LEMMA BehindStep ==
  ASSUME LockDiscipline, LockDiscipline', ReadsCurrent, TidsGrow, ReplicasFollow, Next,
         NEW t, NEW k, NEW n, Requested("REPLICATION", t, k, n)'
  PROVE  Behind(t, k, n)'
<1>0. Discipline /\ LocksInv /\ TypeOK /\ Discipline'
  BY DEF LockDiscipline, Discipline
<1>1. /\ t \in Txns /\ k \in Keys /\ n \in Replicas[k]
      /\ stage'[t] = "writing" /\ k \in Writes(t)'
  BY <1>0, ReplicationPlaceNext
<1>2. LifeStep(t) /\ k \in Writes(t) /\ <<n, k>> \in Copies
  BY <1>1, LifeNext, Topology DEF LifeStep
<1>3. CASE Requested("REPLICATION", t, k, n)
  <2>1. Behind(t, k, n)
    BY <1>0, <1>3, FollowByRequest
  <2>2. stage[t] = "writing" /\ Holds(t, k)
    BY <1>0, <1>3, ReplicationPlace
  <2>3. tid'[t] = tid[t]
    BY <1>2, <2>2 DEF LifeStep, HasCommitted
  <2>4. row'[<<n, k>>].tid = row[<<n, k>>].tid
    <3>1. ASSUME NEW u \in Txns, Replicated(u, k, n) PROVE FALSE
      <4>1. Holds(u, k)
        BY <1>0, <3>1, ReplicationPlace DEF Replicated
      <4>2. u = t
        BY <1>0, <1>1, <1>2, <2>2, <4>1, Exclusive
      <4> QED
        BY <3>1, <4>2 DEF Replicated
    <3> QED
      BY <1>1, <3>1, DataNext DEF DataStep, CopiesStep
  <2> QED
    BY <2>1, <2>3, <2>4 DEF Behind
<1>4. CASE Commit(t)
  <2>1. k \in Rows(t)
    BY <1>0, <1>1, <1>2, AccessFacts
  <2>2. /\ MasterRow(k).tid < tid'[t] /\ Holds(t, k) /\ tid'[t] \in Nat
        /\ row'[<<n, k>>].tid = row[<<n, k>>].tid
    BY <1>1, <1>2, <1>4, <2>1, CommitTids
  <2>3. ASSUME NEW u \in Txns, Installing(u, k) PROVE FALSE
    <3>1. u = t
      BY <1>0, <1>1, <1>2, <2>2, <2>3, Exclusive DEF Installing
    <3> QED
      BY <1>4, <2>3, <3>1 DEF Installing, Commit
  <2>4. row[<<n, k>>].tid <= MasterRow(k).tid
    BY <1>1, <2>3 DEF TidsGrow
  <2>5. row[<<n, k>>].tid \in Nat /\ MasterRow(k).tid \in Nat
    BY <1>0, <1>1, <1>2, Topology DEF TypeOK, MasterRow
  <2> QED
    BY <2>2, <2>4, <2>5 DEF Behind
<1> QED
  BY <1>1, <1>3, <1>4, ReplicationAsked

\* A release comes after all the writes.
LEMMA ReleaseArrived ==
  ASSUME LockDiscipline, WritesArrive, NEW t \in Txns, stage[t] = "writing", pend[t] = {}
  PROVE  \A p \in Copies : p[2] \in Writes(t) => row[p].val = t
<1>0. Discipline /\ TypeOK
  BY DEF LockDiscipline, Discipline
<1>1. ASSUME NEW p \in Copies, p[2] \in Writes(t) PROVE row[p].val = t
  <2>1. Arrives(t, p)
    BY <1>0, <1>1, WritesByCopy
  <2>2. TypeAt(p) # "ABORT"
    BY DEF TypeAt
  <2>3. ~Requested(TypeAt(p), t, p[2], p[1])
    BY <1>0, <2>2, RequestedFacts
  <2> QED
    BY <2>1, <2>3 DEF Arrives
<1> QED
  BY <1>1

\* A copy differs from its master only while a writer is at work: what is
\* written is written under the lock, and everywhere before it is released.
LEMMA FollowsStep ==
  ASSUME LockDiscipline, LockDiscipline', WritesArrive, ReplicasFollow, Next, NEW p \in Copies
  PROVE  Follows(p)'
<1>0. Discipline /\ LocksInv /\ TypeOK
  BY DEF LockDiscipline, Discipline
<1>1. PICK k \in Keys : p[2] = k
  BY Topology
<1>2. \A t \in Txns : LifeStep(t) /\ Writes(t)' = Writes(t)
  BY LifeNext DEF LifeStep
<1>3. CASE \E t \in Txns : WrittenBy(t, k)
  BY <1>1, <1>2, <1>3 DEF WrittenBy, Follows
<1>4. CASE ~\E t \in Txns : WrittenBy(t, k)
  <2>1. row'[p].val = row[p].val /\ MasterRow(k)'.val = MasterRow(k).val
    <3>1. PICK q \in Copies : q = <<Master[k], k>> /\ q[2] = k /\ row[q] = MasterRow(k)
                              /\ row'[q] = MasterRow(k)'
      BY Topology DEF MasterRow
    <3>2. row'[q].val = row[q].val
      BY <1>4, <3>1, DataNext DEF DataStep, ValsStep
    <3>3. row'[p].val = row[p].val
      BY <1>1, <1>4, DataNext DEF DataStep, ValsStep
    <3> QED
      BY <3>1, <3>2, <3>3
  <2>2. CASE row[p].val = MasterRow(k).val
    BY <1>1, <2>1, <2>2 DEF Follows
  <2>3. ASSUME NEW t \in Txns, stage[t] = "writing", k \in Writes(t) PROVE Follows(p)'
    <3>1. CASE stage'[t] = "writing"
      BY <1>1, <1>2, <2>3, <3>1 DEF Follows
    <3>2. CASE Release(t)
      <4>1. pend[t] = {}
        BY <3>2 DEF Release
      <4>2. row[p].val = t
        BY <1>1, <2>3, <4>1, ReleaseArrived
      <4>3. MasterRow(k).val = t
        <5>1. PICK q \in Copies : q = <<Master[k], k>> /\ q[2] = k /\ row[q] = MasterRow(k)
          BY Topology DEF MasterRow
        <5> QED
          BY <2>3, <4>1, <5>1, ReleaseArrived
      <4> QED
        BY <1>1, <2>1, <4>2, <4>3 DEF Follows
    <3> QED
      BY <1>2, <2>3, <3>1, <3>2 DEF LifeStep
  <2>4. Follows(p)
    BY <1>0, FollowByRequest
  <2> QED
    BY <1>1, <2>2, <2>3, <2>4 DEF Follows
<1> QED
  BY <1>3, <1>4

\* Both parts of ReplicasFollow.
LEMMA ReplicasFollowStep ==
  ASSUME LockDiscipline, LockDiscipline', ReadsCurrent, WritesArrive, TidsGrow, ReplicasFollow,
         Next
  PROVE  ReplicasFollow'
<1>1. \A t, k, n : Requested("REPLICATION", t, k, n)' => Behind(t, k, n)'
  BY BehindStep
<1>2. \A p \in Copies : Follows(p)'
  BY FollowsStep
<1>3. Discipline' => (ReplicasFollow <=>
        /\ \A t, k, n : Requested("REPLICATION", t, k, n) => Behind(t, k, n)
        /\ \A p \in Copies : Follows(p))'
  BY FollowByRequest, PTL
<1> QED
  BY <1>1, <1>2, <1>3 DEF LockDiscipline

-----------------------------------------------------------------------------
(* The invariant.                                                          *)

\* The invariant holds at the start ...
LEMMA LockingInvInit == Init => LockingInv
<1> SUFFICES ASSUME Init PROVE LockingInv
  OBVIOUS
<1>1. LockDiscipline /\ Discipline
  BY LockDisciplineInit DEF LockDiscipline
<1>2. /\ \A t \in Txns : stage[t] = "waiting"
      /\ \A p \in Copies : row[p].val = NoTxn /\ row[p].tid = 0
      /\ \A k \in Keys : MasterRow(k).val = NoTxn /\ MasterRow(k).tid = 0
  BY Topology DEF Init, FreeWord, MasterRow
<1>3. /\ \A c \in Channels : 1..Len(chan[c]) = {}
      /\ \A type, t, k, n : ~Requested(type, t, k, n)
  BY EmptyChannels
<1>4. ReadsCurrent
  BY <1>2, <1>3 DEF ReadsCurrent
<1>5. WritesArrive
  BY <1>2 DEF WritesArrive
<1>6. TidsGrow
  <2>1. \A t \in Txns, k \in Keys : ~Installing(t, k)
    BY <1>2 DEF Installing
  <2>2. ASSUME NEW k \in Keys, NEW n \in Replicas[k]
        PROVE  row[<<n, k>>].tid <= MasterRow(k).tid
    <3>1. <<n, k>> \in Copies
      BY Topology
    <3>2. row[<<n, k>>].tid = 0 /\ MasterRow(k).tid = 0
      BY <1>2, <3>1
    <3> QED
      BY <3>2
  <2> QED
    BY <2>1, <2>2 DEF TidsGrow
<1>7. ReplicasFollow
  <2>1. \A p \in Copies : Follows(p)
    BY <1>2, Topology DEF Follows
  <2> QED
    BY <1>1, <1>3, <2>1, FollowByRequest
<1> QED
  BY <1>1, <1>4, <1>5, <1>6, <1>7 DEF LockingInv, LockDiscipline

\* ... and every step keeps it.
LEMMA LockingInvStep == LockingInv /\ [Next]_vars => LockingInv'
<1> SUFFICES ASSUME LockingInv, [Next]_vars PROVE LockingInv'
  OBVIOUS
<1>1. LockDiscipline /\ ReadsCurrent /\ WritesArrive /\ TidsGrow /\ ReplicasFollow
  BY DEF LockingInv, LockDiscipline
<1>2. LockDiscipline'
  BY <1>1, LockDisciplineStep
<1>3. CASE Next
  <2>1. ReadsCurrent' /\ WritesArrive' /\ TidsGrow'
    BY <1>1, <1>2, <1>3, ReadsCurrentStep, WritesArriveStep, TidsGrowStep
  <2>2. ReplicasFollow'
    BY <1>1, <1>2, <1>3, ReplicasFollowStep
  <2> QED
    BY <1>2, <2>1, <2>2 DEF LockingInv, LockDiscipline
<1>4. CASE UNCHANGED vars
  <2>0. UNCHANGED <<prog, stage, tried, held, failed, seen, seenTid, tid, maxTid, pend, row, chan>>
    BY <1>4 DEF vars
  <2>1. ReadsCurrent'
    BY <1>1, <2>0 DEF ReadsCurrent, MasterRow
  <2>2. /\ \A type, t, k, n : Requested(type, t, k, n)' <=> Requested(type, t, k, n)
        /\ \A t : Rows(t)' = Rows(t) /\ Writes(t)' = Writes(t)
    <3>1. \A type, t, k, n : Requested(type, t, k, n)' <=> Requested(type, t, k, n)
      BY <2>0 DEF Requested
    <3> QED
      BY <2>0, <3>1, ProgramsFixed
  <2>3. WritesArrive'
    BY <1>1, <2>0, <2>2 DEF WritesArrive, MasterRow
  <2>4. \A t, k : Installing(t, k)' <=> Installing(t, k)
    BY <2>0 DEF Installing, Holds, Granted, Requested, Writes
  <2>5. TidsGrow'
    BY <1>1, <2>0, <2>4 DEF TidsGrow, MasterRow
  <2>6. ReplicasFollow'
    BY <1>1, <2>0 DEF ReplicasFollow, InFlight, Writes
  <2> QED
    BY <1>2, <2>1, <2>3, <2>5, <2>6 DEF LockingInv, LockDiscipline
<1> QED
  BY <1>3, <1>4

\* The inductive invariant: the discipline of requests and answers, the
\* counts of the locks, the currency of reads, the arrival of writes and the
\* growth of tids hold together in every state of every cluster.
THEOREM LockingInvHolds == Spec => []LockingInv
BY LockingInvInit, LockingInvStep, PTL DEF Spec

\* The tids of a copy grow, as replication_request_handler asserts, and a
\* copy holds what its master holds unless a writer of the row is still at
\* work, in every state of every cluster.
THEOREM ReplicasFollowHolds == Spec => []ReplicasFollow
<1>1. LockingInv => ReplicasFollow
  BY DEF LockingInv
<1> QED
  BY <1>1, LockingInvHolds, PTL

-----------------------------------------------------------------------------
(* Transactions are serializable in the order of their commits.            *)

\* Who has committed and still writes the row; there is one at most.
Writing(t, k) == stage[t] = "writing" /\ k \in Writes(t)

\* The lock excludes a second writer.
LEMMA WritingAlone ==
  LockDiscipline => \A t, u \in Txns, k \in Keys :
    Writing(t, k) => Holds(t, k) /\ (Holds(u, k) => u = t) /\ (Writing(u, k) => u = t)
<1> SUFFICES ASSUME LockDiscipline
             PROVE  \A t, u \in Txns, k \in Keys : Writing(t, k) =>
                      Holds(t, k) /\ (Holds(u, k) => u = t) /\ (Writing(u, k) => u = t)
  OBVIOUS
<1>0. Discipline /\ LocksInv /\ TypeOK
  BY DEF LockDiscipline, Discipline
<1>1. \A t \in Txns, k \in Keys : Writing(t, k) => Holds(t, k) /\ k \in Writes(t)
  BY <1>0, AllHeld, AccessFacts DEF Writing
<1>2. ASSUME NEW t \in Txns, NEW u \in Txns, NEW k \in Keys, Writing(t, k), Holds(u, k)
      PROVE  u = t
  BY <1>0, <1>1, <1>2, Exclusive
<1> QED
  BY <1>1, <1>2

\* The abstract store holds what its writer writes, and otherwise what the
\* master holds.
LEMMA StoreFacts ==
  LockDiscipline => \A k \in Keys :
    /\ (\A t \in Txns : ~Writing(t, k)) => Store[k] = MasterRow(k).val
    /\ \A t \in Txns : Writing(t, k) => Store[k] = t
<1> SUFFICES ASSUME LockDiscipline, NEW k \in Keys
             PROVE  /\ (\A t \in Txns : ~Writing(t, k)) => Store[k] = MasterRow(k).val
                    /\ \A t \in Txns : Writing(t, k) => Store[k] = t
  OBVIOUS
<1> DEFINE W == {t \in Txns : stage[t] = "writing" /\ k \in Writes(t)}
<1>1. Store[k] = IF W = {} THEN MasterRow(k).val ELSE CHOOSE t \in W : TRUE
  BY DEF Store, MasterRow
<1>2. \A t : t \in W <=> t \in Txns /\ Writing(t, k)
  BY DEF Writing
<1>3. ASSUME NEW t \in Txns, Writing(t, k) PROVE Store[k] = t
  <2>1. W = {t}
    BY <1>2, <1>3, WritingAlone
  <2> HIDE DEF W
  <2> QED
    BY <1>1, <2>1
<1>4. ASSUME \A t \in Txns : ~Writing(t, k) PROVE Store[k] = MasterRow(k).val
  <2>1. W = {}
    BY <1>2, <1>4
  <2> HIDE DEF W
  <2> QED
    BY <1>1, <2>1
<1> QED
  BY <1>3, <1>4

\* The same, after a step.
LEMMA StoreFactsNext ==
  LockDiscipline' => (\A k \in Keys :
    /\ (\A t \in Txns : ~Writing(t, k)) => Store[k] = MasterRow(k).val
    /\ \A t \in Txns : Writing(t, k) => Store[k] = t)'
BY StoreFacts, PTL

\* A commit writes the store, and nothing else changes it: neither the
\* messages that carry the writes about nor the release.
LEMMA StoreStep ==
  ASSUME LockDiscipline, LockDiscipline', WritesArrive, Next, NEW k \in Keys
  PROVE  /\ \A t \in Txns : Commit(t) /\ k \in Writes(t) => Store'[k] = t
         /\ (\A t \in Txns : ~(Commit(t) /\ k \in Writes(t))) => Store'[k] = Store[k]
<1>0. TypeOK
  BY DEF LockDiscipline, Discipline
<1>1. \A t \in Txns : LifeStep(t) /\ Writes(t)' = Writes(t)
  BY LifeNext DEF LifeStep
<1>2. /\ (\A t \in Txns : ~Writing(t, k)') => Store'[k] = MasterRow(k)'.val
      /\ \A t \in Txns : Writing(t, k)' => Store'[k] = t
  BY StoreFactsNext
<1>3. ASSUME NEW t \in Txns, Commit(t), k \in Writes(t) PROVE Store'[k] = t
  <2>1. stage'[t] = "writing"
    BY <1>0, <1>3 DEF Commit, Goto, TypeOK
  <2>2. Writing(t, k)'
    BY <1>1, <1>3, <2>1 DEF Writing
  <2> QED
    BY <1>2, <2>2
<1>4. ASSUME \A t \in Txns : ~(Commit(t) /\ k \in Writes(t)) PROVE Store'[k] = Store[k]
  <2>1. \A t \in Txns : Writing(t, k)' => Writing(t, k)
    BY <1>1, <1>4 DEF Writing, LifeStep
  <2>2. ASSUME NEW t \in Txns, Writing(t, k)' PROVE Store'[k] = Store[k]
    BY <1>2, <2>1, <2>2, StoreFacts
  <2>3. CASE \A t \in Txns : ~Writing(t, k)'
    <3>1. PICK q \in Copies : q = <<Master[k], k>> /\ q[2] = k /\ row[q] = MasterRow(k)
                              /\ row'[q] = MasterRow(k)'
      BY Topology DEF MasterRow
    <3>2. MasterRow(k)'.val = MasterRow(k).val
      <4>1. \A t \in Txns : ~WrittenBy(t, k)
        BY <1>1, <2>3 DEF WrittenBy, Writing
      <4> QED
        BY <3>1, <4>1, DataNext DEF DataStep, ValsStep
    <3>3. CASE \A t \in Txns : ~Writing(t, k)
      BY <1>2, <2>3, <3>2, <3>3, StoreFacts
    <3>4. ASSUME NEW t \in Txns, Writing(t, k) PROVE Store'[k] = Store[k]
      <4>1. stage[t] = "writing" /\ k \in Writes(t)
        BY <3>4 DEF Writing
      <4>2. Release(t)
        BY <1>1, <2>3, <4>1 DEF LifeStep, Writing
      <4>3. MasterRow(k).val = t
        BY <3>1, <4>1, <4>2, ReleaseArrived DEF Release
      <4>4. Store[k] = t
        BY <3>4, StoreFacts
      <4> QED
        BY <1>2, <2>3, <3>2, <4>3, <4>4
    <3> QED
      BY <3>3, <3>4
  <2> QED
    BY <2>2, <2>3
<1> QED
  BY <1>3, <1>4

\* What a transaction has read, once it has committed.
ResultOf(t) ==
  IF HasCommitted(t) THEN [k \in Rows(t) |-> seen[t][k]] ELSE [k \in {} |-> NoTxn]

\* The results of all transactions, one by one.
LEMMA Results ==
  Result = [t \in Txns |-> ResultOf(t)] /\ Result' = [t \in Txns |-> ResultOf(t)']
BY DEF Result, ResultOf

\* Nothing but a commit changes a result.
LEMMA ResultStep ==
  ASSUME LockDiscipline, Next, NEW t \in Txns, ~Commit(t)
  PROVE  ResultOf(t)' = ResultOf(t)
<1>1. LifeStep(t)
  BY LifeNext
<1> QED
  BY <1>1 DEF LifeStep, ResultOf

\* The commit of a transaction is its commit in the serial store: what it
\* has read is what the store holds at this instant.
LEMMA CommitIsSerial ==
  ASSUME LockingInv, LockDiscipline', Next, NEW t \in Txns, Commit(t)
  PROVE  Serial!Commit(t)
<1>0. LockDiscipline /\ Discipline /\ TypeOK /\ WaitsOK /\ ReadsCurrent /\ WritesArrive
  BY DEF LockingInv, LockDiscipline, Discipline
<1>1. stage[t] = "asked" /\ stage'[t] = "writing" /\ seen' = seen
  BY <1>0 DEF Commit, Goto, TypeOK
<1>2. prog' = prog /\ Others(t)
  BY <1>0, WorkFrame DEF Work
<1>3. \A u \in Txns : Commit(u) => u = t
  <2> SUFFICES ASSUME NEW u \in Txns, Commit(u), u # t PROVE FALSE
    OBVIOUS
  <2>1. stage[u] = "asked" /\ stage'[u] = "writing"
    BY <1>0 DEF Commit, Goto, TypeOK
  <2> QED
    BY <1>2, <2>1 DEF Others
<1>4. Result[t] = Serial!Nothing
  BY <1>1 DEF Result, HasCommitted, Serial!Nothing
<1>5. Serial!Rows(t) = Rows(t) /\ Rows(t) # {} /\ Rows(t) \subseteq Keys
  BY <1>0, AccessFacts DEF Serial!Rows, Rows, Reads, Writes
<1>6. ResultOf(t)' = [k \in Rows(t) |-> Store[k]]
  <2>1. HasCommitted(t)' /\ Rows(t)' = Rows(t)
    BY <1>0, LifeNext DEF LifeStep
  <2>2. \A k \in Rows(t) : seen'[t][k] = Store[k]
    <3> SUFFICES ASSUME NEW k \in Rows(t) PROVE seen'[t][k] = Store[k]
      OBVIOUS
    <3>1. Holds(t, k) /\ seen[t][k] = MasterRow(k).val
      BY <1>0, CommitTids
    <3>2. \A u \in Txns : ~Writing(u, k)
      BY <1>0, <1>1, <1>5, <3>1, WritingAlone DEF Writing
    <3>3. Store[k] = MasterRow(k).val
      BY <1>0, <1>5, <3>2, StoreFacts
    <3> QED
      BY <1>1, <3>1, <3>3
  <2> QED
    BY <2>1, <2>2 DEF ResultOf
<1>7. Result' = [Result EXCEPT ![t] = [k \in Rows(t) |-> Store[k]]]
  <2>1. \A u \in Txns : u # t => ResultOf(u)' = ResultOf(u)
    BY <1>0, <1>3, ResultStep
  <2> QED
    BY <1>6, <2>1, Results
<1>8. Store' = [k \in Keys |-> IF k \in Writes(t) THEN t ELSE Store[k]]
  <2>1. \A k \in Keys : Store'[k] = IF k \in Writes(t) THEN t ELSE Store[k]
    BY <1>0, <1>3, StoreStep
  <2>2. Store' = [k \in Keys |-> Store'[k]]
    BY DEF Store
  <2> QED
    BY <2>1, <2>2
<1> QED
  BY <1>2, <1>4, <1>5, <1>7, <1>8 DEF Serial!Commit, Writes

\* Two-phase locking implements the serial store: each transaction commits at
\* one instant, at which it reads what the last commits have written of its
\* rows, in every run of every cluster.
THEOREM ImplementsSerialStoreHolds == Spec => ImplementsSerialStore
<1>1. Init => Serial!Init
  <2> SUFFICES ASSUME Init PROVE Serial!Init
    OBVIOUS
  <2>1. \A t \in Txns : stage[t] = "waiting"
    BY DEF Init
  <2>2. Store = [k \in Keys |-> NoTxn]
    <3>1. \A k \in Keys : Store[k] = NoTxn
      <4>1. \A t \in Txns, k \in Keys : ~Writing(t, k)
        BY <2>1 DEF Writing
      <4>2. \A k \in Keys : MasterRow(k).val = NoTxn
        BY Topology DEF Init, FreeWord, MasterRow
      <4> QED
        BY <4>1, <4>2, StoreFacts, LockDisciplineInit
    <3>2. Store = [k \in Keys |-> Store[k]]
      BY DEF Store
    <3> QED
      BY <3>1, <3>2
  <2>3. Result = [t \in Txns |-> Serial!Nothing]
    BY <2>1 DEF Result, HasCommitted, Serial!Nothing
  <2> QED
    BY <2>2, <2>3 DEF Serial!Init, Init
<1>2. LockingInv /\ LockingInv' /\ [Next]_vars
        => [\E t \in Txns : Serial!Commit(t)]_<<prog, Store, Result>>
  <2> SUFFICES ASSUME LockingInv, LockingInv', [Next]_vars
               PROVE  [\E t \in Txns : Serial!Commit(t)]_<<prog, Store, Result>>
    OBVIOUS
  <2>0. LockDiscipline /\ LockDiscipline' /\ WritesArrive
    BY DEF LockingInv, LockDiscipline
  <2>1. ASSUME Next, NEW t \in Txns, Commit(t) PROVE Serial!Commit(t)
    BY <2>0, <2>1, CommitIsSerial
  <2>2. ASSUME Next, \A t \in Txns : ~Commit(t) PROVE UNCHANGED <<prog, Store, Result>>
    <3>1. \A k \in Keys : Store'[k] = Store[k]
      BY <2>0, <2>2, StoreStep
    <3>2. Store = [k \in Keys |-> Store[k]] /\ Store' = [k \in Keys |-> Store'[k]]
      BY DEF Store
    <3>3. \A t \in Txns : ResultOf(t)' = ResultOf(t)
      BY <2>0, <2>2, ResultStep
    <3>4. Store' = Store
      BY <3>1, <3>2
    <3>5. Result' = Result
      BY <3>3, Results
    <3> QED
      BY <2>0, <2>2, <3>4, <3>5, LifeNext
  <2>3. CASE UNCHANGED vars
    BY <2>3 DEF vars, Store, Result, HasCommitted, Rows, Reads, Writes
  <2> QED
    BY <2>1, <2>2, <2>3
<1> QED
  BY <1>1, <1>2, LockingInvHolds, PTL DEF Spec, ImplementsSerialStore, Serial!Spec
=============================================================================
