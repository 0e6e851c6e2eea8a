-------------------------- MODULE ProdccBlock_proofs --------------------------
(***************************************************************************)
(* Proofs about ProdccBlock, for every cluster, schedule and program.      *)
(***************************************************************************)
EXTENDS ProdccBlockInv, FiniteSetTheorems, TLAPS

\* flush_messages writes the requests of one destination one after the other,
\* each once.
LEMMA SetToSeqFacts ==
  ASSUME NEW S, IsFiniteSet(S)
  PROVE  /\ SetToSeq(S) \in Seq(S)
         /\ \A x \in S : \E i \in 1..Len(SetToSeq(S)) : SetToSeq(S)[i] = x
         /\ \A i, j \in 1..Len(SetToSeq(S)) :
              SetToSeq(S)[i] = SetToSeq(S)[j] => i = j
<1> DEFINE n == Cardinality(S)
<1>1. n \in Nat /\ ExistsBijection(1..n, S)
  BY FS_CardinalityType
<1>2. PICK g \in Bijection(1..n, S) : TRUE
  BY <1>1 DEF ExistsBijection
<1>3. g \in [1..n -> S] /\ IsInjective(g)
  BY <1>2 DEF Bijection, Injection
<1>4. SetToSeq(S) \in [1..n -> S] /\ IsInjective(SetToSeq(S))
  BY <1>3 DEF SetToSeq
<1>5. SetToSeq(S) \in Seq(S) /\ Len(SetToSeq(S)) = n
  BY <1>1, <1>4
<1>6. IsFiniteSet(1..n) /\ Cardinality(1..n) = n
  BY <1>1, FS_Interval
<1>7. SetToSeq(S) \in Surjection(1..n, S)
  BY <1>4, <1>6, FS_Injection DEF Injection
<1> QED
  BY <1>1, <1>4, <1>5, <1>7 DEF IsInjective, Surjection

\* A row is asked for once: the requests of a transaction are finitely many
\* and tell each other apart by their ids.
LEMMA RequestsFacts ==
  ASSUME NEW type \in Types, NEW t \in Txns, NEW keys \in SUBSET Keys,
         NEW write \in BOOLEAN
  PROVE  /\ Requests(type, t, keys, write) \subseteq Message
         /\ IsFiniteSet(Requests(type, t, keys, write))
<1> DEFINE R == Requests(type, t, keys, write)
           Req(k) == [type |-> type, answer |-> FALSE, txn |-> t, key |-> k,
                      write |-> write, val |-> NoTxn, found |-> {}]
           f == [k \in keys |-> Req(k)]
<1>1. R = {Req(k) : k \in keys}
  BY DEF Requests
<1>2. R \subseteq Message
  <2>1. ASSUME NEW k \in Keys PROVE Req(k) \in Message
    BY DEF Message
  <2> HIDE DEF Req
  <2> QED
    BY <1>1, <2>1
<1>3. f \in Surjection(keys, R)
  BY <1>1 DEF Surjection
<1>4. IsFiniteSet(keys)
  BY TopologyAssumption, FS_Subset
<1>5. IsFiniteSet(R)
  <2> HIDE DEF f, R
  <2> QED
    BY <1>3, <1>4, FS_Surjection
<1> QED
  BY <1>2, <1>5

\* What Send does to the channels: the old messages stay where they are, the
\* new ones follow, each once and on the channel it is routed to.
Extended(msgs) ==
  /\ chan' \in [Channels -> Seq(Message)]
  /\ \A c \in Channels : \A i \in 1..Len(chan[c]) :
       i \in 1..Len(chan'[c]) /\ chan'[c][i] = chan[c][i]
  /\ \A c \in Channels : \A i \in 1..Len(chan'[c]) :
       \/ i \in 1..Len(chan[c])
       \/ i > Len(chan[c]) /\ chan'[c][i] \in msgs /\ Route(chan'[c][i]) = c
  /\ \A c \in Channels : \A i, j \in 1..Len(chan'[c]) :
       i > Len(chan[c]) /\ j > Len(chan[c]) /\ chan'[c][i] = chan'[c][j] => i = j
  /\ \A m \in msgs : Route(m) \in Channels =>
       \E i \in 1..Len(chan'[Route(m)]) : chan'[Route(m)][i] = m

\* Sending adds the messages behind those in the queues, each to its route
\* and once.
LEMMA SendFacts ==
  ASSUME chan \in [Channels -> Seq(Message)], NEW msgs \in SUBSET Message,
         IsFiniteSet(msgs), Send(msgs)
  PROVE  Extended(msgs)
<1> DEFINE S(c) == SetToSeq({m \in msgs : Route(m) = c})
<1>1. \A c \in Channels : chan'[c] = chan[c] \o S(c)
  BY DEF Send
<1>2. \A c : /\ S(c) \in Seq(Message) /\ Len(S(c)) \in Nat
             /\ \A i \in 1..Len(S(c)) : S(c)[i] \in msgs /\ Route(S(c)[i]) = c
             /\ \A m \in msgs : Route(m) = c => \E i \in 1..Len(S(c)) : S(c)[i] = m
             /\ \A i, j \in 1..Len(S(c)) : S(c)[i] = S(c)[j] => i = j
  <2> TAKE c
  <2> DEFINE T == {m \in msgs : Route(m) = c}
             s == SetToSeq(T)
  <2>1. IsFiniteSet(T)
    BY FS_Subset
  <2> HIDE DEF T
  <2>2. /\ s \in Seq(T)
        /\ \A x \in T : \E i \in 1..Len(s) : s[i] = x
        /\ \A i, j \in 1..Len(s) : s[i] = s[j] => i = j
    BY <2>1, SetToSeqFacts
  <2> HIDE DEF s
  <2>3. Len(s) \in Nat /\ \A i \in 1..Len(s) : s[i] \in T
    BY <2>2
  <2>4. s \in Seq(Message)
    BY <2>2, <2>3 DEF T
  <2> QED
    BY <2>2, <2>3, <2>4 DEF T, s
<1> HIDE DEF S
<1>3. \A c \in Channels : S(c) \in Seq(Message) /\ Len(S(c)) \in Nat
  BY <1>2
<1>4. \A c \in Channels : /\ Len(chan[c]) \in Nat
                          /\ Len(chan'[c]) = Len(chan[c]) + Len(S(c))
                          /\ chan'[c] \in Seq(Message)
  <2> TAKE c \in Channels
  <2>1. chan[c] \in Seq(Message) /\ S(c) \in Seq(Message) /\ chan'[c] = chan[c] \o S(c)
    BY <1>1, <1>3
  <2> QED
    BY <2>1
<1>5. chan' \in [Channels -> Seq(Message)]
  BY <1>4 DEF Send
<1>6. \A c \in Channels : \A i \in 1..Len(chan[c]) :
        i \in 1..Len(chan'[c]) /\ chan'[c][i] = chan[c][i]
  BY <1>1, <1>3, <1>4
<1>7. \A c \in Channels : \A i \in 1..Len(chan'[c]) : i > Len(chan[c]) =>
        /\ i - Len(chan[c]) \in 1..Len(S(c))
        /\ chan'[c][i] = S(c)[i - Len(chan[c])]
  BY <1>1, <1>3, <1>4
<1>8. \A c \in Channels : \A i \in 1..Len(S(c)) :
        S(c)[i] \in msgs /\ Route(S(c)[i]) = c
  BY <1>2
<1>9. \A c \in Channels : \A i \in 1..Len(S(c)) :
        /\ Len(chan[c]) + i \in 1..Len(chan'[c])
        /\ chan'[c][Len(chan[c]) + i] = S(c)[i]
  BY <1>1, <1>3, <1>4
<1>10. \A c \in Channels : \A i \in 1..Len(chan'[c]) :
         \/ i \in 1..Len(chan[c])
         \/ i > Len(chan[c]) /\ chan'[c][i] \in msgs /\ Route(chan'[c][i]) = c
  BY <1>4, <1>7, <1>8
<1>11. \A c \in Channels : \A i, j \in 1..Len(chan'[c]) :
         i > Len(chan[c]) /\ j > Len(chan[c]) /\ chan'[c][i] = chan'[c][j] => i = j
  <2> TAKE c \in Channels
  <2> TAKE i, j \in 1..Len(chan'[c])
  <2> HAVE i > Len(chan[c]) /\ j > Len(chan[c]) /\ chan'[c][i] = chan'[c][j]
  <2>0. S(c)[i - Len(chan[c])] = S(c)[j - Len(chan[c])]
    BY <1>7
  <2>1. i - Len(chan[c]) = j - Len(chan[c])
    BY <2>0, <1>2, <1>7
  <2> QED
    BY <2>1, <1>4
<1>12. \A m \in msgs : Route(m) \in Channels =>
         \E i \in 1..Len(chan'[Route(m)]) : chan'[Route(m)][i] = m
  <2> SUFFICES ASSUME NEW m \in msgs, Route(m) \in Channels
               PROVE  \E i \in 1..Len(chan'[Route(m)]) : chan'[Route(m)][i] = m
    OBVIOUS
  <2>1. PICK i \in 1..Len(S(Route(m))) : S(Route(m))[i] = m
    BY <1>2
  <2> QED
    BY <2>1, <1>9
<1> QED
  BY <1>5, <1>6, <1>10, <1>11, <1>12 DEF Extended

\* What taking the head of c does to the channels: every other message keeps
\* its place in the queue, and an answer, if there is one, ends up at the end
\* of the way back.
Off(c, d) == IF c = d THEN 1 ELSE 0

Taken(c, answers) ==
  /\ chan' \in [Channels -> Seq(Message)]
  /\ \A d \in Channels : \A i \in 1..Len(chan'[d]) :
       \/ i + Off(c, d) \in 1..Len(chan[d]) /\ chan'[d][i] = chan[d][i + Off(c, d)]
       \/ d = Back(c) /\ i = Len(chan[d]) + 1 /\ chan'[d][i] \in answers
  /\ \A d \in Channels : \A i \in 1..Len(chan[d]) :
       \/ d = c /\ i = 1
       \/ i - Off(c, d) \in 1..Len(chan'[d]) /\ chan'[d][i - Off(c, d)] = chan[d][i]

\* The way back leads to another channel, and back again.
LEMMA BackFacts ==
  ASSUME NEW c \in Channels
  PROVE  Back(c) \in Channels /\ Back(c) # c /\ Back(Back(c)) = c
BY DEF Channels, Back

\* What is left of a queue without its head.
LEMMA TailFacts ==
  ASSUME NEW T, NEW s \in Seq(T), s # <<>>
  PROVE  /\ Tail(s) \in Seq(T) /\ Len(Tail(s)) = Len(s) - 1
         /\ Len(s) \in Nat \ {0}
         /\ Head(s) = s[1] /\ s[1] \in T
         /\ \A i \in 1..Len(s) - 1 : Tail(s)[i] = s[i + 1]
OBVIOUS

\* A handler that does not answer only takes the head.
LEMMA DropFacts ==
  ASSUME chan \in [Channels -> Seq(Message)], NEW c \in Channels,
         chan[c] # <<>>, Drop(c)
  PROVE  Taken(c, {})
<1>1. \A d \in Channels : chan[d] \in Seq(Message) /\ Len(chan[d]) \in Nat
  OBVIOUS
<1>2. /\ Tail(chan[c]) \in Seq(Message) /\ Len(Tail(chan[c])) = Len(chan[c]) - 1
      /\ Len(chan[c]) \in Nat \ {0}
      /\ \A i \in 1..Len(chan[c]) - 1 : Tail(chan[c])[i] = chan[c][i + 1]
  BY <1>1, TailFacts
<1>3. chan'[c] = Tail(chan[c]) /\ \A d \in Channels : d # c => chan'[d] = chan[d]
  BY DEF Drop
<1>4. chan' \in [Channels -> Seq(Message)]
  BY <1>2 DEF Drop
<1>5. ASSUME NEW d \in Channels, NEW i \in 1..Len(chan'[d])
      PROVE  i + Off(c, d) \in 1..Len(chan[d]) /\ chan'[d][i] = chan[d][i + Off(c, d)]
  <2>1. CASE d = c
    <3>1. Off(c, d) = 1 /\ chan'[d] = Tail(chan[c]) /\ i \in 1..Len(chan[c]) - 1
      BY <1>2, <1>3, <2>1 DEF Off
    <3>2. i + 1 \in 1..Len(chan[c]) /\ Tail(chan[c])[i] = chan[c][i + 1]
      BY <1>2, <3>1
    <3> QED
      BY <2>1, <3>1, <3>2
  <2>2. CASE d # c
    BY <1>1, <1>3, <2>2 DEF Off
  <2> QED
    BY <2>1, <2>2
<1>6. ASSUME NEW d \in Channels, NEW i \in 1..Len(chan[d]), ~(d = c /\ i = 1)
      PROVE  i - Off(c, d) \in 1..Len(chan'[d]) /\ chan'[d][i - Off(c, d)] = chan[d][i]
  <2>1. CASE d = c
    <3>1. i - 1 \in 1..Len(chan[c]) - 1
      BY <1>2, <1>6, <2>1
    <3> QED
      BY <1>2, <1>3, <2>1, <3>1, SMTT(30) DEF Off
  <2>2. CASE d # c
    BY <1>1, <1>3, <2>2 DEF Off
  <2> QED
    BY <2>1, <2>2
<1> QED
  BY <1>4, <1>5, <1>6 DEF Taken

\* A handler that answers takes the head and appends the answer on the way
\* back.
LEMMA ReplyFacts ==
  ASSUME chan \in [Channels -> Seq(Message)], NEW c \in Channels,
         chan[c] # <<>>, NEW m \in Message,
         NEW val \in Txns \cup {NoTxn}, NEW found \in SUBSET Flags,
         Reply(c, m, val, found)
  PROVE  /\ [m EXCEPT !.answer = TRUE, !.val = val, !.found = found] \in Message
         /\ Taken(c, {[m EXCEPT !.answer = TRUE, !.val = val, !.found = found]})
<1> DEFINE a == [m EXCEPT !.answer = TRUE, !.val = val, !.found = found]
           b == Back(c)
<1>0. a \in Message
  BY DEF Message
<1> HIDE DEF a
<1>1. \A d \in Channels : chan[d] \in Seq(Message) /\ Len(chan[d]) \in Nat
  OBVIOUS
<1>2. /\ Tail(chan[c]) \in Seq(Message) /\ Len(Tail(chan[c])) = Len(chan[c]) - 1
      /\ Len(chan[c]) \in Nat \ {0}
      /\ \A i \in 1..Len(chan[c]) - 1 : Tail(chan[c])[i] = chan[c][i + 1]
  BY <1>1, TailFacts
<1>3. b \in Channels /\ b # c
  BY BackFacts
<1>4. /\ chan'[c] = Tail(chan[c]) /\ chan'[b] = Append(chan[b], a)
      /\ \A d \in Channels : d # c /\ d # b => chan'[d] = chan[d]
  BY <1>3 DEF Reply, a
<1>5. /\ Append(chan[b], a) \in Seq(Message)
      /\ Len(Append(chan[b], a)) = Len(chan[b]) + 1
      /\ \A i \in 1..Len(chan[b]) : Append(chan[b], a)[i] = chan[b][i]
      /\ Append(chan[b], a)[Len(chan[b]) + 1] = a
  BY <1>0, <1>1, <1>3
<1>6. chan' \in [Channels -> Seq(Message)]
  BY <1>2, <1>3, <1>5 DEF Reply, a
<1>7. ASSUME NEW d \in Channels, NEW i \in 1..Len(chan'[d])
      PROVE  \/ i + Off(c, d) \in 1..Len(chan[d]) /\ chan'[d][i] = chan[d][i + Off(c, d)]
             \/ d = b /\ i = Len(chan[d]) + 1 /\ chan'[d][i] \in {a}
  <2>1. CASE d = c
    <3>1. Off(c, d) = 1 /\ chan'[d] = Tail(chan[c]) /\ i \in 1..Len(chan[c]) - 1
      BY <1>2, <1>4, <2>1 DEF Off
    <3>2. i + 1 \in 1..Len(chan[c]) /\ Tail(chan[c])[i] = chan[c][i + 1]
      BY <1>2, <3>1
    <3> QED
      BY <2>1, <3>1, <3>2
  <2>2. CASE d = b
    BY <1>1, <1>3, <1>4, <1>5, <2>2 DEF Off
  <2>3. CASE d # c /\ d # b
    BY <1>1, <1>4, <2>3 DEF Off
  <2> QED
    BY <2>1, <2>2, <2>3
<1>8. ASSUME NEW d \in Channels, NEW i \in 1..Len(chan[d]), ~(d = c /\ i = 1)
      PROVE  i - Off(c, d) \in 1..Len(chan'[d]) /\ chan'[d][i - Off(c, d)] = chan[d][i]
  <2>1. CASE d = c
    <3>1. i - 1 \in 1..Len(chan[c]) - 1
      BY <1>2, <1>8, <2>1
    <3>2. Off(c, d) = 1 /\ chan'[d] = Tail(chan[c])
      BY <1>4, <2>1 DEF Off
    <3>3. Tail(chan[c])[i - 1] = chan[c][(i - 1) + 1] /\ (i - 1) + 1 = i
      BY <1>2, <3>1
    <3> QED
      BY <1>2, <2>1, <3>1, <3>2, <3>3
  <2>2. CASE d = b
    BY <1>1, <1>3, <1>4, <1>5, <2>2 DEF Off
  <2>3. CASE d # c /\ d # b
    BY <1>1, <1>4, <2>3 DEF Off
  <2> QED
    BY <2>1, <2>2, <2>3
<1> QED
  BY <1>0, <1>6, <1>7, <1>8 DEF Taken, a

-----------------------------------------------------------------------------
(* Type correctness.                                                       *)

\* An epoch that fits its field is stored as it is.
LEMMA StoredEpochFacts ==
  ASSUME NEW e \in Nat
  PROVE  StoredEpoch(e) \in Nat /\ (e < EpochModulus => StoredEpoch(e) = e)
BY EpochModulusAssumption DEF StoredEpoch

\* Reserving keeps a word a word.
LEMMA ReserveTypes ==
  ASSUME NEW w \in Word, NEW e \in Nat, NEW tid \in Nat
  PROVE  ReserveRead(w, e, tid) \in Word /\ ReserveWrite(w, e, tid) \in Word
BY StoredEpochFacts DEF ReserveRead, ReserveWrite, Word

\* The numbers of a transaction.
LEMMA ConstantTypes ==
  ASSUME NEW t \in Txns
  PROVE  BlockOf[t] \in Nat /\ Epoch(t) \in Nat \ {0} /\ Tid[t] \in Nat \ {0}
BY ScheduleAssumption, TidAssumption DEF Epoch

\* A transaction accesses rows.
LEMMA AccessTypes ==
  ASSUME TypeOK, NEW t \in Txns
  PROVE  Reads(t) \subseteq Keys /\ Writes(t) \subseteq Keys
BY DEF TypeOK, Program, Reads, Writes

\* The messages that one transaction sends have their type.
LEMMA MessageTypes ==
  ASSUME TypeOK, NEW t \in Txns, NEW type \in Types,
         NEW r \in SUBSET Reads(t), NEW w \in SUBSET Writes(t)
  PROVE  LET msgs == Requests(type, t, Remote(t, r), FALSE) \cup
                     Requests(type, t, Remote(t, w), TRUE)
         IN  /\ msgs \in SUBSET Message
             /\ IsFiniteSet(msgs)
             /\ Ids(msgs) \subseteq Types \X Keys \X BOOLEAN
<1>1. Remote(t, r) \in SUBSET Keys /\ Remote(t, w) \in SUBSET Keys
  BY AccessTypes DEF Remote
<1>2. /\ Requests(type, t, Remote(t, r), FALSE) \subseteq Message
      /\ Requests(type, t, Remote(t, w), TRUE) \subseteq Message
      /\ IsFiniteSet(Requests(type, t, Remote(t, r), FALSE))
      /\ IsFiniteSet(Requests(type, t, Remote(t, w), TRUE))
  BY <1>1, RequestsFacts
<1>3. \A m \in Message : Id(m) \in Types \X Keys \X BOOLEAN
  BY DEF Message, Id
<1>4. IsFiniteSet(Requests(type, t, Remote(t, r), FALSE) \cup
                  Requests(type, t, Remote(t, w), TRUE))
  BY <1>2, FS_Union
<1> QED
  BY <1>2, <1>3, <1>4 DEF Ids

\* Execute only searches, Commit only writes.
LEMMA NoRequests ==
  ASSUME NEW type, NEW t, NEW write
  PROVE  Requests(type, t, Remote(t, {}), write) = {}
BY DEF Requests, Remote

\* Asking keeps the queues and the ids that are waited for well typed.
LEMMA AskTypes ==
  ASSUME TypeOK, NEW t \in Txns, NEW type \in Types,
         NEW r \in SUBSET Reads(t), NEW w \in SUBSET Writes(t),
         Ask(t, Requests(type, t, Remote(t, r), FALSE) \cup
                Requests(type, t, Remote(t, w), TRUE))
  PROVE  /\ chan' \in [Channels -> Seq(Message)]
         /\ pend' \in [Txns -> SUBSET (Types \X Keys \X BOOLEAN)]
<1> DEFINE msgs == Requests(type, t, Remote(t, r), FALSE) \cup
                   Requests(type, t, Remote(t, w), TRUE)
<1>1. /\ msgs \in SUBSET Message /\ IsFiniteSet(msgs)
      /\ Ids(msgs) \subseteq Types \X Keys \X BOOLEAN
  BY MessageTypes
<1> HIDE DEF msgs
<1>2. Ask(t, msgs)
  BY DEF msgs
<1>3. Extended(msgs)
  BY <1>1, <1>2, SendFacts DEF Ask, TypeOK
<1>4. pend' = [pend EXCEPT ![t] = pend[t] \cup Ids(msgs)]
  BY <1>2 DEF Ask
<1>5. pend \in [Txns -> SUBSET (Types \X Keys \X BOOLEAN)]
  BY DEF TypeOK
<1>6. pend' \in [Txns -> SUBSET (Types \X Keys \X BOOLEAN)]
  <2> DEFINE P == Types \X Keys \X BOOLEAN
  <2>1. pend \in [Txns -> SUBSET P] /\ Ids(msgs) \subseteq P
    BY <1>1, <1>5
  <2> HIDE DEF P
  <2>2. pend' \in [Txns -> SUBSET P]
    BY <1>4, <2>1
  <2> QED
    BY <2>2 DEF P
<1> QED
  BY <1>3, <1>6 DEF Extended

\* The message at the head of a queue, and what it leads to.
LEMMA HeadTypes ==
  ASSUME TypeOK, NEW c \in Channels, chan[c] # <<>>
  PROVE  LET m == Head(chan[c])
         IN  /\ m \in Message /\ m = chan[c][1] /\ 1 \in 1..Len(chan[c])
             /\ m.txn \in Txns /\ m.key \in Keys /\ m.write \in BOOLEAN
             /\ m.type \in Types /\ m.answer \in BOOLEAN
             /\ m.val \in Txns \cup {NoTxn} /\ m.found \in SUBSET Flags
<1>1. chan[c] \in Seq(Message)
  BY DEF TypeOK
<1>2. Head(chan[c]) = chan[c][1] /\ chan[c][1] \in Message /\ Len(chan[c]) \in Nat \ {0}
  BY <1>1, TailFacts
<1> QED
  BY <1>2 DEF Message

\* A row answers with flags.
LEMMA FlagTypes ==
  ASSUME NEW w, NEW e, NEW tid
  PROVE  ReadFlags(w, e, tid) \subseteq Flags /\ WriteFlags(w, e, tid) \subseteq Flags
BY DEF ReadFlags, WriteFlags, Flags

\* The types hold at the start.
LEMMA TypeInit == Init => TypeOK
<1> SUFFICES ASSUME Init PROVE TypeOK
  OBVIOUS
<1>1. block \in 1..NBlocks /\ phase \in Phases \cup {"DONE"}
  BY ScheduleAssumption DEF Init, Phases
<1>2. chan \in [Channels -> Seq(Message)]
  BY DEF Init
<1>3. pend \in [Txns -> SUBSET (Types \X Keys \X BOOLEAN)]
  BY DEF Init
<1>4. ZeroWord \in Word
  BY DEF ZeroWord, Word
<1> QED
  BY <1>1, <1>2, <1>3, <1>4, WorkloadAssumption DEF Init, TypeOK

\* Every step keeps the types.
LEMMA TypeStep == TypeOK /\ [Next]_vars => TypeOK'
<1> SUFFICES ASSUME TypeOK, [Next]_vars
             PROVE  TypeOK'
  OBVIOUS
<1>1. ASSUME NEW t \in Txns, Rollback(t) PROVE TypeOK'
  BY <1>1 DEF Rollback, Mark, TypeOK
<1>2. ASSUME NEW t \in Txns, Execute(t) PROVE TypeOK'
  <2>1. Ask(t, Requests("SEARCH", t, Remote(t, Reads(t)), FALSE) \cup
               Requests("SEARCH", t, Remote(t, {}), TRUE))
    BY <1>2, NoRequests DEF Execute
  <2>2. /\ chan' \in [Channels -> Seq(Message)]
        /\ pend' \in [Txns -> SUBSET (Types \X Keys \X BOOLEAN)]
    <3>1. "SEARCH" \in Types /\ Reads(t) \in SUBSET Reads(t) /\ {} \in SUBSET Writes(t)
      BY DEF Types
    <3> QED
      BY <2>1, <3>1, AskTypes
  <2>3. [k \in Keys |-> IF k \in Local(t, Reads(t)) THEN db[k] ELSE seen[t][k]]
          \in [Keys -> Txns \cup {NoTxn}]
    BY DEF TypeOK
  <2>4. seen' \in [Txns -> [Keys -> Txns \cup {NoTxn}]]
    BY <1>2, <2>3 DEF Execute, TypeOK
  <2> QED
    BY <1>2, <2>2, <2>4 DEF Execute, Mark, TypeOK
<1>3. ASSUME NEW t \in Txns, Reserve(t) PROVE TypeOK'
  <2>1. ASSUME NEW k \in Keys, NEW w \in Word PROVE Reserved(t, k, w) \in Word
    BY ReserveTypes, ConstantTypes DEF Reserved
  <2>2. word' \in [Keys -> Word]
    BY <1>3, <2>1 DEF Reserve, TypeOK
  <2>3. CASE Unreserved(t)
    BY <1>3, <2>2, <2>3 DEF Reserve, Mark, TypeOK
  <2>4. CASE ~Unreserved(t)
    <3> DEFINE msgs == Requests("RESERVE", t, Remote(t, Reads(t)), FALSE) \cup
                       Requests("RESERVE", t, Remote(t, Writes(t)), TRUE)
    <3>1. Send(msgs)
      BY <1>3, <2>4 DEF Reserve
    <3>2. msgs \in SUBSET Message /\ IsFiniteSet(msgs)
      BY MessageTypes DEF Types
    <3> HIDE DEF msgs
    <3>3. chan' \in [Channels -> Seq(Message)]
      BY <3>1, <3>2, SendFacts DEF TypeOK, Extended
    <3> QED
      BY <1>3, <2>2, <3>3 DEF Reserve, Mark, TypeOK
  <2> QED
    BY <2>3, <2>4
<1>4. ASSUME NEW t \in Txns, Analyze(t) PROVE TypeOK'
  <2>1. CASE Unreserved(t)
    BY <1>4, <2>1 DEF Analyze, Mark, TypeOK
  <2>2. CASE ~Unreserved(t)
    <3>1. PICK asked \in SUBSET Remote(t, Reads(t)) :
            /\ flags' = [flags EXCEPT ![t] = @ \cup LocalFlags(t)]
            /\ Ask(t, Requests("CHECK", t, asked, FALSE) \cup
                      Requests("CHECK", t, Remote(t, Writes(t)), TRUE))
      BY <1>4, <2>2 DEF Analyze
    <3>2. asked \in SUBSET Reads(t) /\ asked = Remote(t, asked)
      BY DEF Remote
    <3>3. /\ chan' \in [Channels -> Seq(Message)]
          /\ pend' \in [Txns -> SUBSET (Types \X Keys \X BOOLEAN)]
      BY <3>1, <3>2, AskTypes DEF Types
    <3>4. LocalFlags(t) \subseteq Flags
      BY FlagTypes DEF LocalFlags
    <3> QED
      BY <1>4, <3>1, <3>3, <3>4 DEF Analyze, Mark, TypeOK
  <2> QED
    BY <2>1, <2>2
<1>5. ASSUME NEW t \in Txns, Commit(t) PROVE TypeOK'
  <2>1. Ask(t, Requests("WRITE", t, Remote(t, {}), FALSE) \cup
               Requests("WRITE", t, Remote(t, Writes(t)), TRUE))
    BY <1>5, NoRequests DEF Commit
  <2>2. /\ chan' \in [Channels -> Seq(Message)]
        /\ pend' \in [Txns -> SUBSET (Types \X Keys \X BOOLEAN)]
    BY <2>1, AskTypes DEF Types
  <2>3. db' \in [Keys -> Txns \cup {NoTxn}]
    BY <1>5 DEF Commit, TypeOK
  <2> QED
    BY <1>5, <2>2, <2>3 DEF Commit, Mark, TypeOK
<1>6. ASSUME NEW t \in Txns, Delay(t) PROVE TypeOK'
  BY <1>6 DEF Delay, Mark, TypeOK
<1>7. ASSUME NEW t \in Txns, Cleanup(t) PROVE TypeOK'
  <2>1. Ask(t, Requests("CLEANUP", t, Remote(t, Reads(t)), FALSE) \cup
               Requests("CLEANUP", t, Remote(t, Writes(t)), TRUE))
    BY <1>7 DEF Cleanup
  <2>2. /\ chan' \in [Channels -> Seq(Message)]
        /\ pend' \in [Txns -> SUBSET (Types \X Keys \X BOOLEAN)]
    BY <2>1, AskTypes DEF Types
  <2>3. word' \in [Keys -> Word]
    BY <1>7 DEF Cleanup, TypeOK, ZeroWord, Word
  <2> QED
    BY <1>7, <2>2, <2>3 DEF Cleanup, Mark, TypeOK
<1>8. ASSUME NEW c \in Channels, Process(c) PROVE TypeOK'
  <2> DEFINE m == Head(chan[c])
  <2>1. chan[c] # <<>>
    BY <1>8 DEF Process, SearchRequest, SearchResponse, ReserveRequest, CheckRequest,
                CheckResponse, WriteRequest, CleanupRequest, CountResponse, Take
  <2>2. /\ m \in Message
        /\ m.txn \in Txns /\ m.key \in Keys
        /\ m.val \in Txns \cup {NoTxn} /\ m.found \in SUBSET Flags
    BY <2>1, HeadTypes
  <2>3. Drop(c) => chan' \in [Channels -> Seq(Message)]
    BY <2>1, DropFacts DEF TypeOK, Taken
  <2>4. \A val \in Txns \cup {NoTxn} : \A found \in SUBSET Flags :
          Reply(c, m, val, found) => chan' \in [Channels -> Seq(Message)]
    BY <2>1, <2>2, ReplyFacts DEF TypeOK, Taken
  <2>5. Answered(m) => pend' \in [Txns -> SUBSET (Types \X Keys \X BOOLEAN)]
    <3> DEFINE P == Types \X Keys \X BOOLEAN
    <3>1. pend \in [Txns -> SUBSET P]
      BY DEF TypeOK
    <3> HIDE DEF P
    <3>2. Answered(m) => pend' \in [Txns -> SUBSET P]
      BY <3>1, <2>2 DEF Answered
    <3> QED
      BY <3>2 DEF P
  <2> HIDE DEF m
  <2>6. CASE SearchRequest(c)
    <3>1. Reply(c, m, db[m.key], {}) /\ db[m.key] \in Txns \cup {NoTxn}
      BY <2>6, <2>2 DEF SearchRequest, m, TypeOK
    <3>5. chan' \in [Channels -> Seq(Message)]
      <4>1. {} \in SUBSET Flags /\ NoTxn \in Txns \cup {NoTxn}
        OBVIOUS
      <4> QED
        BY <2>4, <3>1, <4>1
    <3> QED
      BY <2>6, <3>5 DEF SearchRequest, TypeOK
  <2>7. CASE ReserveRequest(c)
    <3>1. word' \in [Keys -> Word]
      <4>1. word[m.key] \in Word /\ Epoch(m.txn) \in Nat /\ Tid[m.txn] \in Nat
        BY <2>2, ConstantTypes DEF TypeOK
      <4>2. (IF m.write THEN ReserveWrite(word[m.key], Epoch(m.txn), Tid[m.txn])
                        ELSE ReserveRead(word[m.key], Epoch(m.txn), Tid[m.txn])) \in Word
        BY <4>1, ReserveTypes
      <4>3. word' = [word EXCEPT ![m.key] =
                       IF m.write THEN ReserveWrite(word[m.key], Epoch(m.txn), Tid[m.txn])
                                  ELSE ReserveRead(word[m.key], Epoch(m.txn), Tid[m.txn])]
        BY <2>7 DEF ReserveRequest, m
      <4> QED
        BY <4>2, <4>3 DEF TypeOK
    <3> QED
      BY <2>7, <2>3, <3>1 DEF ReserveRequest, TypeOK
  <2>8. CASE CheckRequest(c)
    <3> DEFINE val == IF m.write
                        THEN WriteFlags(word[m.key], Epoch(m.txn), Tid[m.txn])
                        ELSE ReadFlags(word[m.key], Epoch(m.txn), Tid[m.txn])
    <3>1. Reply(c, m, NoTxn, val) /\ val \in SUBSET Flags
      BY <2>8, FlagTypes DEF CheckRequest, m
    <3> HIDE DEF val
    <3> QED
      BY <2>8, <2>4, <3>1 DEF CheckRequest, TypeOK
  <2>9. CASE WriteRequest(c)
    <3>1. Reply(c, m, NoTxn, {}) /\ db' = [db EXCEPT ![m.key] = m.txn]
      BY <2>9 DEF WriteRequest, m
    <3>5. chan' \in [Channels -> Seq(Message)]
      <4>1. {} \in SUBSET Flags /\ NoTxn \in Txns \cup {NoTxn}
        OBVIOUS
      <4> QED
        BY <2>4, <3>1, <4>1
    <3> QED
      BY <2>9, <2>2, <3>1, <3>5 DEF WriteRequest, TypeOK
  <2>10. CASE CleanupRequest(c)
    <3>1. Reply(c, m, NoTxn, {}) /\ word' = [word EXCEPT ![m.key] = ZeroWord]
      BY <2>10 DEF CleanupRequest, m
    <3>2. ZeroWord \in Word
      BY DEF ZeroWord, Word
    <3>5. chan' \in [Channels -> Seq(Message)]
      <4>1. {} \in SUBSET Flags /\ NoTxn \in Txns \cup {NoTxn}
        OBVIOUS
      <4> QED
        BY <2>4, <3>1, <4>1
    <3> QED
      BY <2>10, <2>2, <3>1, <3>2, <3>5 DEF CleanupRequest, TypeOK
  <2>11. CASE CountResponse(c)
    BY <2>11, <2>3, <2>5 DEF CountResponse, TypeOK, m
  <2>12. CASE SearchResponse(c)
    <3>1. seen' = [seen EXCEPT ![m.txn][m.key] = m.val]
      BY <2>12 DEF SearchResponse, m
    <3>2. seen' \in [Txns -> [Keys -> Txns \cup {NoTxn}]]
      BY <2>2, <3>1 DEF TypeOK
    <3> QED
      BY <2>12, <2>3, <2>5, <3>2 DEF SearchResponse, TypeOK, m
  <2>13. CASE CheckResponse(c)
    <3>1. flags' = [flags EXCEPT ![m.txn] = @ \cup m.found]
      BY <2>13 DEF CheckResponse, m
    <3>2. flags' \in [Txns -> SUBSET Flags]
      BY <2>2, <3>1 DEF TypeOK
    <3> QED
      BY <2>13, <2>3, <2>5, <3>2 DEF CheckResponse, TypeOK, m
  <2> QED
    BY <1>8, <2>6, <2>7, <2>8, <2>9, <2>10, <2>11, <2>12, <2>13 DEF Process
<1>9. CASE EndPhase
  BY <1>9 DEF EndPhase, NextPhase, TypeOK, Phases
<1>10. CASE EndBlock
  BY <1>10, ScheduleAssumption DEF EndBlock, TypeOK, Phases
<1>11. CASE UNCHANGED vars
  BY <1>11 DEF vars, TypeOK
<1> QED
  BY <1>1, <1>2, <1>3, <1>4, <1>5, <1>6, <1>7, <1>8, <1>9, <1>10, <1>11 DEF Next, Work

\* Every state of every execution is well typed.
THEOREM TypeCorrect == Spec => []TypeOK
<1> QED
  BY TypeInit, TypeStep, PTL DEF Spec

-----------------------------------------------------------------------------
(* Messages: every one is waited for, and none is in flight twice.         *)

\* What a transaction accesses stays what it was.
LEMMA ProgramsFixed ==
  ASSUME prog' = prog, NEW t
  PROVE  /\ Reads(t)' = Reads(t) /\ Writes(t)' = Writes(t)
         /\ Unreserved(t)' <=> Unreserved(t)
         /\ \A write : Accesses(t, write)' = Accesses(t, write)
BY DEF Reads, Writes, Unreserved, IsReadOnly, Accesses

\* The requests of one transaction for its remote rows.
LEMMA RequestsShape ==
  ASSUME TypeOK, NEW t \in Txns, NEW type \in Types,
         NEW r \in SUBSET Reads(t), NEW w \in SUBSET Writes(t)
  PROVE  \A m \in Requests(type, t, Remote(t, r), FALSE) \cup
                  Requests(type, t, Remote(t, w), TRUE) :
         /\ m = [type |-> type, answer |-> FALSE, txn |-> t, key |-> m.key,
                 write |-> m.write, val |-> NoTxn, found |-> {}]
         /\ m.txn = t /\ m.type = type /\ m.answer = FALSE
         /\ m.write \in BOOLEAN /\ m.key \in Keys
         /\ m.key \in Remote(t, IF m.write THEN w ELSE r)
         /\ m.key \in Accesses(t, m.write) /\ Home[t] # Owner[m.key]
         /\ Id(m) = <<type, m.key, m.write>>
         /\ Route(m) = <<Home[t], Owner[m.key], WorkerOf[t]>>
         /\ Route(m) \in Channels
<1> TAKE m \in Requests(type, t, Remote(t, r), FALSE) \cup
                Requests(type, t, Remote(t, w), TRUE)
<1>1. PICK write \in BOOLEAN : m \in Requests(type, t, Remote(t, IF write THEN w ELSE r), write)
  OBVIOUS
<1>2. PICK k \in Remote(t, IF write THEN w ELSE r) :
        m = [type |-> type, answer |-> FALSE, txn |-> t, key |-> k,
             write |-> write, val |-> NoTxn, found |-> {}]
  BY <1>1 DEF Requests
<1>3. k \in Accesses(t, write) /\ k \in Keys /\ Home[t] # Owner[k]
  BY <1>2, AccessTypes DEF Remote, Accesses
<1>4. <<Home[t], Owner[k], WorkerOf[t]>> \in Channels
  BY <1>3, TopologyAssumption DEF Channels
<1> QED
  BY <1>2, <1>3, <1>4 DEF Id, Route

\* Every message in a queue is one.
LEMMA PositionTypes ==
  ASSUME TypeOK
  PROVE  \A c \in Channels : \A i \in 1..Len(chan[c]) :
           LET m == chan[c][i]
           IN  /\ m \in Message
               /\ m.txn \in Txns /\ m.key \in Keys /\ m.write \in BOOLEAN
               /\ m.type \in Types /\ m.answer \in BOOLEAN
<1> SUFFICES ASSUME NEW c \in Channels, NEW i \in 1..Len(chan[c])
             PROVE  chan[c][i] \in Message
  BY DEF Message
<1>1. chan[c] \in Seq(Message)
  BY DEF TypeOK
<1> QED
  BY <1>1

\* Messages with the same id are about the same access.
LEMMA SameId ==
  ASSUME NEW m, NEW n, Id(m) = Id(n)
  PROVE  /\ m.type = n.type /\ m.key = n.key /\ m.write = n.write
         /\ Counted(m) <=> Counted(n)
BY DEF Id, Counted

\* Sending keeps to the discipline: the requests are new, so that none is in
\* flight twice, and those that are counted are waited for.
LEMMA SendMessages ==
  ASSUME TypeOK, MessagesOK, NoDuplicates, prog' = prog,
         NEW t \in Txns, NEW type \in Types,
         NEW r \in SUBSET Reads(t), NEW w \in SUBSET Writes(t),
         Send(Requests(type, t, Remote(t, r), FALSE) \cup
              Requests(type, t, Remote(t, w), TRUE)),
         \A u \in Txns : pend[u] \subseteq pend'[u],
         type # "RESERVE" =>
           /\ Ids(Requests(type, t, Remote(t, r), FALSE) \cup
                  Requests(type, t, Remote(t, w), TRUE)) \subseteq pend'[t]
           /\ \A id \in pend[t] : id[1] # type
  PROVE  /\ Extended(Requests(type, t, Remote(t, r), FALSE) \cup
                     Requests(type, t, Remote(t, w), TRUE))
         /\ MessagesOK' /\ NoDuplicates'
<1> DEFINE msgs == Requests(type, t, Remote(t, r), FALSE) \cup
                   Requests(type, t, Remote(t, w), TRUE)
<1>1. /\ msgs \in SUBSET Message /\ IsFiniteSet(msgs)
  BY MessageTypes
<1>2. \A m \in msgs :
         /\ m = [type |-> type, answer |-> FALSE, txn |-> t, key |-> m.key,
                 write |-> m.write, val |-> NoTxn, found |-> {}]
         /\ m.txn = t /\ m.type = type /\ m.answer = FALSE
         /\ m.write \in BOOLEAN /\ m.key \in Keys
         /\ m.key \in Remote(t, IF m.write THEN w ELSE r)
         /\ m.key \in Accesses(t, m.write) /\ Home[t] # Owner[m.key]
         /\ Id(m) = <<type, m.key, m.write>>
         /\ Route(m) = <<Home[t], Owner[m.key], WorkerOf[t]>>
         /\ Route(m) \in Channels
  BY RequestsShape, Zenon
<1>3. type # "RESERVE" =>
        (\A m \in msgs : Id(m) \in pend'[t]) /\ \A id \in pend[t] : id[1] # type
  BY DEF Ids
<1>4. Send(msgs)
  OBVIOUS
<1> HIDE DEF msgs
<1>5. Extended(msgs)
  BY <1>1, <1>4, SendFacts DEF TypeOK
<1>6. MessagesOK'
  <2> SUFFICES ASSUME NEW c \in Channels, NEW i \in 1..Len(chan'[c])
               PROVE  MessageOK(c, chan[c][i])'
    BY DEF MessagesOK
  <2>1. CASE i \in 1..Len(chan[c])
    <3>1. chan'[c][i] = chan[c][i] /\ MessageOK(c, chan[c][i])
      BY <1>5, <2>1 DEF Extended, MessagesOK
    <3>2. chan[c][i].txn \in Txns
      BY <2>1, PositionTypes
    <3> QED
      BY <3>1, <3>2, ProgramsFixed DEF MessageOK
  <2>2. CASE i > Len(chan[c]) /\ chan'[c][i] \in msgs /\ Route(chan'[c][i]) = c
    <3> DEFINE m == chan'[c][i]
    <3>1. /\ m.txn = t /\ m.answer = FALSE /\ m.key \in Accesses(t, m.write)
          /\ Home[t] # Owner[m.key] /\ m.type = type
      BY <1>2, <2>2
    <3>2. Counted(m) => Id(m) \in pend'[t]
      BY <1>3, <2>2, <3>1 DEF Counted
    <3>3. c = Route(m)
      BY <2>2
    <3> QED
      BY <3>1, <3>2, <3>3 DEF MessageOK, Accesses, Reads, Writes, Counted
  <2> QED
    BY <1>5, <2>1, <2>2 DEF Extended
<1>7. NoDuplicates'
  <2> SUFFICES ASSUME NEW c \in Channels, NEW d \in Channels,
                      NEW i \in 1..Len(chan'[c]), NEW j \in 1..Len(chan'[d]),
                      Counted(chan'[c][i]), chan'[c][i].txn = chan'[d][j].txn,
                      Id(chan'[c][i]) = Id(chan'[d][j])
               PROVE  c = d /\ i = j
    BY DEF NoDuplicates
  <2>1. /\ chan'[c][i].type = chan'[d][j].type /\ chan'[c][i].key = chan'[d][j].key
        /\ chan'[c][i].write = chan'[d][j].write
    BY SameId
  <2>2. Counted(chan'[d][j])
    BY SameId
  <2>3. ASSUME NEW e \in Channels, NEW n \in 1..Len(chan[e]), Counted(chan[e][n]),
               chan[e][n].txn = t
        PROVE  chan[e][n].type # type
    BY <1>3, <2>3 DEF MessagesOK, MessageOK, Id, Counted
  <2>4. CASE i \in 1..Len(chan[c]) /\ j \in 1..Len(chan[d])
    <3>1. chan'[c][i] = chan[c][i] /\ chan'[d][j] = chan[d][j]
      BY <1>5, <2>4 DEF Extended
    <3> QED
      BY <2>4, <3>1, SMTT(30) DEF NoDuplicates
  <2>5. CASE i \notin 1..Len(chan[c]) /\ j \notin 1..Len(chan[d])
    <3>1. /\ i > Len(chan[c]) /\ chan'[c][i] \in msgs /\ Route(chan'[c][i]) = c
          /\ j > Len(chan[d]) /\ chan'[d][j] \in msgs /\ Route(chan'[d][j]) = d
      BY <1>5, <2>5 DEF Extended
    <3>2. /\ chan'[c][i].key = chan'[d][j].key
          /\ chan'[c][i].write = chan'[d][j].write
      BY <2>1
    <3>3. chan'[c][i] = chan'[d][j] /\ c = d
      BY <1>2, <3>1, <3>2
    <3> QED
      BY <1>5, <3>1, <3>3 DEF Extended
  <2>6. CASE i \in 1..Len(chan[c]) /\ j \notin 1..Len(chan[d])
    <3>1. chan'[c][i] = chan[c][i] /\ chan'[d][j] \in msgs
      BY <1>5, <2>6 DEF Extended
    <3> QED
      BY <1>2, <2>1, <2>3, <2>6, <3>1
  <2>7. CASE i \notin 1..Len(chan[c]) /\ j \in 1..Len(chan[d])
    <3>1. chan'[d][j] = chan[d][j] /\ chan'[c][i] \in msgs
      BY <1>5, <2>7 DEF Extended
    <3> QED
      BY <1>2, <2>1, <2>2, <2>3, <2>7, <3>1
  <2> QED
    BY <2>4, <2>5, <2>6, <2>7
<1> QED
  BY <1>5, <1>6, <1>7 DEF msgs

\* Taking keeps to the discipline: an answer takes the place of its request,
\* and what is no longer waited for is no longer in flight.
LEMMA TakeMessages ==
  ASSUME TypeOK, MessagesOK, NoDuplicates, prog' = prog,
         NEW c \in Channels, chan[c] # <<>>, NEW answers, Taken(c, answers),
         \A a \in answers : /\ a.txn = chan[c][1].txn /\ Id(a) = Id(chan[c][1])
                            /\ a.answer /\ ~chan[c][1].answer /\ Counted(chan[c][1]),
         \A u \in Txns : u # chan[c][1].txn => pend'[u] = pend[u],
         \/ pend'[chan[c][1].txn] = pend[chan[c][1].txn]
         \/ /\ answers = {} /\ Counted(chan[c][1])
            /\ pend'[chan[c][1].txn] = pend[chan[c][1].txn] \ {Id(chan[c][1])}
  PROVE  MessagesOK' /\ NoDuplicates'
<1> DEFINE m == chan[c][1]
<1>1. /\ m \in Message /\ m.txn \in Txns /\ m.key \in Keys /\ m.write \in BOOLEAN
      /\ m = Head(chan[c]) /\ 1 \in 1..Len(chan[c])
  BY HeadTypes
<1>2. MessageOK(c, m)
  BY <1>1 DEF MessagesOK
<1>3. Back(c) \in Channels /\ Back(c) # c /\ Back(Back(c)) = c
  BY BackFacts
\* A message that stays is not the one that was taken.
<1>4. ASSUME NEW d \in Channels, NEW i \in 1..Len(chan'[d]),
             i + Off(c, d) \in 1..Len(chan[d]),
             Counted(chan[d][i + Off(c, d)]), chan[d][i + Off(c, d)].txn = m.txn
      PROVE  Id(chan[d][i + Off(c, d)]) # Id(m)
  <2>1. ~(d = c /\ i + Off(c, d) = 1)
    BY DEF Off
  <2> QED
    BY <1>1, <1>4, <2>1 DEF NoDuplicates
<1>5. MessagesOK'
  <2> SUFFICES ASSUME NEW d \in Channels, NEW i \in 1..Len(chan'[d])
               PROVE  MessageOK(d, chan[d][i])'
    BY DEF MessagesOK
  <2>1. CASE i + Off(c, d) \in 1..Len(chan[d]) /\ chan'[d][i] = chan[d][i + Off(c, d)]
    <3> DEFINE n == chan[d][i + Off(c, d)]
    <3>1. MessageOK(d, n) /\ n.txn \in Txns
      BY <2>1, PositionTypes DEF MessagesOK
    <3>2. Counted(n) => Id(n) \in pend'[n.txn]
      BY <1>4, <2>1, <3>1 DEF MessageOK
    <3> HIDE DEF n
    <3> QED
      BY <2>1, <3>1, <3>2 DEF MessageOK, Accesses, Reads, Writes, Counted, n
  <2>2. CASE d = Back(c) /\ i = Len(chan[d]) + 1 /\ chan'[d][i] \in answers
    <3> DEFINE a == chan'[d][i]
    <3>1. /\ a.txn = m.txn /\ Id(a) = Id(m) /\ a.answer /\ ~m.answer /\ Counted(m)
          /\ pend'[m.txn] = pend[m.txn]
      BY <2>2
    <3>2. a.key = m.key /\ a.write = m.write /\ Counted(a)
      BY <3>1, SameId
    <3>3. Route(a) = Route(m) /\ c = Route(m)
      BY <1>2, <3>1, <3>2 DEF Route, MessageOK
    <3> HIDE DEF m
    <3> QED
      BY <1>2, <2>2, <3>1, <3>2, <3>3 DEF MessageOK, Accesses, Reads, Writes, Counted
  <2> QED
    BY <2>1, <2>2 DEF Taken
<1>6. NoDuplicates'
  <2> SUFFICES ASSUME NEW d \in Channels, NEW e \in Channels,
                      NEW i \in 1..Len(chan'[d]), NEW j \in 1..Len(chan'[e]),
                      Counted(chan'[d][i]), chan'[d][i].txn = chan'[e][j].txn,
                      Id(chan'[d][i]) = Id(chan'[e][j])
               PROVE  d = e /\ i = j
    BY DEF NoDuplicates
  <2>1. Counted(chan'[e][j])
    BY SameId
  <2>2. \A f \in Channels : \A n \in 1..Len(chan'[f]) :
          \/ n + Off(c, f) \in 1..Len(chan[f]) /\ chan'[f][n] = chan[f][n + Off(c, f)]
          \/ /\ f = Back(c) /\ n = Len(chan[f]) + 1
             /\ chan'[f][n].txn = m.txn /\ Id(chan'[f][n]) = Id(m)
    BY DEF Taken
  <2>3. CASE /\ i + Off(c, d) \in 1..Len(chan[d]) /\ chan'[d][i] = chan[d][i + Off(c, d)]
             /\ j + Off(c, e) \in 1..Len(chan[e]) /\ chan'[e][j] = chan[e][j + Off(c, e)]
    <3> DEFINE x == i + Off(c, d)
               y == j + Off(c, e)
    <3>0. /\ x \in 1..Len(chan[d]) /\ y \in 1..Len(chan[e])
          /\ Counted(chan[d][x]) /\ chan[d][x].txn = chan[e][y].txn
          /\ Id(chan[d][x]) = Id(chan[e][y])
      BY <2>3
    <3> HIDE DEF x, y
    <3>1. d = e /\ x = y
      BY <3>0 DEF NoDuplicates
    <3>2. \A f \in Channels : chan'[f] \in Seq(Message) /\ Len(chan'[f]) \in Nat
      BY DEF Taken
    <3> QED
      BY <3>1, <3>2 DEF Off, x, y
  <2>4. CASE /\ i + Off(c, d) \in 1..Len(chan[d]) /\ chan'[d][i] = chan[d][i + Off(c, d)]
             /\ chan'[e][j].txn = m.txn /\ Id(chan'[e][j]) = Id(m)
    BY <1>4, <2>4
  <2>5. CASE /\ j + Off(c, e) \in 1..Len(chan[e]) /\ chan'[e][j] = chan[e][j + Off(c, e)]
             /\ chan'[d][i].txn = m.txn /\ Id(chan'[d][i]) = Id(m)
    BY <1>4, <2>1, <2>5
  <2>6. CASE d = Back(c) /\ i = Len(chan[d]) + 1 /\ e = Back(c) /\ j = Len(chan[e]) + 1
    BY <2>6
  <2> QED
    BY <2>2, <2>3, <2>4, <2>5, <2>6
<1> QED
  BY <1>5, <1>6

\* What a transaction waits for is an access.
LEMMA WaitTypes ==
  ASSUME TypeOK, NEW t \in Txns, NEW id \in pend[t]
  PROVE  id[1] \in Types /\ id[2] \in Keys /\ id[3] \in BOOLEAN
<1>1. id \in Types \X Keys \X BOOLEAN
  BY DEF TypeOK
<1> QED
  BY <1>1

\* A transaction that has its turn waits for nothing that it is about to ask.
LEMMA NotAskedYet ==
  ASSUME Discipline, NEW t \in Txns, Turn(t)
  PROVE  /\ t \in Current /\ ~done[t]
         /\ phase \in {"EXECUTE", "RESERVE"} => pend[t] = {}
         /\ phase = "ANALYZE" => pend[t] = {}
         /\ phase = "CLEANUP" => \A id \in pend[t] : id[1] = "WRITE"
         /\ phase \in {"RESERVE", "ANALYZE", "FINALIZE"} => Live(t)
         /\ phase = "EXECUTE" => outcome[t] = "none"
<1>1. t \in Current /\ ~done[t]
  BY DEF Turn, Working
<1>2. \A id \in pend[t] : WaitOK(t, id) /\ id[1] \in Types
  BY WaitTypes DEF Discipline, WaitsOK
<1> QED
  BY <1>1, <1>2 DEF WaitOK, Types, Discipline, OutcomesOK, Turn, Working, Live

\* The requests of a phase, once asked, may be waited for.
LEMMA AskWaits ==
  ASSUME Discipline, prog' = prog, block' = block, phase' = phase,
         NEW t \in Txns, Turn(t), done' = [done EXCEPT ![t] = TRUE],
         NEW type \in Types,
         NEW r \in SUBSET Reads(t), NEW w \in SUBSET Writes(t),
         Ask(t, Requests(type, t, Remote(t, r), FALSE) \cup
                Requests(type, t, Remote(t, w), TRUE)),
         \/ type = "SEARCH" /\ phase = "EXECUTE" /\ outcome' = outcome
         \/ type = "CHECK" /\ phase = "ANALYZE" /\ outcome' = outcome
         \/ /\ type = "WRITE" /\ phase = "FINALIZE" /\ r = {} /\ pend[t] = {}
            /\ outcome' = [outcome EXCEPT ![t] = "committed"]
         \/ type = "CLEANUP" /\ phase = "CLEANUP" /\ outcome' = outcome
  PROVE  /\ MessagesOK' /\ NoDuplicates' /\ WaitsOK'
         /\ Extended(Requests(type, t, Remote(t, r), FALSE) \cup
                     Requests(type, t, Remote(t, w), TRUE))
<1> DEFINE msgs == Requests(type, t, Remote(t, r), FALSE) \cup
                   Requests(type, t, Remote(t, w), TRUE)
<1>1. /\ TypeOK /\ MessagesOK /\ NoDuplicates /\ WaitsOK /\ OutcomesOK
  BY DEF Discipline
<1>2. Send(msgs) /\ pend' = [pend EXCEPT ![t] = pend[t] \cup Ids(msgs)]
  BY DEF Ask
<1>3. \A m \in msgs :
         /\ m = [type |-> type, answer |-> FALSE, txn |-> t, key |-> m.key,
                 write |-> m.write, val |-> NoTxn, found |-> {}]
         /\ m.txn = t /\ m.type = type /\ m.answer = FALSE
         /\ m.write \in BOOLEAN /\ m.key \in Keys
         /\ m.key \in Remote(t, IF m.write THEN w ELSE r)
         /\ m.key \in Accesses(t, m.write) /\ Home[t] # Owner[m.key]
         /\ Id(m) = <<type, m.key, m.write>>
         /\ Route(m) = <<Home[t], Owner[m.key], WorkerOf[t]>>
         /\ Route(m) \in Channels
  BY <1>1, RequestsShape, Zenon
<1>4. \A id \in pend[t] : id[1] # type
  BY NotAskedYet
<1>5. \A u \in Txns : pend[u] \subseteq pend'[u] /\ (u # t => pend'[u] = pend[u])
  BY <1>1, <1>2 DEF TypeOK
<1>6. pend'[t] = pend[t] \cup Ids(msgs) /\ Ids(msgs) \subseteq pend'[t]
  BY <1>1, <1>2 DEF TypeOK
<1>7. MessagesOK' /\ NoDuplicates' /\ Extended(msgs)
  BY <1>1, <1>2, <1>4, <1>5, <1>6, SendMessages
<1>8. \A id \in Ids(msgs) : /\ id[1] = type /\ id[2] \in Accesses(t, id[3])
                            /\ type = "WRITE" => id[3]
  <2> SUFFICES ASSUME NEW m \in msgs
               PROVE  /\ Id(m)[1] = type /\ Id(m)[2] \in Accesses(t, Id(m)[3])
                      /\ type = "WRITE" => Id(m)[3]
    BY DEF Ids
  <2>1. /\ Id(m) = <<type, m.key, m.write>> /\ m.key \in Accesses(t, m.write)
        /\ m.write \in BOOLEAN /\ m.key \in Remote(t, IF m.write THEN w ELSE r)
    BY <1>3
  <2>2. r = {} => m.write
    BY <2>1 DEF Remote
  <2> QED
    BY <2>1, <2>2
<1> HIDE DEF msgs
<1>9. t \in Current /\ ~done[t] /\ (phase = "ANALYZE" => Live(t))
  BY NotAskedYet
<1>10. WaitsOK'
  <2> SUFFICES ASSUME NEW u \in Txns, NEW id \in pend'[u]
               PROVE  WaitOK(u, id)'
    BY DEF WaitsOK
  <2>1. CASE id \in pend[u]
    <3>1. WaitOK(u, id)
      BY <1>1, <2>1 DEF WaitsOK
    <3>2. u = t => phase = "CLEANUP" /\ id[1] = "WRITE"
      BY <2>1, NotAskedYet
    <3>3. u # t => done'[u] = done[u] /\ outcome'[u] = outcome[u]
      BY <1>1 DEF TypeOK
    <3>4. t \in Current => outcome[t] = outcome'[t] \/ phase = "FINALIZE"
      OBVIOUS
    <3>5. (u \in Current)' = (u \in Current) /\ Accesses(u, id[3])' = Accesses(u, id[3])
      BY DEF Current, Accesses, Reads, Writes
    <3>6. CASE u # t
      BY <3>1, <3>3, <3>5, <3>6 DEF WaitOK
    <3>7. CASE u = t
      BY <3>1, <3>2, <3>4, <3>5, <3>7 DEF WaitOK
    <3> QED
      BY <3>6, <3>7
  <2>2. CASE id \notin pend[u]
    <3>1. u = t /\ id \in Ids(msgs)
      BY <1>5, <1>6, <2>2
    <3>2. id[1] = type /\ id[2] \in Accesses(t, id[3]) /\ (type = "WRITE" => id[3])
      BY <1>8, <3>1
    <3>3. outcome[t] = "none" \/ type \in {"WRITE", "CLEANUP"}
      BY <1>1, <1>9, NotAskedYet DEF OutcomesOK, Live, TypeOK
    <3>4. t \in Current' /\ done'[t] /\ Accesses(t, id[3])' = Accesses(t, id[3])
      BY <1>1, <1>9 DEF Current, Accesses, Reads, Writes, TypeOK
    <3> QED
      BY <1>1, <3>1, <3>2, <3>3, <3>4 DEF WaitOK, TypeOK
  <2> QED
    BY <2>1, <2>2
<1> QED
  BY <1>7, <1>10 DEF msgs

\* At the start nothing is in flight.
LEMMA DisciplineInit == Init => Discipline
<1> SUFFICES ASSUME Init PROVE Discipline
  OBVIOUS
<1>1. TypeOK
  BY TypeInit
<1>2. \A c \in Channels : Len(chan[c]) = 0
  BY DEF Init
<1>3. \A c \in Channels : 1..Len(chan[c]) = {}
  BY <1>2
<1>4. MessagesOK /\ NoDuplicates
  BY <1>3 DEF MessagesOK, NoDuplicates
<1>5. WaitsOK /\ OutcomesOK
  BY DEF Init, WaitsOK, OutcomesOK
<1> QED
  BY <1>1, <1>4, <1>5 DEF Discipline

\* Who handles a message takes it off its queue; it answers, or it counts
\* the answer, or it does neither (a RESERVE).
LEMMA ProcessShape ==
  ASSUME TypeOK, NEW c \in Channels, Process(c)
  PROVE  /\ chan[c] # <<>> /\ Head(chan[c]) = chan[c][1]
         /\ UNCHANGED <<block, phase, prog, done, outcome, late>>
         /\ \E answers \in SUBSET Message :
              /\ Taken(c, answers)
              /\ \A a \in answers :
                   /\ a.txn = chan[c][1].txn /\ Id(a) = Id(chan[c][1])
                   /\ a.answer /\ ~chan[c][1].answer /\ Counted(chan[c][1])
              /\ \/ pend' = pend
                 \/ /\ answers = {} /\ Counted(chan[c][1])
                    /\ pend' = [pend EXCEPT ![chan[c][1].txn] = @ \ {Id(chan[c][1])}]
<1> DEFINE m == chan[c][1]
<1>1. /\ chan[c] # <<>>
      /\ UNCHANGED <<block, phase, prog, done, outcome, late>>
  BY DEF Process, SearchRequest, SearchResponse, ReserveRequest, CheckRequest,
         CheckResponse, WriteRequest, CleanupRequest, CountResponse, Take
<1>2. /\ Head(chan[c]) = m /\ m \in Message
      /\ m.txn \in Txns /\ m.key \in Keys
  BY <1>1, HeadTypes
<1>3. CASE /\ Drop(c)
           /\ \/ pend' = pend
              \/ Answered(m) /\ Counted(m)
  <2>1. Taken(c, {})
    BY <1>1, <1>3, DropFacts DEF TypeOK
  <2> QED
    BY <1>1, <1>2, <1>3, <2>1 DEF Answered
<1>4. ASSUME NEW val \in Txns \cup {NoTxn}, NEW found \in SUBSET Flags,
             Reply(c, m, val, found), pend' = pend, ~m.answer, Counted(m)
      PROVE  \E answers \in SUBSET Message :
              /\ Taken(c, answers)
              /\ \A a \in answers : /\ a.txn = m.txn /\ Id(a) = Id(m)
                                    /\ a.answer /\ ~m.answer /\ Counted(m)
              /\ pend' = pend
  <2> DEFINE a == [m EXCEPT !.answer = TRUE, !.val = val, !.found = found]
  <2>1. a \in Message /\ Taken(c, {a})
    BY <1>1, <1>2, <1>4, ReplyFacts DEF TypeOK
  <2>2. a.txn = m.txn /\ Id(a) = Id(m) /\ a.answer
    BY <1>2 DEF Message, Id
  <2> HIDE DEF a
  <2> QED
    BY <1>4, <2>1, <2>2
<1> HIDE DEF m
<1>5. CASE SearchRequest(c)
  <2>1. /\ Reply(c, m, db[m.key], {}) /\ pend' = pend /\ ~m.answer /\ Counted(m)
    BY <1>2, <1>5 DEF SearchRequest, Take, Counted
  <2>2. db[m.key] \in Txns \cup {NoTxn} /\ {} \in SUBSET Flags
    BY <1>2 DEF TypeOK
  <2> QED
    BY <1>1, <1>2, <1>4, <2>1, <2>2 DEF m
<1>6. CASE CheckRequest(c)
  <2> DEFINE found == IF m.write
                        THEN WriteFlags(word[m.key], Epoch(m.txn), Tid[m.txn])
                        ELSE ReadFlags(word[m.key], Epoch(m.txn), Tid[m.txn])
  <2>1. /\ Reply(c, m, NoTxn, found) /\ pend' = pend /\ ~m.answer /\ Counted(m)
    BY <1>2, <1>6 DEF CheckRequest, Take, Counted
  <2>2. found \in SUBSET Flags
    BY FlagTypes
  <2> HIDE DEF found
  <2> QED
    BY <1>1, <1>2, <1>4, <2>1, <2>2 DEF m
<1>7. CASE WriteRequest(c) \/ CleanupRequest(c)
  <2>1. /\ Reply(c, m, NoTxn, {}) /\ pend' = pend /\ ~m.answer /\ Counted(m)
    BY <1>2, <1>7 DEF WriteRequest, CleanupRequest, Take, Counted
  <2>2. {} \in SUBSET Flags
    OBVIOUS
  <2> QED
    BY <1>1, <1>2, <1>4, <2>1, <2>2 DEF m
<1>8. CASE SearchResponse(c) \/ ReserveRequest(c) \/ CheckResponse(c) \/ CountResponse(c)
  <2>1. Drop(c) /\ (pend' = pend \/ (Answered(m) /\ Counted(m)))
    <3>1. SearchResponse(c) => Drop(c) /\ Answered(m) /\ m.type = "SEARCH"
      BY <1>2 DEF SearchResponse, Take
    <3>2. CheckResponse(c) => Drop(c) /\ Answered(m) /\ m.type = "CHECK"
      BY <1>2 DEF CheckResponse, Take
    <3>3. CountResponse(c) => Drop(c) /\ Answered(m) /\ m.type \in {"WRITE", "CLEANUP"}
      BY <1>2 DEF CountResponse, Take
    <3>4. ReserveRequest(c) => Drop(c) /\ pend' = pend
      BY DEF ReserveRequest
    <3> QED
      BY <1>8, <3>1, <3>2, <3>3, <3>4 DEF Counted
  <2> QED
    BY <1>1, <1>2, <1>3, <2>1 DEF m
<1> QED
  BY <1>5, <1>6, <1>7, <1>8 DEF Process

\* Every step keeps to the discipline.
LEMMA DisciplineStep == Discipline /\ [Next]_vars => Discipline'
<1> SUFFICES ASSUME Discipline, [Next]_vars
             PROVE  MessagesOK' /\ NoDuplicates' /\ WaitsOK' /\ OutcomesOK'
  BY TypeStep DEF Discipline
<1>0. TypeOK /\ MessagesOK /\ NoDuplicates /\ WaitsOK /\ OutcomesOK /\ TypeOK'
  BY TypeStep DEF Discipline
\* Steps that leave the queues and the waiting alone.
<1>1. ASSUME UNCHANGED <<prog, pend, chan>> PROVE MessagesOK' /\ NoDuplicates'
  BY <1>0, <1>1 DEF MessagesOK, NoDuplicates, MessageOK, Accesses, Reads, Writes
<1>2. ASSUME NEW t \in Txns, Rollback(t)
      PROVE  MessagesOK' /\ NoDuplicates' /\ WaitsOK' /\ OutcomesOK'
  <2>1. /\ UNCHANGED <<block, phase, prog, pend, chan>> /\ Turn(t) /\ phase = "EXECUTE"
        /\ outcome' = [outcome EXCEPT ![t] = "no_retry"]
        /\ done' = [done EXCEPT ![t] = TRUE]
    BY <1>2 DEF Rollback, Mark
  <2>2. pend[t] = {} /\ t \in Current
    BY <2>1, NotAskedYet
  <2>3. \A u \in Txns : u # t => done'[u] = done[u] /\ outcome'[u] = outcome[u]
    BY <1>0, <2>1 DEF TypeOK
  <2>4. WaitsOK'
    BY <1>0, <2>1, <2>2, <2>3 DEF WaitsOK, WaitOK, Current, Accesses, Reads, Writes
  <2>5. OutcomesOK'
    BY <1>0, <2>1, <2>2, <2>3, ConstantTypes DEF OutcomesOK, Current, TypeOK
  <2> QED
    BY <1>1, <2>1, <2>4, <2>5
<1>3. ASSUME NEW t \in Txns, Execute(t)
      PROVE  MessagesOK' /\ NoDuplicates' /\ WaitsOK' /\ OutcomesOK'
  <2>1. /\ UNCHANGED <<block, phase, prog, outcome>> /\ Turn(t) /\ phase = "EXECUTE"
        /\ done' = [done EXCEPT ![t] = TRUE]
        /\ Ask(t, Requests("SEARCH", t, Remote(t, Reads(t)), FALSE) \cup
                  Requests("SEARCH", t, Remote(t, {}), TRUE))
    BY <1>3, NoRequests DEF Execute, Mark
  <2>2. MessagesOK' /\ NoDuplicates' /\ WaitsOK'
    <3>1. "SEARCH" \in Types /\ Reads(t) \in SUBSET Reads(t) /\ {} \in SUBSET Writes(t)
      BY DEF Types
    <3> QED
      BY <2>1, <3>1, AskWaits
  <2>3. OutcomesOK'
    BY <1>0, <2>1 DEF OutcomesOK, Current, TypeOK
  <2> QED
    BY <2>2, <2>3
<1>4. ASSUME NEW t \in Txns, Reserve(t)
      PROVE  MessagesOK' /\ NoDuplicates' /\ WaitsOK' /\ OutcomesOK'
  <2>1. /\ UNCHANGED <<block, phase, prog, outcome, pend>> /\ Turn(t) /\ phase = "RESERVE"
        /\ done' = [done EXCEPT ![t] = TRUE]
    BY <1>4 DEF Reserve, Mark
  <2>2. MessagesOK' /\ NoDuplicates'
    <3>1. CASE Unreserved(t)
      BY <1>1, <1>4, <2>1, <3>1 DEF Reserve
    <3>2. CASE ~Unreserved(t)
      <4>1. Send(Requests("RESERVE", t, Remote(t, Reads(t)), FALSE) \cup
                 Requests("RESERVE", t, Remote(t, Writes(t)), TRUE))
        BY <1>4, <3>2 DEF Reserve
      <4>2. /\ "RESERVE" \in Types /\ Reads(t) \in SUBSET Reads(t)
            /\ Writes(t) \in SUBSET Writes(t) /\ \A u \in Txns : pend[u] \subseteq pend'[u]
        BY <2>1 DEF Types
      <4> QED
        BY <1>0, <2>1, <4>1, <4>2, SendMessages
    <3> QED
      BY <3>1, <3>2
  <2>3. WaitsOK'
    <3>1. \A u \in Txns : u # t => done'[u] = done[u]
      BY <1>0, <2>1 DEF TypeOK
    <3>2. pend[t] = {}
      BY <2>1, NotAskedYet
    <3> QED
      BY <1>0, <2>1, <3>1, <3>2 DEF WaitsOK, WaitOK, Current, Accesses, Reads, Writes
  <2>4. OutcomesOK'
    BY <1>0, <2>1 DEF OutcomesOK, Current, TypeOK
  <2> QED
    BY <2>2, <2>3, <2>4
<1>5. ASSUME NEW t \in Txns, Analyze(t)
      PROVE  MessagesOK' /\ NoDuplicates' /\ WaitsOK' /\ OutcomesOK'
  <2>1. /\ UNCHANGED <<block, phase, prog, outcome>> /\ Turn(t) /\ phase = "ANALYZE"
        /\ done' = [done EXCEPT ![t] = TRUE]
    BY <1>5 DEF Analyze, Mark
  <2>2. OutcomesOK'
    BY <1>0, <2>1 DEF OutcomesOK, Current, TypeOK
  <2>3. CASE Unreserved(t)
    <3>1. pend' = pend /\ chan' = chan
      BY <1>5, <2>3 DEF Analyze
    <3>2. \A u \in Txns : u # t => done'[u] = done[u]
      BY <1>0, <2>1 DEF TypeOK
    <3>3. pend[t] = {}
      BY <2>1, NotAskedYet
    <3>4. WaitsOK'
      BY <1>0, <2>1, <3>1, <3>2, <3>3 DEF WaitsOK, WaitOK, Current, Accesses, Reads, Writes
    <3> QED
      BY <1>1, <2>1, <2>2, <3>1, <3>4
  <2>4. CASE ~Unreserved(t)
    <3>1. PICK asked \in SUBSET Remote(t, Reads(t)) :
            Ask(t, Requests("CHECK", t, asked, FALSE) \cup
                   Requests("CHECK", t, Remote(t, Writes(t)), TRUE))
      BY <1>5, <2>4 DEF Analyze
    <3>2. /\ asked \in SUBSET Reads(t) /\ asked = Remote(t, asked) /\ "CHECK" \in Types
          /\ Writes(t) \in SUBSET Writes(t)
      BY DEF Remote, Types
    <3>3. MessagesOK' /\ NoDuplicates' /\ WaitsOK'
      BY <2>1, <3>1, <3>2, AskWaits
    <3> QED
      BY <2>2, <3>3
  <2> QED
    BY <2>3, <2>4
<1>6. ASSUME NEW t \in Txns, Commit(t)
      PROVE  MessagesOK' /\ NoDuplicates' /\ WaitsOK' /\ OutcomesOK'
  <2>1. /\ UNCHANGED <<block, phase, prog>> /\ Turn(t) /\ phase = "FINALIZE"
        /\ pend[t] = {}
        /\ outcome' = [outcome EXCEPT ![t] = "committed"]
        /\ done' = [done EXCEPT ![t] = TRUE]
        /\ Ask(t, Requests("WRITE", t, Remote(t, {}), FALSE) \cup
                  Requests("WRITE", t, Remote(t, Writes(t)), TRUE))
    BY <1>6, NoRequests DEF Commit, Mark
  <2>2. MessagesOK' /\ NoDuplicates' /\ WaitsOK'
    <3>1. "WRITE" \in Types /\ {} \in SUBSET Reads(t) /\ Writes(t) \in SUBSET Writes(t)
      BY DEF Types
    <3> QED
      BY <2>1, <3>1, AskWaits
  <2>3. OutcomesOK'
    <3>1. \A u \in Txns : u # t => done'[u] = done[u] /\ outcome'[u] = outcome[u]
      BY <1>0, <2>1 DEF TypeOK
    <3>2. t \in Current /\ done'[t] /\ outcome'[t] = "committed"
      BY <1>0, <2>1, NotAskedYet DEF TypeOK
    <3> QED
      BY <1>0, <2>1, <3>1, <3>2, ConstantTypes DEF OutcomesOK, Current, TypeOK
  <2> QED
    BY <2>2, <2>3
<1>7. ASSUME NEW t \in Txns, Delay(t)
      PROVE  MessagesOK' /\ NoDuplicates' /\ WaitsOK' /\ OutcomesOK'
  <2>1. /\ UNCHANGED <<block, phase, prog, pend, chan>> /\ Turn(t) /\ phase = "FINALIZE"
        /\ pend[t] = {}
        /\ outcome' = [outcome EXCEPT ![t] = "delayed"]
        /\ done' = [done EXCEPT ![t] = TRUE]
    BY <1>7 DEF Delay, Mark
  <2>2. \A u \in Txns : u # t => done'[u] = done[u] /\ outcome'[u] = outcome[u]
    BY <1>0, <2>1 DEF TypeOK
  <2>3. t \in Current /\ done'[t] /\ outcome'[t] = "delayed"
    BY <1>0, <2>1, NotAskedYet DEF TypeOK
  <2>4. WaitsOK'
    BY <1>0, <2>1, <2>2 DEF WaitsOK, WaitOK, Current, Accesses, Reads, Writes
  <2>5. OutcomesOK'
    BY <1>0, <2>1, <2>2, <2>3, ConstantTypes DEF OutcomesOK, Current, TypeOK
  <2> QED
    BY <1>1, <2>1, <2>4, <2>5
<1>8. ASSUME NEW t \in Txns, Cleanup(t)
      PROVE  MessagesOK' /\ NoDuplicates' /\ WaitsOK' /\ OutcomesOK'
  <2>1. /\ UNCHANGED <<block, phase, prog, outcome>> /\ Turn(t) /\ phase = "CLEANUP"
        /\ done' = [done EXCEPT ![t] = TRUE]
        /\ Ask(t, Requests("CLEANUP", t, Remote(t, Reads(t)), FALSE) \cup
                  Requests("CLEANUP", t, Remote(t, Writes(t)), TRUE))
    BY <1>8 DEF Cleanup, Mark
  <2>2. MessagesOK' /\ NoDuplicates' /\ WaitsOK'
    <3>1. /\ "CLEANUP" \in Types /\ Reads(t) \in SUBSET Reads(t)
          /\ Writes(t) \in SUBSET Writes(t)
      BY DEF Types
    <3> QED
      BY <2>1, <3>1, AskWaits
  <2>3. OutcomesOK'
    BY <1>0, <2>1 DEF OutcomesOK, Current, TypeOK
  <2> QED
    BY <2>2, <2>3
<1>9. ASSUME NEW c \in Channels, Process(c)
      PROVE  MessagesOK' /\ NoDuplicates' /\ WaitsOK' /\ OutcomesOK'
  <2>1. /\ chan[c] # <<>> /\ Head(chan[c]) = chan[c][1]
        /\ UNCHANGED <<block, phase, prog, done, outcome, late>>
    BY <1>0, <1>9, ProcessShape
  <2>2. PICK answers \in SUBSET Message :
              /\ Taken(c, answers)
              /\ \A a \in answers :
                   /\ a.txn = chan[c][1].txn /\ Id(a) = Id(chan[c][1])
                   /\ a.answer /\ ~chan[c][1].answer /\ Counted(chan[c][1])
              /\ \/ pend' = pend
                 \/ /\ answers = {} /\ Counted(chan[c][1])
                    /\ pend' = [pend EXCEPT ![chan[c][1].txn] = @ \ {Id(chan[c][1])}]
    BY <1>0, <1>9, ProcessShape
  <2>3. chan[c][1].txn \in Txns
    BY <1>0, <2>1, HeadTypes
  <2>4. /\ \A u \in Txns : u # chan[c][1].txn => pend'[u] = pend[u]
        /\ \/ pend'[chan[c][1].txn] = pend[chan[c][1].txn]
           \/ /\ answers = {} /\ Counted(chan[c][1])
              /\ pend'[chan[c][1].txn] = pend[chan[c][1].txn] \ {Id(chan[c][1])}
    BY <1>0, <2>2, <2>3 DEF TypeOK
  <2>5. MessagesOK' /\ NoDuplicates'
    BY <1>0, <2>1, <2>2, <2>4, TakeMessages
  <2>6. \A u \in Txns : pend'[u] \subseteq pend[u]
    BY <2>3, <2>4
  <2>7. WaitsOK'
    BY <1>0, <2>1, <2>6 DEF WaitsOK, WaitOK, Current, Accesses, Reads, Writes
  <2>8. OutcomesOK'
    BY <1>0, <2>1 DEF OutcomesOK, Current
  <2> QED
    BY <2>5, <2>7, <2>8
<1>10. CASE EndPhase
  <2>1. /\ UNCHANGED <<block, prog, pend, outcome, chan>>
        /\ phase \in Phases \ {"CLEANUP"} /\ phase' = NextPhase /\ PhaseOver /\ Waited
        /\ done' = [t \in Txns |-> FALSE]
    BY <1>10 DEF EndPhase
  <2>2. WaitsOK'
    <3> SUFFICES ASSUME NEW t \in Txns, NEW id \in pend[t]
                 PROVE  WaitOK(t, id)'
      BY <2>1 DEF WaitsOK
    <3>1. WaitOK(t, id) /\ id[1] \in Types /\ t \in Current
      BY <1>0, WaitTypes DEF WaitsOK, WaitOK
    <3>2. phase \in {"ANALYZE", "FINALIZE"}
      BY <2>1, <3>1 DEF Waited, Phases
    <3>3. phase = "FINALIZE" /\ ~done[t] => outcome[t] = "no_retry"
      BY <2>1, <3>1 DEF PhaseOver, Working
    <3>4. id[1] # "SEARCH" /\ id[1] # "CLEANUP"
      BY <3>1, <3>2 DEF WaitOK
    <3>5. phase' = IF phase = "ANALYZE" THEN "FINALIZE" ELSE "CLEANUP"
      BY <2>1, <3>2 DEF NextPhase
    <3> QED
      BY <2>1, <3>1, <3>2, <3>3, <3>4, <3>5
      DEF WaitOK, Current, Accesses, Reads, Writes
  <2>3. OutcomesOK'
    <3>1. phase' \in {"RESERVE", "ANALYZE", "FINALIZE", "CLEANUP"} /\ phase' # phase
          /\ (phase \in {"FINALIZE", "CLEANUP", "DONE"} => phase' = "CLEANUP")
      BY <2>1 DEF NextPhase, Phases
    <3> QED
      BY <1>0, <2>1, <3>1 DEF OutcomesOK, Current
  <2> QED
    BY <1>1, <2>1, <2>2, <2>3
<1>11. CASE EndBlock
  <2>1. /\ UNCHANGED <<prog, pend, outcome, chan>>
        /\ phase = "CLEANUP" /\ Waited /\ block' \in {block, block + 1}
        /\ (block' = block => phase' = "DONE") /\ phase' \in {"EXECUTE", "DONE"}
        /\ block \in Nat
    BY <1>0, <1>11, ScheduleAssumption DEF EndBlock, TypeOK
  <2>2. \A t \in Txns : pend[t] = {}
    BY <1>0, <2>1 DEF Waited, WaitsOK, WaitOK
  <2>3. WaitsOK'
    BY <2>1, <2>2 DEF WaitsOK
  <2>4. OutcomesOK'
    BY <1>0, <2>1, ConstantTypes DEF OutcomesOK, Current, TypeOK
  <2> QED
    BY <1>1, <2>1, <2>3, <2>4
<1>12. CASE UNCHANGED vars
  <2>1. UNCHANGED <<block, phase, prog, done, pend, outcome, chan>>
    BY <1>12 DEF vars
  <2> QED
    BY <1>0, <1>1, <2>1
    DEF WaitsOK, WaitOK, OutcomesOK, Current, Accesses, Reads, Writes
<1> QED
  BY <1>2, <1>3, <1>4, <1>5, <1>6, <1>7, <1>8, <1>9, <1>10, <1>11, <1>12 DEF Next, Work

\* Every message is one a transaction waits for, none is in flight twice, and
\* who waits and who has an outcome is at the right point of the block: the
\* counting of pendingResponses in the handlers of ProdccMessage.h.
THEOREM DisciplineHolds == Spec => []Discipline
<1>1. Init => Discipline
  BY DisciplineInit
<1>2. Discipline /\ [Next]_vars => Discipline'
  BY DisciplineStep
<1> QED
  BY <1>1, <1>2, PTL DEF Spec
-----------------------------------------------------------------------------
(* The commits of a micro-block do not conflict, for every schedule whose  *)
(* epochs fit the word: the reservations are complete when they are looked *)
(* at, the checks find every conflict with a smaller id, and the decision  *)
(* of finalize_transactions leaves an order in which the commits can be    *)
(* executed one after the other.                                           *)

(* Reservations: after RESERVE, unless one is late, every row holds ids as *)
(* small as those of all the transactions that access it.                  *)

HoldsIn(w, e, tid, write) ==
  LET ts == IF write THEN w.wts ELSE w.rts
  IN  w.epoch = e /\ ts # 0 /\ ts <= tid

\* A reservation holds once made, and takes no other reservation away.
LEMMA ReserveReadFacts ==
  ASSUME NEW w \in Word, NEW e \in Nat, e < EpochModulus, w.epoch <= e,
         NEW tid \in Nat \ {0}
  PROVE  /\ ReserveRead(w, e, tid).epoch = e
         /\ HoldsIn(ReserveRead(w, e, tid), e, tid, FALSE)
         /\ \A other \in Nat : \A write \in BOOLEAN :
              HoldsIn(w, e, other, write) => HoldsIn(ReserveRead(w, e, tid), e, other, write)
<1>1. StoredEpoch(e) = e
  BY StoredEpochFacts
<1>2. /\ w.epoch \in Nat /\ w.rts \in Nat /\ w.wts \in Nat
      /\ w = [epoch |-> w.epoch, rts |-> w.rts, wts |-> w.wts]
  BY DEF Word
<1>3. CASE w.epoch < e
  BY <1>1, <1>2, <1>3 DEF ReserveRead, HoldsIn
<1>4. CASE w.epoch = e
  <2>1. ReserveRead(w, e, tid) = IF w.rts # 0 /\ w.rts < tid THEN w
                                ELSE [w EXCEPT !.rts = tid]
    BY <1>2, <1>4 DEF ReserveRead
  <2> QED
    BY <1>2, <1>4, <2>1 DEF HoldsIn
<1>5. w.epoch < e \/ w.epoch = e
  BY <1>2
<1> QED
  BY <1>3, <1>4, <1>5, Zenon

\* The same for writing.
LEMMA ReserveWriteFacts ==
  ASSUME NEW w \in Word, NEW e \in Nat, e < EpochModulus, w.epoch <= e,
         NEW tid \in Nat \ {0}
  PROVE  /\ ReserveWrite(w, e, tid).epoch = e
         /\ HoldsIn(ReserveWrite(w, e, tid), e, tid, TRUE)
         /\ \A other \in Nat : \A write \in BOOLEAN :
              HoldsIn(w, e, other, write) => HoldsIn(ReserveWrite(w, e, tid), e, other, write)
<1>1. StoredEpoch(e) = e
  BY StoredEpochFacts
<1>2. /\ w.epoch \in Nat /\ w.rts \in Nat /\ w.wts \in Nat
      /\ w = [epoch |-> w.epoch, rts |-> w.rts, wts |-> w.wts]
  BY DEF Word
<1>3. CASE w.epoch < e
  BY <1>1, <1>2, <1>3 DEF ReserveWrite, HoldsIn
<1>4. CASE w.epoch = e
  <2>1. ReserveWrite(w, e, tid) = IF w.wts # 0 /\ w.wts < tid THEN w
                                ELSE [w EXCEPT !.wts = tid]
    BY <1>2, <1>4 DEF ReserveWrite
  <2> QED
    BY <1>2, <1>4, <2>1 DEF HoldsIn
<1>5. w.epoch < e \/ w.epoch = e
  BY <1>2
<1> QED
  BY <1>3, <1>4, <1>5, Zenon

\* A step that leaves the words and the RESERVE messages alone leaves the
\* reservations alone.
LEMMA QuietReservations ==
  ASSUME Discipline, ReservationsOK,
         prog' = prog, late' = late, word' = word, block' = block, phase' = phase,
         \A t \in Txns : HasReserved(t)' => HasReserved(t),
         \A c \in Channels : \A i \in 1..Len(chan'[c]) :
           chan'[c][i].type = "RESERVE" =>
             \E d \in Channels : \E j \in 1..Len(chan[d]) : chan[d][j] = chan'[c][i],
         \A c \in Channels : \A i \in 1..Len(chan[c]) :
           chan[c][i].type = "RESERVE" =>
             \E d \in Channels : \E j \in 1..Len(chan'[d]) : chan'[d][j] = chan[c][i]
  PROVE  ReservationsOK'
<1> SUFFICES ASSUME ~late PROVE ReservationsOK'
  BY DEF ReservationsOK
<1>1. \A k \in Keys : word'[k].epoch <= EpochOf[block']
  BY DEF ReservationsOK
<1>2. \A c \in Channels : \A i \in 1..Len(chan'[c]) :
        chan'[c][i].type = "RESERVE" =>
          phase' = "RESERVE" /\ BlockOf[chan'[c][i].txn] = block' /\ chan'[c][i].txn \in Txns
  BY DEF ReservationsOK, Current
<1>3. ASSUME NEW t \in Txns, HasReserved(t)', NEW write \in BOOLEAN,
             NEW k \in Accesses(t, write)
      PROVE  Holds(t, k, write)' \/ (phase' = "RESERVE" /\ Asking(t, k, write)')
  <2>1. Holds(t, k, write) \/ (phase = "RESERVE" /\ Asking(t, k, write))
    BY <1>3 DEF ReservationsOK
  <2>2. Holds(t, k, write) => Holds(t, k, write)'
    BY DEF Holds, Epoch
  <2>3. Asking(t, k, write) => Asking(t, k, write)'
    BY DEF Asking
  <2> QED
    BY <2>1, <2>2, <2>3
<1>4. \A t \in Txns : \A write \in BOOLEAN : Accesses(t, write)' = Accesses(t, write)
  BY DEF Accesses, Reads, Writes
<1> QED
  BY <1>1, <1>2, <1>3, <1>4 DEF ReservationsOK, Current

\* Sending anything but a RESERVE leaves the reservations in flight alone.
LEMMA QuietSend ==
  ASSUME Discipline, ReservationsOK,
         prog' = prog, late' = late, word' = word, block' = block, phase' = phase,
         \A u \in Txns : Live(u)' => Live(u),
         \A u \in Txns : done'[u] = done[u] \/ phase # "RESERVE",
         NEW t \in Txns, NEW type \in Types, type # "RESERVE",
         NEW r \in SUBSET Reads(t), NEW w \in SUBSET Writes(t),
         Extended(Requests(type, t, Remote(t, r), FALSE) \cup
                  Requests(type, t, Remote(t, w), TRUE))
  PROVE  ReservationsOK'
<1> DEFINE msgs == Requests(type, t, Remote(t, r), FALSE) \cup
                   Requests(type, t, Remote(t, w), TRUE)
<1>1. \A m \in msgs : m.type = type
  BY DEF Requests
<1>2. Extended(msgs)
  OBVIOUS
<1> HIDE DEF msgs
<1>3. ASSUME NEW c \in Channels, NEW i \in 1..Len(chan'[c]), chan'[c][i].type = "RESERVE"
      PROVE  \E d \in Channels : \E j \in 1..Len(chan[d]) : chan[d][j] = chan'[c][i]
  BY <1>1, <1>2, <1>3 DEF Extended
<1>4. ASSUME NEW c \in Channels, NEW i \in 1..Len(chan[c])
      PROVE  \E d \in Channels : \E j \in 1..Len(chan'[d]) : chan'[d][j] = chan[c][i]
  BY <1>2 DEF Extended
<1>5. \A u \in Txns : HasReserved(u)' => HasReserved(u)
  BY DEF HasReserved, Reserving, Unreserved, IsReadOnly, Writes, Current
<1> QED
  BY <1>3, <1>4, <1>5, QuietReservations

\* The epochs of the block at hand.
LEMMA CurrentEpoch ==
  ASSUME TypeOK, EpochsFit, NEW t \in Current
  PROVE  /\ Epoch(t) = EpochOf[block] /\ Epoch(t) \in Nat /\ Epoch(t) < EpochModulus
         /\ Tid[t] \in Nat \ {0} /\ t \in Txns
BY ScheduleAssumption, TidAssumption DEF TypeOK, EpochsFit, Current, Epoch

\* Holds is about the word of the row.
LEMMA HoldsFacts ==
  ASSUME NEW t, NEW k, NEW write
  PROVE  Holds(t, k, write) <=> HoldsIn(word[k], Epoch(t), Tid[t], write)
BY DEF Holds, HoldsIn

\* What RESERVE does to one word.
LEMMA ReservedFacts ==
  ASSUME TypeOK, EpochsFit, NEW t \in Current, NEW k \in Keys,
         word[k].epoch <= EpochOf[block]
  PROVE  /\ Reserved(t, k, word[k]).epoch <= EpochOf[block]
         /\ k \in Local(t, Reads(t)) =>
              HoldsIn(Reserved(t, k, word[k]), Epoch(t), Tid[t], FALSE)
         /\ k \in Local(t, Writes(t)) =>
              HoldsIn(Reserved(t, k, word[k]), Epoch(t), Tid[t], TRUE)
         /\ \A tid \in Nat : \A write \in BOOLEAN :
              HoldsIn(word[k], Epoch(t), tid, write) =>
                HoldsIn(Reserved(t, k, word[k]), Epoch(t), tid, write)
<1> DEFINE e == Epoch(t)
           r == IF k \in Local(t, Reads(t)) THEN ReserveRead(word[k], e, Tid[t]) ELSE word[k]
<1>1. /\ e = EpochOf[block] /\ e \in Nat /\ e < EpochModulus /\ Tid[t] \in Nat \ {0}
      /\ word[k] \in Word /\ word[k].epoch <= e
  BY CurrentEpoch DEF TypeOK
<1>2. Reserved(t, k, word[k]) = IF k \in Local(t, Writes(t)) THEN ReserveWrite(r, e, Tid[t])
                                                             ELSE r
  BY DEF Reserved
<1> HIDE DEF e
<1>3. /\ r \in Word /\ r.epoch <= e
      /\ k \in Local(t, Reads(t)) => HoldsIn(r, e, Tid[t], FALSE)
      /\ \A tid \in Nat : \A write \in BOOLEAN :
           HoldsIn(word[k], e, tid, write) => HoldsIn(r, e, tid, write)
  <2>1. CASE k \in Local(t, Reads(t))
    <3>1. r = ReserveRead(word[k], e, Tid[t])
      BY <2>1
    <3> HIDE DEF r
    <3>2. /\ r.epoch = e /\ HoldsIn(r, e, Tid[t], FALSE)
          /\ \A tid \in Nat : \A write \in BOOLEAN :
               HoldsIn(word[k], e, tid, write) => HoldsIn(r, e, tid, write)
      <4>1. /\ ReserveRead(word[k], e, Tid[t]).epoch = e
            /\ HoldsIn(ReserveRead(word[k], e, Tid[t]), e, Tid[t], FALSE)
            /\ \A other \in Nat : \A write \in BOOLEAN :
                 HoldsIn(word[k], e, other, write) =>
                   HoldsIn(ReserveRead(word[k], e, Tid[t]), e, other, write)
        BY <1>1, ReserveReadFacts, Zenon
      <4> QED
        BY <3>1, <4>1, Zenon
    <3>3. r \in Word /\ r.epoch <= e
      BY <1>1, <3>1, <3>2, ReserveTypes
    <3> QED
      BY <3>2, <3>3, Zenon
  <2>2. CASE k \notin Local(t, Reads(t))
    BY <1>1, <2>2
  <2> QED
    BY <2>1, <2>2, Zenon
<1> HIDE DEF r
<1>4. CASE k \in Local(t, Writes(t))
  <2>1. Reserved(t, k, word[k]) = ReserveWrite(r, e, Tid[t])
    BY <1>2, <1>4
  <2>2. /\ ReserveWrite(r, e, Tid[t]).epoch = e
        /\ HoldsIn(ReserveWrite(r, e, Tid[t]), e, Tid[t], TRUE)
        /\ \A other \in Nat : \A write \in BOOLEAN : HoldsIn(r, e, other, write) =>
             HoldsIn(ReserveWrite(r, e, Tid[t]), e, other, write)
    <3>1. /\ r \in Word /\ r.epoch <= e /\ e \in Nat /\ e < EpochModulus
          /\ Tid[t] \in Nat \ {0}
      BY <1>1, <1>3
    <3> QED
      BY <3>1, ReserveWriteFacts, Zenon
  <2>3. Reserved(t, k, word[k]).epoch <= EpochOf[block]
    BY <1>1, <2>1, <2>2
  <2>4. k \in Local(t, Reads(t)) => HoldsIn(ReserveWrite(r, e, Tid[t]), e, Tid[t], FALSE)
    <3>1. Tid[t] \in Nat
      BY <1>1
    <3> QED
      BY <1>3, <2>2, <3>1, Zenon
  <2> QED
    BY <1>3, <2>1, <2>2, <2>3, <2>4, Zenon DEF e
<1>5. CASE k \notin Local(t, Writes(t))
  <2>1. Reserved(t, k, word[k]) = r
    BY <1>2, <1>5
  <2>2. r.epoch <= EpochOf[block]
    BY <1>1, <1>3
  <2> QED
    BY <1>3, <1>5, <2>1, <2>2, Zenon DEF e
<1> QED
  BY <1>4, <1>5, Zenon

\* The step that reserves: local rows at once, remote rows by message.
LEMMA ReserveStep ==
  ASSUME Discipline, ReservationsOK, EpochsFit, TypeOK', NEW t \in Txns, Reserve(t)
  PROVE  ReservationsOK'
<1> SUFFICES ASSUME ~late PROVE ReservationsOK'
  BY DEF Reserve, ReservationsOK
<1>1. /\ UNCHANGED <<block, phase, prog, outcome, late>> /\ Turn(t) /\ phase = "RESERVE"
      /\ done' = [done EXCEPT ![t] = TRUE]
  BY DEF Reserve, Mark
<1>2. TypeOK /\ t \in Current
  BY <1>1, NotAskedYet DEF Discipline
<1>3. \A u : /\ Live(u)' = Live(u) /\ Unreserved(u)' = Unreserved(u)
             /\ (u \in Current)' = (u \in Current)
             /\ \A write \in BOOLEAN : Accesses(u, write)' = Accesses(u, write)
  BY <1>1 DEF Live, Unreserved, IsReadOnly, Writes, Reads, Accesses, Current
<1>4. \A u \in Txns : u # t => (HasReserved(u)' => HasReserved(u))
  BY <1>1, <1>2, <1>3 DEF HasReserved, Reserving, TypeOK
<1>5. CASE Unreserved(t)
  <2>1. word' = word /\ chan' = chan
    BY <1>5 DEF Reserve
  <2>2. \A u \in Txns : HasReserved(u)' => HasReserved(u)
    BY <1>3, <1>4, <1>5 DEF HasReserved, Reserving
  <2> QED
    BY <1>1, <2>1, <2>2, QuietReservations
<1>6. CASE ~Unreserved(t)
  <2> DEFINE msgs == Requests("RESERVE", t, Remote(t, Reads(t)), FALSE) \cup
                     Requests("RESERVE", t, Remote(t, Writes(t)), TRUE)
  <2>1. /\ word' = [k \in Keys |-> Reserved(t, k, word[k])]
        /\ Send(msgs)
    BY <1>6 DEF Reserve
  <2>2. msgs \in SUBSET Message /\ IsFiniteSet(msgs)
    BY <1>2, MessageTypes DEF Types
  <2>3. \A m \in msgs : m.txn = t /\ Route(m) \in Channels
    <3>1. "RESERVE" \in Types /\ Reads(t) \in SUBSET Reads(t) /\ Writes(t) \in SUBSET Writes(t)
      BY DEF Types
    <3>2. \A m \in msgs :
            /\ m = [type |-> "RESERVE", answer |-> FALSE, txn |-> t, key |-> m.key,
                    write |-> m.write, val |-> NoTxn, found |-> {}]
            /\ m.txn = t /\ m.type = "RESERVE" /\ m.answer = FALSE
            /\ m.write \in BOOLEAN /\ m.key \in Keys
            /\ m.key \in Remote(t, IF m.write THEN Writes(t) ELSE Reads(t))
            /\ m.key \in Accesses(t, m.write) /\ Home[t] # Owner[m.key]
            /\ Id(m) = <<"RESERVE", m.key, m.write>>
            /\ Route(m) = <<Home[t], Owner[m.key], WorkerOf[t]>>
            /\ Route(m) \in Channels
      BY <1>2, <3>1, RequestsShape, Zenon
    <3> HIDE DEF msgs
    <3> QED
      BY <3>2
  <2>4. \A write \in BOOLEAN : \A k \in Accesses(t, write) : Home[t] # Owner[k] =>
          \E m \in msgs : m.type = "RESERVE" /\ m.txn = t /\ m.key = k /\ m.write = write
    <3> TAKE write \in BOOLEAN
    <3> TAKE k \in Accesses(t, write)
    <3> HAVE Home[t] # Owner[k]
    <3> DEFINE m == [type |-> "RESERVE", answer |-> FALSE, txn |-> t, key |-> k,
                     write |-> write, val |-> NoTxn, found |-> {}]
    <3>1. m \in msgs
      BY DEF Requests, Remote, Accesses
    <3>2. m.type = "RESERVE" /\ m.txn = t /\ m.key = k /\ m.write = write
      OBVIOUS
    <3> QED
      BY <3>1, <3>2
  <2> HIDE DEF msgs
  <2>5. Extended(msgs)
    BY <1>2, <2>1, <2>2, SendFacts DEF TypeOK
  <2>6. \A k \in Keys : /\ word'[k].epoch <= EpochOf[block']
                        /\ k \in Local(t, Reads(t)) =>
                             HoldsIn(word'[k], Epoch(t), Tid[t], FALSE)
                        /\ k \in Local(t, Writes(t)) =>
                             HoldsIn(word'[k], Epoch(t), Tid[t], TRUE)
                        /\ \A tid \in Nat : \A write \in BOOLEAN :
                             HoldsIn(word[k], Epoch(t), tid, write) =>
                               HoldsIn(word'[k], Epoch(t), tid, write)
    <3> TAKE k \in Keys
    <3>1. word[k].epoch <= EpochOf[block] /\ block' = block
      BY <1>1 DEF ReservationsOK
    <3>2. word'[k] = Reserved(t, k, word[k])
      BY <2>1
    <3>3. /\ Reserved(t, k, word[k]).epoch <= EpochOf[block]
          /\ k \in Local(t, Reads(t)) =>
               HoldsIn(Reserved(t, k, word[k]), Epoch(t), Tid[t], FALSE)
          /\ k \in Local(t, Writes(t)) =>
               HoldsIn(Reserved(t, k, word[k]), Epoch(t), Tid[t], TRUE)
          /\ \A tid \in Nat : \A write \in BOOLEAN :
               HoldsIn(word[k], Epoch(t), tid, write) =>
                 HoldsIn(Reserved(t, k, word[k]), Epoch(t), tid, write)
      BY <1>2, <3>1, ReservedFacts, Zenon
    <3> QED
      BY <3>1, <3>2, <3>3, Zenon
  <2>7. \A c \in Channels : \A i \in 1..Len(chan'[c]) :
          chan'[c][i].type = "RESERVE" => phase' = "RESERVE" /\ (chan[c][i].txn \in Current)'
    BY <1>1, <1>2, <2>3, <2>5 DEF Extended, ReservationsOK, Current
  <2>8. ASSUME NEW u \in Txns, HasReserved(u)', NEW write \in BOOLEAN, NEW k \in Accesses(u, write)
        PROVE  HoldsIn(word'[k], Epoch(u), Tid[u], write) \/ Asking(u, k, write)'
    <3>1. u \in Current /\ Epoch(u) = Epoch(t) /\ Tid[u] \in Nat /\ k \in Keys
      BY <1>2, <1>3, <2>8, AccessTypes, CurrentEpoch DEF HasReserved, Accesses
    <3>2. CASE u # t
      <4>1. Holds(u, k, write) \/ Asking(u, k, write)
        BY <1>4, <2>8, <3>2 DEF ReservationsOK
      <4>2. Holds(u, k, write) => HoldsIn(word[k], Epoch(t), Tid[u], write)
        BY <3>1, HoldsFacts, Zenon
      <4>3. Holds(u, k, write) => HoldsIn(word'[k], Epoch(u), Tid[u], write)
        BY <2>6, <3>1, <4>2, Zenon
      <4>4. Asking(u, k, write) => Asking(u, k, write)'
        <5> SUFFICES ASSUME NEW c \in Channels, NEW i \in 1..Len(chan[c]),
                            chan[c][i].type = "RESERVE", chan[c][i].txn = u,
                            chan[c][i].key = k, chan[c][i].write = write
                     PROVE  Asking(u, k, write)'
          BY DEF Asking
        <5>1. i \in 1..Len(chan'[c]) /\ chan'[c][i] = chan[c][i]
          BY <2>5 DEF Extended
        <5> QED
          BY <5>1 DEF Asking
      <4> QED
        BY <4>1, <4>3, <4>4
    <3>3. CASE u = t /\ Home[t] = Owner[k]
      <4>1. (write => k \in Local(t, Writes(t))) /\ (~write => k \in Local(t, Reads(t)))
        BY <2>8, <3>3 DEF Accesses, Local
      <4>2. CASE write
        BY <2>6, <3>1, <3>3, <4>1, <4>2, Zenon
      <4>3. CASE ~write
        BY <2>6, <3>1, <3>3, <4>1, <4>3, Zenon
      <4> QED
        BY <4>2, <4>3
    <3>4. CASE u = t /\ Home[t] # Owner[k]
      <4>1. PICK m \in msgs : m.type = "RESERVE" /\ m.txn = t /\ m.key = k /\ m.write = write
        BY <2>4, <2>8, <3>4
      <4>2. PICK i \in 1..Len(chan'[Route(m)]) : chan'[Route(m)][i] = m
        BY <2>3, <2>5, <4>1 DEF Extended
      <4> QED
        BY <2>3, <3>4, <4>1, <4>2 DEF Asking
    <3> QED
      BY <3>2, <3>3, <3>4
  <2>9. ASSUME NEW u \in Txns, HasReserved(u)', NEW write \in BOOLEAN,
               NEW k \in Accesses(u, write)'
        PROVE  Holds(u, k, write)' \/ (phase' = "RESERVE" /\ Asking(u, k, write)')
    <3>1. k \in Accesses(u, write)
      BY <1>3
    <3>2. HoldsIn(word'[k], Epoch(u), Tid[u], write) => Holds(u, k, write)'
      BY DEF Holds, HoldsIn, Epoch
    <3> QED
      BY <1>1, <2>8, <2>9, <3>1, <3>2
  <2> QED
    BY <2>6, <2>7, <2>9 DEF ReservationsOK
<1> QED
  BY <1>5, <1>6

\* No RESERVE is in flight outside the phase, so that a word that changes
\* later only has to keep to the epoch.
LEMMA PastReservations ==
  ASSUME ReservationsOK, prog' = prog, late' = late, block' = block, phase' = phase,
         phase \notin {"RESERVE", "ANALYZE", "FINALIZE"},
         ~late => \A k \in Keys : word'[k].epoch <= EpochOf[block],
         \A c \in Channels : \A i \in 1..Len(chan'[c]) :
           chan'[c][i].type = "RESERVE" =>
             \E d \in Channels : \E j \in 1..Len(chan[d]) : chan[d][j] = chan'[c][i]
  PROVE  ReservationsOK'
<1>1. \A t : ~HasReserved(t)'
  BY DEF HasReserved
<1>2. ~late => \A c \in Channels : \A i \in 1..Len(chan'[c]) : chan'[c][i].type # "RESERVE"
  BY DEF ReservationsOK
<1> QED
  BY <1>1, <1>2 DEF ReservationsOK

\* Taking a message that is not a RESERVE leaves those in flight alone.
LEMMA QuietTake ==
  ASSUME TypeOK, NEW c \in Channels, chan[c] # <<>>, chan[c][1].type # "RESERVE",
         NEW answers, Taken(c, answers), \A a \in answers : a.type # "RESERVE"
  PROVE  /\ \A d \in Channels : \A i \in 1..Len(chan'[d]) :
              chan'[d][i].type = "RESERVE" =>
                \E e \in Channels : \E j \in 1..Len(chan[e]) : chan[e][j] = chan'[d][i]
         /\ \A d \in Channels : \A i \in 1..Len(chan[d]) :
              chan[d][i].type = "RESERVE" =>
                \E e \in Channels : \E j \in 1..Len(chan'[e]) : chan'[e][j] = chan[d][i]
BY DEF Taken

\* What handling a RESERVE does: the word takes the reservation in, and the
\* other reservations are where they were.
LEMMA ReserveRequestStep ==
  ASSUME Discipline, ReservationsOK, EpochsFit, NEW c \in Channels, ReserveRequest(c)
  PROVE  ReservationsOK'
<1> SUFFICES ASSUME ~late PROVE ReservationsOK'
  BY DEF ReserveRequest, ReservationsOK
<1> DEFINE m == chan[c][1]
<1>1. /\ UNCHANGED <<block, phase, prog, done, outcome, late>>
      /\ chan[c] # <<>> /\ m = Head(chan[c]) /\ m.type = "RESERVE"
      /\ m.txn \in Txns /\ m.key \in Keys /\ m.write \in BOOLEAN
      /\ 1 \in 1..Len(chan[c])
      /\ Drop(c)
  <2>1. chan[c] # <<>>
    BY DEF ReserveRequest, Take
  <2> QED
    BY <2>1, HeadTypes DEF ReserveRequest, Take, Discipline
<1>2. TypeOK /\ chan \in [Channels -> Seq(Message)] /\ word \in [Keys -> Word]
  BY DEF Discipline, TypeOK
<1>3. Taken(c, {})
  BY <1>1, <1>2, DropFacts
<1>4. m.txn \in Current /\ phase = "RESERVE"
  BY <1>1 DEF ReservationsOK
<1> DEFINE e == Epoch(m.txn)
           new == IF m.write THEN ReserveWrite(word[m.key], e, Tid[m.txn])
                             ELSE ReserveRead(word[m.key], e, Tid[m.txn])
<1>5. word' = [word EXCEPT ![m.key] = new]
  BY <1>1 DEF ReserveRequest
<1> HIDE DEF m
<1>6. /\ e = EpochOf[block] /\ e \in Nat /\ e < EpochModulus /\ Tid[m.txn] \in Nat \ {0}
      /\ word[m.key] \in Word /\ word[m.key].epoch <= e
  BY <1>1, <1>2, <1>4, CurrentEpoch DEF ReservationsOK
<1> HIDE DEF e
<1>7. /\ new.epoch = e
      /\ HoldsIn(new, e, Tid[m.txn], m.write)
      /\ \A tid \in Nat : \A write \in BOOLEAN :
           HoldsIn(word[m.key], e, tid, write) => HoldsIn(new, e, tid, write)
  <2>1. CASE m.write
    <3>1. new = ReserveWrite(word[m.key], e, Tid[m.txn]) /\ m.write = TRUE
      BY <1>1, <2>1
    <3>2. /\ ReserveWrite(word[m.key], e, Tid[m.txn]).epoch = e
          /\ HoldsIn(ReserveWrite(word[m.key], e, Tid[m.txn]), e, Tid[m.txn], TRUE)
          /\ \A other \in Nat : \A write \in BOOLEAN :
               HoldsIn(word[m.key], e, other, write) =>
                 HoldsIn(ReserveWrite(word[m.key], e, Tid[m.txn]), e, other, write)
      BY <1>6, ReserveWriteFacts, Zenon
    <3> HIDE DEF new
    <3> QED
      BY <3>1, <3>2
  <2>2. CASE ~m.write
    <3>1. new = ReserveRead(word[m.key], e, Tid[m.txn]) /\ m.write = FALSE
      BY <1>1, <2>2
    <3>2. /\ ReserveRead(word[m.key], e, Tid[m.txn]).epoch = e
          /\ HoldsIn(ReserveRead(word[m.key], e, Tid[m.txn]), e, Tid[m.txn], FALSE)
          /\ \A other \in Nat : \A write \in BOOLEAN :
               HoldsIn(word[m.key], e, other, write) =>
                 HoldsIn(ReserveRead(word[m.key], e, Tid[m.txn]), e, other, write)
      BY <1>6, ReserveReadFacts, Zenon
    <3> HIDE DEF new
    <3> QED
      BY <3>1, <3>2
  <2> QED
    BY <2>1, <2>2
<1> HIDE DEF new
<1>8. \A k \in Keys : /\ word'[k].epoch <= EpochOf[block']
                      /\ \A tid \in Nat : \A write \in BOOLEAN :
                           HoldsIn(word[k], e, tid, write) => HoldsIn(word'[k], e, tid, write)
  <2> TAKE k \in Keys
  <2>1. CASE k = m.key
    <3>1. word'[k] = new /\ word[k] = word[m.key]
      BY <1>2, <1>5, <2>1
    <3>2. new.epoch <= EpochOf[block']
      BY <1>1, <1>6, <1>7
    <3> QED
      BY <1>7, <3>1, <3>2, Zenon
  <2>2. CASE k # m.key
    BY <1>1, <1>2, <1>5, <2>2 DEF ReservationsOK
  <2> QED
    BY <2>1, <2>2, Zenon
<1>9. \A u : (HasReserved(u)' = HasReserved(u))
             /\ \A write : Accesses(u, write)' = Accesses(u, write)
  BY <1>1 DEF HasReserved, Reserving, Live, Unreserved, IsReadOnly, Accesses, Reads, Writes,
             Current
<1>10. ASSUME NEW u \in Txns, HasReserved(u), NEW write \in BOOLEAN,
              NEW k \in Accesses(u, write)
       PROVE  HoldsIn(word'[k], Epoch(u), Tid[u], write) \/ Asking(u, k, write)'
  <2>1. Holds(u, k, write) \/ Asking(u, k, write)
    BY <1>10 DEF ReservationsOK
  <2>2. Epoch(u) = e /\ Tid[u] \in Nat /\ k \in Keys
    BY <1>2, <1>6, <1>10, AccessTypes, CurrentEpoch DEF HasReserved, Accesses
  <2>3. CASE Holds(u, k, write)
    <3>1. HoldsIn(word[k], e, Tid[u], write)
      BY <2>2, <2>3, HoldsFacts, Zenon
    <3> QED
      BY <1>8, <2>2, <3>1, Zenon
  <2>4. CASE Asking(u, k, write)
    <3>0. PICK d \in Channels : \E i \in 1..Len(chan[d]) :
            /\ chan[d][i].type = "RESERVE" /\ chan[d][i].txn = u
            /\ chan[d][i].key = k /\ chan[d][i].write = write
      BY <2>4 DEF Asking
    <3>1. PICK i \in 1..Len(chan[d]) :
            /\ chan[d][i].type = "RESERVE" /\ chan[d][i].txn = u
            /\ chan[d][i].key = k /\ chan[d][i].write = write
      BY <3>0
    <3>2. CASE d = c /\ i = 1
      <4>1. m.txn = u /\ m.key = k /\ m.write = write /\ word'[k] = new
        BY <1>1, <1>2, <1>5, <3>1, <3>2 DEF m
      <4>2. HoldsIn(new, e, Tid[u], write)
        BY <1>7, <4>1
      <4> QED
        BY <2>2, <4>1, <4>2, Zenon
    <3>3. CASE ~(d = c /\ i = 1)
      <4>1. /\ i - Off(c, d) \in 1..Len(chan'[d])
            /\ chan'[d][i - Off(c, d)] = chan[d][i]
        BY <1>3, <3>3 DEF Taken
      <4> QED
        BY <3>1, <4>1 DEF Asking
    <3> QED
      BY <3>2, <3>3
  <2> QED
    BY <2>1, <2>3, <2>4
<1>11. ASSUME NEW u \in Txns, HasReserved(u)', NEW write \in BOOLEAN,
              NEW k \in Accesses(u, write)'
       PROVE  Holds(u, k, write)' \/ (phase' = "RESERVE" /\ Asking(u, k, write)')
  <2>1. HasReserved(u) /\ k \in Accesses(u, write)
    BY <1>9, <1>11
  <2>2. HoldsIn(word'[k], Epoch(u), Tid[u], write) => Holds(u, k, write)'
    BY DEF Holds, HoldsIn, Epoch
  <2> QED
    BY <1>1, <1>4, <1>10, <2>1, <2>2
<1>12. \A d \in Channels : \A i \in 1..Len(chan'[d]) :
         chan'[d][i].type = "RESERVE" => phase' = "RESERVE" /\ (chan[d][i].txn \in Current)'
  <2> TAKE d \in Channels
  <2> TAKE i \in 1..Len(chan'[d])
  <2>1. i + Off(c, d) \in 1..Len(chan[d]) /\ chan'[d][i] = chan[d][i + Off(c, d)]
    BY <1>3 DEF Taken
  <2>2. chan'[d][i].type = "RESERVE" => chan'[d][i].txn \in Current
    BY <2>1 DEF ReservationsOK
  <2> QED
    BY <1>1, <1>4, <2>2 DEF Current
<1> QED
  BY <1>8, <1>11, <1>12 DEF ReservationsOK

\* Every step keeps the reservations.
LEMMA ReservationsStep ==
  ASSUME Discipline, EpochsFit, ReservationsOK, [Next]_vars
  PROVE  ReservationsOK'
<1>0. TypeOK /\ TypeOK' /\ WaitsOK
  BY TypeStep DEF Discipline
<1>1. ASSUME UNCHANGED <<block, phase, prog, late, word, chan>>,
             \A u \in Txns : HasReserved(u)' => HasReserved(u)
      PROVE  ReservationsOK'
  BY <1>1, QuietReservations
<1>2. ASSUME NEW t \in Txns, Rollback(t)
      PROVE  ReservationsOK'
  <2>1. UNCHANGED <<block, phase, prog, late, word, chan>> /\ phase = "EXECUTE"
    BY <1>2 DEF Rollback
  <2> QED
    BY <1>1, <2>1 DEF HasReserved
<1>3. ASSUME NEW t \in Txns, Execute(t)
      PROVE  ReservationsOK'
  <2>1. /\ UNCHANGED <<block, phase, prog, outcome, late, word>> /\ phase = "EXECUTE"
        /\ Ask(t, Requests("SEARCH", t, Remote(t, Reads(t)), FALSE) \cup
                  Requests("SEARCH", t, Remote(t, {}), TRUE))
    BY <1>3, NoRequests DEF Execute
  <2>2. /\ "SEARCH" \in Types /\ Reads(t) \in SUBSET Reads(t) /\ {} \in SUBSET Writes(t)
        /\ \A u \in Txns : Live(u)' => Live(u)
    BY <2>1 DEF Types, Live
  <2>3. Extended(Requests("SEARCH", t, Remote(t, Reads(t)), FALSE) \cup
                 Requests("SEARCH", t, Remote(t, {}), TRUE))
    BY <1>0, <2>1, <2>2, MessageTypes, SendFacts DEF Ask, TypeOK
  <2> QED
    BY <2>1, <2>2, <2>3, QuietSend
<1>4. ASSUME NEW t \in Txns, Reserve(t)
      PROVE  ReservationsOK'
  BY <1>0, <1>4, ReserveStep
<1>5. ASSUME NEW t \in Txns, Analyze(t)
      PROVE  ReservationsOK'
  <2>1. /\ UNCHANGED <<block, phase, prog, outcome, late, word>> /\ phase = "ANALYZE"
    BY <1>5 DEF Analyze
  <2>2. \A u \in Txns : /\ Live(u)' => Live(u)
                        /\ HasReserved(u)' => HasReserved(u)
    BY <2>1 DEF HasReserved, Reserving, Live, Unreserved, IsReadOnly, Writes, Current
  <2>3. CASE Unreserved(t)
    BY <1>1, <1>5, <2>1, <2>2, <2>3 DEF Analyze
  <2>4. CASE ~Unreserved(t)
    <3>1. PICK asked \in SUBSET Remote(t, Reads(t)) :
            Ask(t, Requests("CHECK", t, asked, FALSE) \cup
                   Requests("CHECK", t, Remote(t, Writes(t)), TRUE))
      BY <1>5, <2>4 DEF Analyze
    <3>2. /\ asked \in SUBSET Reads(t) /\ asked = Remote(t, asked) /\ "CHECK" \in Types
          /\ Writes(t) \in SUBSET Writes(t)
      BY DEF Remote, Types
    <3>3. Extended(Requests("CHECK", t, Remote(t, asked), FALSE) \cup
                   Requests("CHECK", t, Remote(t, Writes(t)), TRUE))
      BY <1>0, <3>1, <3>2, MessageTypes, SendFacts DEF Ask, TypeOK
    <3> QED
      BY <2>1, <2>2, <3>2, <3>3, QuietSend
  <2> QED
    BY <2>3, <2>4
<1>6. ASSUME NEW t \in Txns, Commit(t)
      PROVE  ReservationsOK'
  <2>1. /\ UNCHANGED <<block, phase, prog, late, word>> /\ phase = "FINALIZE" /\ Turn(t)
        /\ outcome' = [outcome EXCEPT ![t] = "committed"]
        /\ Ask(t, Requests("WRITE", t, Remote(t, {}), FALSE) \cup
                  Requests("WRITE", t, Remote(t, Writes(t)), TRUE))
    BY <1>6, NoRequests DEF Commit
  <2>2. Live(t)
    BY <2>1, NotAskedYet
  <2>3. /\ "WRITE" \in Types /\ {} \in SUBSET Reads(t) /\ Writes(t) \in SUBSET Writes(t)
        /\ \A u \in Txns : Live(u)' => Live(u)
    BY <1>0, <2>1, <2>2 DEF Types, Live, TypeOK
  <2>4. Extended(Requests("WRITE", t, Remote(t, {}), FALSE) \cup
                 Requests("WRITE", t, Remote(t, Writes(t)), TRUE))
    BY <1>0, <2>1, <2>3, MessageTypes, SendFacts DEF Ask, TypeOK
  <2> QED
    BY <2>1, <2>3, <2>4, QuietSend
<1>7. ASSUME NEW t \in Txns, Delay(t)
      PROVE  ReservationsOK'
  <2>1. /\ UNCHANGED <<block, phase, prog, late, word, chan>> /\ phase = "FINALIZE" /\ Turn(t)
        /\ outcome' = [outcome EXCEPT ![t] = "delayed"]
    BY <1>7 DEF Delay
  <2>2. Live(t)
    BY <2>1, NotAskedYet
  <2>3. \A u \in Txns : HasReserved(u)' => HasReserved(u)
    BY <1>0, <2>1, <2>2
    DEF HasReserved, Reserving, Live, Unreserved, IsReadOnly, Writes, Current, TypeOK
  <2> QED
    BY <1>1, <2>1, <2>3
<1>8. ASSUME NEW t \in Txns, Cleanup(t)
      PROVE  ReservationsOK'
  <2>1. /\ UNCHANGED <<block, phase, prog, late>> /\ phase = "CLEANUP"
        /\ word' = [k \in Keys |-> IF k \in Local(t, Reads(t) \cup Writes(t))
                                   THEN ZeroWord ELSE word[k]]
        /\ Ask(t, Requests("CLEANUP", t, Remote(t, Reads(t)), FALSE) \cup
                  Requests("CLEANUP", t, Remote(t, Writes(t)), TRUE))
    BY <1>8 DEF Cleanup
  <2> DEFINE msgs == Requests("CLEANUP", t, Remote(t, Reads(t)), FALSE) \cup
                     Requests("CLEANUP", t, Remote(t, Writes(t)), TRUE)
  <2>2. /\ "CLEANUP" \in Types /\ Reads(t) \in SUBSET Reads(t)
        /\ Writes(t) \in SUBSET Writes(t)
    BY DEF Types
  <2>3. Extended(msgs)
    BY <1>0, <2>1, <2>2, MessageTypes, SendFacts DEF Ask, TypeOK
  <2>4. \A m \in msgs : m.type = "CLEANUP"
    BY DEF Requests
  <2> HIDE DEF msgs
  <2>5. \A d \in Channels : \A i \in 1..Len(chan'[d]) :
          chan'[d][i].type = "RESERVE" =>
            \E e \in Channels : \E j \in 1..Len(chan[e]) : chan[e][j] = chan'[d][i]
    BY <2>3, <2>4 DEF Extended
  <2>6. EpochOf[block] \in Nat
    BY <1>0, ScheduleAssumption DEF TypeOK
  <2>7. ~late => \A k \in Keys : word'[k].epoch <= EpochOf[block]
    BY <2>1, <2>6 DEF ReservationsOK, ZeroWord
  <2> QED
    BY <2>1, <2>5, <2>7, PastReservations
<1>9. ASSUME NEW c \in Channels, Process(c)
      PROVE  ReservationsOK'
  <2> DEFINE m == chan[c][1]
  <2>1. /\ chan[c] # <<>> /\ Head(chan[c]) = m
        /\ UNCHANGED <<block, phase, prog, done, outcome, late>>
    BY <1>0, <1>9, ProcessShape
  <2>2. PICK answers \in SUBSET Message :
          /\ Taken(c, answers)
          /\ \A a \in answers : Id(a) = Id(m) /\ Counted(m)
    BY <1>0, <1>9, ProcessShape
  <2>3. \A a \in answers : a.type # "RESERVE"
    BY <2>2, SameId DEF Counted
  <2>4. m.txn \in Txns /\ m.key \in Keys /\ 1 \in 1..Len(chan[c])
    BY <1>0, <2>1, HeadTypes
  <2> HIDE DEF m
  <2>5. CASE ReserveRequest(c)
    BY <2>5, ReserveRequestStep
  <2>6. CASE CleanupRequest(c)
    <3>1. m.type = "CLEANUP" /\ word' = [word EXCEPT ![m.key] = ZeroWord]
      BY <2>1, <2>6 DEF CleanupRequest, Take
    <3>2. MessageOK(c, m)
      BY <2>4 DEF Discipline, MessagesOK, m
    <3>3. WaitOK(m.txn, Id(m))
      BY <1>0, <2>4, <3>1, <3>2 DEF MessageOK, Counted, WaitsOK
    <3>4. phase = "CLEANUP"
      BY <3>1, <3>3 DEF WaitOK, Id
    <3>5. EpochOf[block] \in Nat
      BY <1>0, ScheduleAssumption DEF TypeOK
    <3>6. ~late => \A k \in Keys : word'[k].epoch <= EpochOf[block]
      BY <1>0, <3>1, <3>5 DEF ReservationsOK, ZeroWord, TypeOK
    <3>7. \A d \in Channels : \A i \in 1..Len(chan'[d]) :
            chan'[d][i].type = "RESERVE" =>
              \E e \in Channels : \E j \in 1..Len(chan[e]) : chan[e][j] = chan'[d][i]
      BY <1>0, <2>1, <2>2, <2>3, <3>1, QuietTake DEF m
    <3> QED
      BY <2>1, <3>4, <3>6, <3>7, PastReservations
  <2>7. CASE \/ SearchRequest(c) \/ SearchResponse(c) \/ CheckRequest(c)
             \/ CheckResponse(c) \/ WriteRequest(c) \/ CountResponse(c)
    <3>1. word' = word /\ m.type # "RESERVE"
      BY <2>1, <2>7 DEF SearchRequest, SearchResponse, CheckRequest, CheckResponse,
                        WriteRequest, CountResponse, Take
    <3>2. \A u \in Txns : HasReserved(u)' => HasReserved(u)
      BY <2>1 DEF HasReserved, Reserving, Live, Unreserved, IsReadOnly, Writes, Current
    <3>3. /\ \A d \in Channels : \A i \in 1..Len(chan'[d]) :
               chan'[d][i].type = "RESERVE" =>
                 \E e \in Channels : \E j \in 1..Len(chan[e]) : chan[e][j] = chan'[d][i]
          /\ \A d \in Channels : \A i \in 1..Len(chan[d]) :
               chan[d][i].type = "RESERVE" =>
                 \E e \in Channels : \E j \in 1..Len(chan'[e]) : chan'[e][j] = chan[d][i]
      BY <1>0, <2>1, <2>2, <2>3, <3>1, QuietTake DEF m
    <3> QED
      BY <2>1, <3>1, <3>2, <3>3, QuietReservations
  <2> QED
    BY <1>9, <2>5, <2>6, <2>7 DEF Process
<1>10. CASE EndPhase
  <2>1. /\ UNCHANGED <<block, prog, pend, outcome, word, chan>>
        /\ phase \in Phases \ {"CLEANUP"} /\ phase' = NextPhase /\ PhaseOver
        /\ done' = [t \in Txns |-> FALSE]
        /\ late' = (late \/ (phase = "RESERVE" /\ InFlight("RESERVE")))
    BY <1>10 DEF EndPhase
  <2>2. phase' = CASE phase = "EXECUTE"  -> "RESERVE"
                   [] phase = "RESERVE"  -> "ANALYZE"
                   [] phase = "ANALYZE"  -> "FINALIZE"
                   [] phase = "FINALIZE" -> "CLEANUP"
    BY <2>1 DEF NextPhase
  <2> SUFFICES ASSUME ~late' PROVE ReservationsOK'
    BY DEF ReservationsOK
  <2>3. ~late /\ ~(phase = "RESERVE" /\ InFlight("RESERVE"))
    BY <2>1
  <2>4. \A c \in Channels : \A i \in 1..Len(chan[c]) : chan[c][i].type # "RESERVE"
    <3>1. \A c \in Channels : DOMAIN chan[c] = 1..Len(chan[c])
      BY <1>0 DEF TypeOK
    <3> QED
      BY <2>3, <3>1 DEF ReservationsOK, InFlight
  <2>5. ASSUME NEW t \in Txns, HasReserved(t)' PROVE HasReserved(t) /\ phase' # "RESERVE"
    <3>1. t \in Current /\ Reserving(t) /\ phase \in {"RESERVE", "ANALYZE"}
      BY <2>1, <2>2, <2>5
      DEF HasReserved, Reserving, Live, Unreserved, IsReadOnly, Writes, Current, Phases
    <3>2. done[t]
      BY <2>1, <3>1 DEF PhaseOver, Working, Reserving, Live
    <3> QED
      BY <2>2, <3>1, <3>2 DEF HasReserved
  <2>6. ASSUME NEW t \in Txns, HasReserved(t)', NEW write \in BOOLEAN,
               NEW k \in Accesses(t, write)'
        PROVE  Holds(t, k, write)'
    <3>1. k \in Accesses(t, write) /\ HasReserved(t)
      BY <2>1, <2>5, <2>6 DEF Accesses, Reads, Writes
    <3>2. Holds(t, k, write) \/ Asking(t, k, write)
      BY <2>3, <3>1 DEF ReservationsOK
    <3>3. ~Asking(t, k, write)
      BY <2>4 DEF Asking
    <3> QED
      BY <2>1, <3>2, <3>3 DEF Holds, Epoch
  <2> QED
    BY <2>1, <2>3, <2>4, <2>6 DEF ReservationsOK
<1>11. CASE EndBlock
  <2>1. /\ UNCHANGED <<prog, outcome, word, chan, late>>
        /\ phase = "CLEANUP" /\ phase' \in {"EXECUTE", "DONE"}
        /\ block \in 1..NBlocks /\ block' \in 1..NBlocks /\ block <= block'
    BY <1>0, <1>11, ScheduleAssumption DEF EndBlock, TypeOK
  <2>2. \A t \in Txns : ~HasReserved(t)'
    BY <2>1 DEF HasReserved
  <2>3. EpochOf[block] \in Nat /\ EpochOf[block'] \in Nat /\ EpochOf[block] <= EpochOf[block']
    <3>1. \A b, c \in 1..NBlocks : b < c => EpochOf[b] <= EpochOf[c]
      BY ScheduleAssumption
    <3>2. block = block' \/ block < block'
      BY <2>1, ScheduleAssumption
    <3>3. EpochOf[block] \in Nat /\ EpochOf[block'] \in Nat
      BY <2>1, ScheduleAssumption
    <3> QED
      BY <2>1, <3>1, <3>2, <3>3
  <2>4. \A k \in Keys : word[k].epoch \in Nat
    BY <1>0 DEF TypeOK, Word
  <2>5. ~late => \A k \in Keys : word'[k].epoch <= EpochOf[block']
    BY <2>1, <2>3, <2>4 DEF ReservationsOK
  <2> QED
    BY <2>1, <2>2, <2>5 DEF ReservationsOK
<1>12. CASE UNCHANGED vars
  <2>1. UNCHANGED <<block, phase, prog, done, outcome, word, chan, late>>
    BY <1>12 DEF vars
  <2> QED
    BY <1>1, <2>1 DEF HasReserved, Reserving, Live, Unreserved, IsReadOnly, Writes, Current
<1> QED
  BY <1>2, <1>3, <1>4, <1>5, <1>6, <1>7, <1>8, <1>9, <1>10, <1>11, <1>12 DEF Next, Work

-----------------------------------------------------------------------------
(* Checks: a transaction that has been analyzed knows its conflicts, or is *)
(* about to be told.                                                       *)

\* A transaction that does not roll back in EXECUTE never does.
LEMMA LiveShrinks ==
  ASSUME Discipline, [Next]_vars
  PROVE  /\ prog' = prog /\ (late => late')
         /\ \A u \in Txns : /\ Live(u)' => Live(u)
                            /\ Reserving(u)' => Reserving(u)
<1>1. prog' = prog
  <2>1. ASSUME NEW t \in Txns, Work(t)
        PROVE  prog' = prog
    BY <2>1 DEF Work, Rollback, Execute, Reserve, Analyze, Commit, Delay, Cleanup
  <2>2. ASSUME NEW c \in Channels, Process(c)
        PROVE  prog' = prog
    BY <2>2, ProcessShape DEF Discipline
  <2>3. EndPhase \/ EndBlock \/ UNCHANGED vars => prog' = prog
    BY DEF EndPhase, EndBlock, vars
  <2> QED
    BY <2>1, <2>2, <2>3 DEF Next
<1>2. \A u \in Txns : Live(u)' => Live(u)
  <2>1. ASSUME NEW t \in Txns, Commit(t) \/ Delay(t), NEW u \in Txns, Live(u)'
        PROVE  Live(u)
    <3>1. Turn(t) /\ phase = "FINALIZE" /\ \A v \in Txns : v # t => outcome'[v] = outcome[v]
      BY <2>1 DEF Commit, Delay, Discipline, TypeOK
    <3>2. Live(t)
      BY <3>1, NotAskedYet
    <3> QED
      BY <2>1, <3>1, <3>2 DEF Live
  <2>2. ASSUME NEW t \in Txns, Rollback(t), NEW u \in Txns, Live(u)'
        PROVE  Live(u)
    BY <2>2 DEF Rollback, Live, Discipline, TypeOK
  <2>3. ASSUME outcome' = outcome, NEW u \in Txns, Live(u)'
        PROVE  Live(u)
    BY <2>3 DEF Live
  <2>4. ASSUME NEW t \in Txns, Execute(t) \/ Reserve(t) \/ Analyze(t) \/ Cleanup(t)
        PROVE  outcome' = outcome
    BY <2>4 DEF Execute, Reserve, Analyze, Cleanup
  <2>5. ASSUME NEW c \in Channels, Process(c)
        PROVE  outcome' = outcome
    BY <2>5, ProcessShape DEF Discipline
  <2>6. EndPhase \/ EndBlock \/ UNCHANGED vars => outcome' = outcome
    BY DEF EndPhase, EndBlock, vars
  <2> QED
    BY <2>1, <2>2, <2>3, <2>4, <2>5, <2>6 DEF Next, Work
<1>3. late => late'
  <2>1. ASSUME NEW t \in Txns, Work(t)
        PROVE  late' = late
    BY <2>1 DEF Work, Rollback, Execute, Reserve, Analyze, Commit, Delay, Cleanup
  <2>2. ASSUME NEW c \in Channels, Process(c)
        PROVE  late' = late
    BY <2>2, ProcessShape DEF Discipline
  <2>3. EndPhase => (late => late')
    BY DEF EndPhase
  <2>4. EndBlock \/ UNCHANGED vars => late' = late
    BY DEF EndBlock, vars
  <2> QED
    BY <2>1, <2>2, <2>3, <2>4 DEF Next
<1> QED
  BY <1>1, <1>2, <1>3 DEF Reserving, Unreserved, IsReadOnly, Writes

\* Conflicts only go away: with a transaction that rolls back.
LEMMA ConflictsShrink ==
  ASSUME prog' = prog, \A u \in Txns : Reserving(u)' => Reserving(u),
         NEW t, NEW k, NEW write \in BOOLEAN
  PROVE  Conflicts(t, k, write)' \subseteq Conflicts(t, k, write)
<1>1. \A u : \A w \in BOOLEAN : Accesses(u, w)' = Accesses(u, w)
  BY DEF Accesses, Reads, Writes
<1> QED
  BY <1>1 DEF Conflicts

\* A read conflicts as raw, a write as war or waw.
LEMMA ConflictTypes ==
  ASSUME NEW t, NEW k
  PROVE  Conflicts(t, k, FALSE) \subseteq {"raw"} /\ Conflicts(t, k, TRUE) \subseteq {"war", "waw"}
BY DEF Conflicts

\* Once RESERVE is over a row tells every conflict with a smaller id.
LEMMA WordTells ==
  ASSUME TypeOK, ReservationsOK, ~late, phase \in {"ANALYZE", "FINALIZE"},
         NEW t \in Current, NEW k \in Keys
  PROVE  /\ Conflicts(t, k, FALSE) \subseteq ReadFlags(word[k], Epoch(t), Tid[t])
         /\ Conflicts(t, k, TRUE) \subseteq WriteFlags(word[k], Epoch(t), Tid[t])
<1>1. ASSUME NEW u \in Txns, BlockOf[u] = BlockOf[t], Reserving(u), NEW w \in BOOLEAN,
             k \in Accesses(u, w), Tid[u] < Tid[t]
      PROVE  /\ word[k].epoch = Epoch(t)
             /\ w => word[k].wts # 0 /\ word[k].wts < Tid[t]
             /\ ~w => word[k].rts # 0 /\ word[k].rts < Tid[t]
  <2>1. HasReserved(u) /\ Epoch(u) = Epoch(t)
    BY <1>1 DEF HasReserved, Current, Epoch
  <2>2. Holds(u, k, w)
    BY <1>1, <2>1 DEF ReservationsOK
  <2>3. /\ word[k].rts \in Nat /\ word[k].wts \in Nat /\ Tid[u] \in Nat /\ Tid[t] \in Nat
    BY TidAssumption DEF TypeOK, Word, Current
  <2> QED
    BY <1>1, <2>1, <2>2, <2>3 DEF Holds
<1>2. "raw" \in Conflicts(t, k, FALSE) => "raw" \in ReadFlags(word[k], Epoch(t), Tid[t])
  BY <1>1 DEF Conflicts, ReadFlags, SmallerWriter
<1>3. /\ "war" \in Conflicts(t, k, TRUE) => "war" \in WriteFlags(word[k], Epoch(t), Tid[t])
      /\ "waw" \in Conflicts(t, k, TRUE) => "waw" \in WriteFlags(word[k], Epoch(t), Tid[t])
  BY <1>1 DEF Conflicts, WriteFlags, SmallerWriter, SmallerReader
<1> QED
  BY <1>2, <1>3, ConflictTypes

\* Steps that neither analyze nor check.
LEMMA QuietChecks ==
  ASSUME ChecksOK, Discipline, [Next]_vars,
         \A u \in Txns : flags[u] \subseteq flags'[u],
         \A u \in Txns : Analyzed(u)' => Analyzed(u),
         \A u \in Txns : \A id \in pend[u] : id[1] = "CHECK" => id \in pend'[u],
         \A c \in Channels : \A i \in 1..Len(chan'[c]) :
           chan'[c][i].type = "CHECK" /\ chan'[c][i].answer =>
             \E d \in Channels : \E j \in 1..Len(chan[d]) : chan[d][j] = chan'[c][i]
  PROVE  ChecksOK'
<1> SUFFICES ASSUME ~late PROVE ChecksOK'
  BY LiveShrinks DEF ChecksOK
<1>1. prog' = prog /\ \A u \in Txns : Reserving(u)' => Reserving(u)
  BY LiveShrinks
<1>2. \A u : \A k : \A write \in BOOLEAN :
        /\ Conflicts(u, k, write)' \subseteq Conflicts(u, k, write)
        /\ Accesses(u, write)' = Accesses(u, write)
  BY <1>1, ConflictsShrink DEF Accesses, Reads, Writes
<1>3. ASSUME NEW t \in Txns, Analyzed(t)', NEW write \in BOOLEAN, NEW k \in Accesses(t, write)'
      PROVE  Conflicts(t, k, write)' \subseteq flags'[t] \/ <<"CHECK", k, write>> \in pend'[t]
  <2>1. k \in Accesses(t, write) /\ Analyzed(t)
    BY <1>2, <1>3
  <2>2. Conflicts(t, k, write) \subseteq flags[t] \/ <<"CHECK", k, write>> \in pend[t]
    BY <2>1 DEF ChecksOK
  <2>3. <<"CHECK", k, write>>[1] = "CHECK"
    OBVIOUS
  <2>4. flags[t] \subseteq flags'[t] /\ \A id \in pend[t] : id[1] = "CHECK" => id \in pend'[t]
    OBVIOUS
  <2> QED
    BY <1>2, <2>2, <2>3, <2>4
<1>4. ASSUME NEW t \in Txns, NEW k \in Keys, NEW write \in BOOLEAN,
             NEW c \in Channels, NEW i \in 1..Len(chan'[c]), Answers(chan'[c][i], t, k, write)
      PROVE  Conflicts(t, k, write)' \subseteq chan'[c][i].found
  <2>1. PICK d \in Channels : \E j \in 1..Len(chan[d]) : chan[d][j] = chan'[c][i]
    BY <1>4 DEF Answers
  <2>2. PICK j \in 1..Len(chan[d]) : chan[d][j] = chan'[c][i]
    BY <2>1
  <2>3. Answers(chan[d][j], t, k, write)
    BY <1>4, <2>2
  <2>4. Conflicts(t, k, write) \subseteq chan[d][j].found
    BY <2>3 DEF ChecksOK
  <2> QED
    BY <1>2, <2>2, <2>4
<1> QED
  BY <1>3, <1>4 DEF ChecksOK, Answers

\* A request on its way out is not an answer.
LEMMA NoAnswersSent ==
  ASSUME NEW t \in Txns, NEW type \in Types, NEW r \in SUBSET Reads(t), NEW w \in SUBSET Writes(t),
         Extended(Requests(type, t, Remote(t, r), FALSE) \cup
                  Requests(type, t, Remote(t, w), TRUE))
  PROVE  \A c \in Channels : \A i \in 1..Len(chan'[c]) : chan'[c][i].answer =>
           \E d \in Channels : \E j \in 1..Len(chan[d]) : chan[d][j] = chan'[c][i]
<1> DEFINE msgs == Requests(type, t, Remote(t, r), FALSE) \cup
                   Requests(type, t, Remote(t, w), TRUE)
<1>1. \A m \in msgs : ~m.answer
  BY DEF Requests
<1>2. Extended(msgs)
  OBVIOUS
<1> HIDE DEF msgs
<1> TAKE c \in Channels
<1> TAKE i \in 1..Len(chan'[c])
<1> HAVE chan'[c][i].answer
<1> QED
  BY <1>1, <1>2 DEF Extended

\* ANALYZE, one transaction: it finds the conflicts of its local rows, asks
\* about the others, or has a raw conflict and needs no other.
LEMMA AnalyzeStep ==
  ASSUME ChecksOK, ReservationsOK, Discipline, NEW t \in Txns, Analyze(t)
  PROVE  ChecksOK'
<1>1. /\ UNCHANGED <<block, phase, prog, outcome, late>> /\ Turn(t) /\ phase = "ANALYZE"
      /\ done' = [done EXCEPT ![t] = TRUE]
      /\ TypeOK
  BY DEF Analyze, Mark, Discipline
<1>2. [Next]_vars
  BY DEF Next, Work
<1>3. t \in Current
  BY <1>1, NotAskedYet
<1>4. \A u \in Txns : u # t => (Analyzed(u)' => Analyzed(u))
  BY <1>1 DEF Analyzed, Reserving, Live, Unreserved, IsReadOnly, Writes, Current, TypeOK
<1>5. CASE Unreserved(t)
  <2>1. UNCHANGED <<flags, chan, pend>>
    BY <1>5 DEF Analyze
  <2>2. ~Analyzed(t)'
    BY <1>1, <1>5 DEF Analyzed, Reserving, Unreserved, IsReadOnly, Writes
  <2>3. \A u \in Txns : Analyzed(u)' => Analyzed(u)
    BY <1>4, <2>2
  <2> QED
    BY <1>2, <2>1, <2>3, QuietChecks
<1>6. CASE ~Unreserved(t)
  <2> SUFFICES ASSUME ~late PROVE ChecksOK'
    BY <1>1 DEF ChecksOK
  <2>1. PICK asked \in SUBSET Remote(t, Reads(t)) :
          /\ "raw" \notin LocalFlags(t) => asked = Remote(t, Reads(t))
          /\ flags' = [flags EXCEPT ![t] = @ \cup LocalFlags(t)]
          /\ Ask(t, Requests("CHECK", t, asked, FALSE) \cup
                    Requests("CHECK", t, Remote(t, Writes(t)), TRUE))
    BY <1>6 DEF Analyze
  <2>2. /\ asked \in SUBSET Reads(t) /\ asked = Remote(t, asked) /\ "CHECK" \in Types
        /\ Writes(t) \in SUBSET Writes(t)
    BY DEF Remote, Types
  <2> DEFINE msgs == Requests("CHECK", t, Remote(t, asked), FALSE) \cup
                     Requests("CHECK", t, Remote(t, Writes(t)), TRUE)
  <2>3. Extended(msgs)
    BY <1>1, <2>1, <2>2, MessageTypes, SendFacts DEF Ask, TypeOK
  <2>4. \A c \in Channels : \A i \in 1..Len(chan'[c]) : chan'[c][i].answer =>
          \E d \in Channels : \E j \in 1..Len(chan[d]) : chan[d][j] = chan'[c][i]
    BY <2>2, <2>3, NoAnswersSent
  <2>5. pend' = [pend EXCEPT ![t] = @ \cup Ids(msgs)]
    BY <2>1, <2>2 DEF Ask
  <2>6. /\ \A k \in asked : <<"CHECK", k, FALSE>> \in Ids(msgs)
        /\ \A k \in Remote(t, Writes(t)) : <<"CHECK", k, TRUE>> \in Ids(msgs)
    <3>1. ASSUME NEW k \in asked PROVE <<"CHECK", k, FALSE>> \in Ids(msgs)
      <4> DEFINE m == [type |-> "CHECK", answer |-> FALSE, txn |-> t, key |-> k,
                       write |-> FALSE, val |-> NoTxn, found |-> {}]
      <4>1. m \in msgs
        BY <2>2, <3>1 DEF Requests
      <4>2. Id(m) = <<"CHECK", k, FALSE>>
        BY DEF Id
      <4> HIDE DEF m, msgs
      <4> QED
        BY <4>1, <4>2 DEF Ids
    <3>2. ASSUME NEW k \in Remote(t, Writes(t)) PROVE <<"CHECK", k, TRUE>> \in Ids(msgs)
      <4> DEFINE m == [type |-> "CHECK", answer |-> FALSE, txn |-> t, key |-> k,
                       write |-> TRUE, val |-> NoTxn, found |-> {}]
      <4>1. m \in msgs
        BY DEF Requests
      <4>2. Id(m) = <<"CHECK", k, TRUE>>
        BY DEF Id
      <4> HIDE DEF m, msgs
      <4> QED
        BY <4>1, <4>2 DEF Ids
    <3> QED
      BY <3>1, <3>2
  <2> HIDE DEF msgs
  <2>7. /\ flags'[t] = flags[t] \cup LocalFlags(t)
        /\ pend'[t] = pend[t] \cup Ids(msgs)
        /\ \A u \in Txns : /\ u # t => flags'[u] = flags[u]
                           /\ u # t => pend'[u] = pend[u]
    BY <1>1, <2>1, <2>5 DEF TypeOK
  <2>8. \A k \in Keys : /\ k \in Local(t, Reads(t)) =>
                             ReadFlags(word[k], Epoch(t), Tid[t]) \subseteq LocalFlags(t)
                        /\ k \in Local(t, Writes(t)) =>
                             WriteFlags(word[k], Epoch(t), Tid[t]) \subseteq LocalFlags(t)
    BY DEF LocalFlags
  <2>9. \A k \in Keys :
           /\ Conflicts(t, k, FALSE) \subseteq ReadFlags(word[k], Epoch(t), Tid[t])
           /\ Conflicts(t, k, TRUE) \subseteq WriteFlags(word[k], Epoch(t), Tid[t])
           /\ Conflicts(t, k, FALSE) \subseteq {"raw"}
    BY <1>1, <1>3, WordTells, ConflictTypes
  <2>10. ASSUME NEW k \in Reads(t)
         PROVE  Conflicts(t, k, FALSE) \subseteq flags'[t] \/ <<"CHECK", k, FALSE>> \in pend'[t]
    <3>1. k \in Keys
      BY <1>1, AccessTypes
    <3>2. CASE k \in Local(t, Reads(t))
      BY <2>7, <2>8, <2>9, <3>1, <3>2
    <3>3. CASE k \in asked
      BY <2>6, <2>7, <3>3
    <3>4. CASE "raw" \in LocalFlags(t)
      BY <2>7, <2>9, <3>1, <3>4
    <3>5. k \in Local(t, Reads(t)) \/ k \in Remote(t, Reads(t))
      BY DEF Local, Remote
    <3> QED
      BY <2>1, <3>2, <3>3, <3>4, <3>5
  <2>11. ASSUME NEW k \in Writes(t)
         PROVE  Conflicts(t, k, TRUE) \subseteq flags'[t] \/ <<"CHECK", k, TRUE>> \in pend'[t]
    <3>1. k \in Keys
      BY <1>1, AccessTypes
    <3>2. CASE k \in Local(t, Writes(t))
      BY <2>7, <2>8, <2>9, <3>1, <3>2
    <3>3. CASE k \in Remote(t, Writes(t))
      BY <2>6, <2>7, <3>3
    <3> QED
      BY <3>2, <3>3 DEF Local, Remote
  <2>12. ASSUME NEW u \in Txns, Analyzed(u)', NEW write \in BOOLEAN, NEW k \in Accesses(u, write)
         PROVE  Conflicts(u, k, write) \subseteq flags'[u] \/ <<"CHECK", k, write>> \in pend'[u]
    <3>1. CASE u # t
      <4>1. Conflicts(u, k, write) \subseteq flags[u] \/ <<"CHECK", k, write>> \in pend[u]
        BY <1>4, <2>12, <3>1 DEF ChecksOK
      <4> QED
        BY <2>7, <3>1, <4>1
    <3>2. CASE u = t /\ write = TRUE
      BY <2>11, <2>12, <3>2 DEF Accesses
    <3>3. CASE u = t /\ write = FALSE
      BY <2>10, <2>12, <3>3 DEF Accesses
    <3> QED
      BY <3>1, <3>2, <3>3
  <2>13. \A u \in Txns : Reserving(u)' => Reserving(u)
    BY <1>2, LiveShrinks
  <2>14. \A u : \A k : \A write \in BOOLEAN :
           /\ Conflicts(u, k, write)' \subseteq Conflicts(u, k, write)
           /\ Accesses(u, write)' = Accesses(u, write)
    BY <1>1, <2>13, ConflictsShrink DEF Accesses, Reads, Writes
  <2>15. ASSUME NEW u \in Txns, Analyzed(u)', NEW write \in BOOLEAN, NEW k \in Accesses(u, write)'
         PROVE  Conflicts(u, k, write)' \subseteq flags'[u] \/ <<"CHECK", k, write>> \in pend'[u]
    <3>1. k \in Accesses(u, write)
      BY <2>14, <2>15
    <3> QED
      BY <2>12, <2>14, <2>15, <3>1
  <2>16. ASSUME NEW u \in Txns, NEW k \in Keys, NEW write \in BOOLEAN,
                NEW c \in Channels, NEW i \in 1..Len(chan'[c]), Answers(chan'[c][i], u, k, write)
         PROVE  Conflicts(u, k, write)' \subseteq chan'[c][i].found
    <3>1. PICK d \in Channels : \E j \in 1..Len(chan[d]) : chan[d][j] = chan'[c][i]
      BY <2>4, <2>16 DEF Answers
    <3>2. PICK j \in 1..Len(chan[d]) : chan[d][j] = chan'[c][i]
      BY <3>1
    <3>3. Answers(chan[d][j], u, k, write)
      BY <2>16, <3>2
    <3>4. Conflicts(u, k, write) \subseteq chan[d][j].found
      BY <3>3 DEF ChecksOK
    <3> QED
      BY <2>14, <3>2, <3>4
  <2> QED
    BY <2>15, <2>16 DEF ChecksOK, Answers
<1> QED
  BY <1>5, <1>6

\* The owner of a row answers a check with all the conflicts there are.
LEMMA CheckRequestStep ==
  ASSUME ChecksOK, ReservationsOK, Discipline, NEW c \in Channels, CheckRequest(c)
  PROVE  ChecksOK'
<1> SUFFICES ASSUME ~late PROVE ChecksOK'
  BY DEF CheckRequest, ChecksOK
<1> DEFINE m == chan[c][1]
<1>1. TypeOK /\ chan[c] # <<>> /\ chan \in [Channels -> Seq(Message)]
  BY DEF CheckRequest, Take, Discipline, TypeOK
<1>2. /\ m = Head(chan[c]) /\ m \in Message /\ 1 \in 1..Len(chan[c])
      /\ m.txn \in Txns /\ m.key \in Keys /\ m.write \in BOOLEAN
  BY <1>1, HeadTypes
<1> DEFINE found == IF m.write THEN WriteFlags(word[m.key], Epoch(m.txn), Tid[m.txn])
                               ELSE ReadFlags(word[m.key], Epoch(m.txn), Tid[m.txn])
           a == [m EXCEPT !.answer = TRUE, !.val = NoTxn, !.found = found]
<1>3. /\ UNCHANGED <<block, phase, prog, done, outcome, late, flags, pend, word>>
      /\ m.type = "CHECK" /\ ~m.answer /\ Reply(c, m, NoTxn, found)
  BY <1>2 DEF CheckRequest, Take
<1>4. found \in SUBSET Flags /\ NoTxn \in Txns \cup {NoTxn}
  BY FlagTypes
<1>5. /\ a.txn = m.txn /\ a.key = m.key /\ a.write = m.write /\ a.found = found
  BY <1>2 DEF Message
<1>6. Taken(c, {a})
  <2> HIDE DEF found, m
  <2> QED
    BY <1>1, <1>2, <1>3, <1>4, ReplyFacts
<1>7. m.txn \in Current /\ phase \in {"ANALYZE", "FINALIZE"}
  <2>1. MessageOK(c, m)
    BY <1>2 DEF Discipline, MessagesOK
  <2>2. WaitOK(m.txn, Id(m))
    BY <1>2, <1>3, <2>1 DEF MessageOK, Counted, Discipline, WaitsOK
  <2> QED
    BY <1>3, <2>2 DEF WaitOK, Id
<1>8. Conflicts(m.txn, m.key, m.write) \subseteq found
  <2>1. /\ Conflicts(m.txn, m.key, FALSE) \subseteq
             ReadFlags(word[m.key], Epoch(m.txn), Tid[m.txn])
        /\ Conflicts(m.txn, m.key, TRUE) \subseteq
             WriteFlags(word[m.key], Epoch(m.txn), Tid[m.txn])
    BY <1>1, <1>2, <1>7, WordTells
  <2>2. CASE m.write = TRUE
    BY <2>1, <2>2
  <2>3. CASE m.write = FALSE
    BY <2>1, <2>3
  <2> QED
    BY <1>2, <2>2, <2>3
<1> HIDE DEF m, found, a
<1>9. [Next]_vars
  BY DEF Next, Process
<1>10. \A u \in Txns : Reserving(u)' => Reserving(u)
  BY <1>9, LiveShrinks
<1>11. \A u : \A k : \A write \in BOOLEAN :
           /\ Conflicts(u, k, write)' \subseteq Conflicts(u, k, write)
           /\ Accesses(u, write)' = Accesses(u, write)
  BY <1>3, <1>10, ConflictsShrink DEF Accesses, Reads, Writes
<1>12. \A u \in Txns : Analyzed(u)' => Analyzed(u)
  BY <1>3, <1>10 DEF Analyzed, Current
<1>13. ASSUME NEW u \in Txns, NEW k \in Keys, NEW write \in BOOLEAN,
              NEW d \in Channels, NEW i \in 1..Len(chan'[d]), Answers(chan'[d][i], u, k, write)
       PROVE  Conflicts(u, k, write)' \subseteq chan'[d][i].found
  <2>1. CASE i + Off(c, d) \in 1..Len(chan[d]) /\ chan'[d][i] = chan[d][i + Off(c, d)]
    <3>1. Answers(chan[d][i + Off(c, d)], u, k, write)
      BY <1>13, <2>1
    <3>2. Conflicts(u, k, write) \subseteq chan[d][i + Off(c, d)].found
      BY <2>1, <3>1 DEF ChecksOK
    <3> QED
      BY <1>11, <2>1, <3>2
  <2>2. CASE chan'[d][i] = a
    <3>1. u = m.txn /\ k = m.key /\ write = m.write
      BY <1>5, <1>13, <2>2 DEF Answers
    <3> QED
      BY <1>5, <1>8, <1>11, <2>2, <3>1
  <2> QED
    BY <1>6, <2>1, <2>2 DEF Taken
<1>14. ASSUME NEW u \in Txns, Analyzed(u)', NEW write \in BOOLEAN, NEW k \in Accesses(u, write)'
       PROVE  Conflicts(u, k, write)' \subseteq flags'[u] \/ <<"CHECK", k, write>> \in pend'[u]
  <2>1. k \in Accesses(u, write) /\ Analyzed(u)
    BY <1>11, <1>12, <1>14
  <2>2. Conflicts(u, k, write) \subseteq flags[u] \/ <<"CHECK", k, write>> \in pend[u]
    BY <2>1 DEF ChecksOK
  <2> QED
    BY <1>3, <1>11, <2>2
<1> QED
  BY <1>13, <1>14 DEF ChecksOK, Answers

\* The answer brings what it has found before it stops being waited for.
LEMMA CheckResponseStep ==
  ASSUME ChecksOK, Discipline, NEW c \in Channels, CheckResponse(c)
  PROVE  ChecksOK'
<1> SUFFICES ASSUME ~late PROVE ChecksOK'
  BY DEF CheckResponse, ChecksOK
<1> DEFINE m == chan[c][1]
<1>1. TypeOK /\ chan[c] # <<>> /\ chan \in [Channels -> Seq(Message)]
  BY DEF CheckResponse, Take, Discipline, TypeOK
<1>2. /\ m = Head(chan[c]) /\ m \in Message /\ 1 \in 1..Len(chan[c])
      /\ m.txn \in Txns /\ m.key \in Keys /\ m.write \in BOOLEAN
  BY <1>1, HeadTypes
<1>3. /\ UNCHANGED <<block, phase, prog, done, outcome, late>>
      /\ m.type = "CHECK" /\ m.answer /\ Drop(c)
      /\ flags' = [flags EXCEPT ![m.txn] = @ \cup m.found]
      /\ pend' = [pend EXCEPT ![m.txn] = @ \ {Id(m)}]
  BY <1>2 DEF CheckResponse, Take, Answered
<1>4. Taken(c, {})
  BY <1>1, <1>3, DropFacts
<1>5. Conflicts(m.txn, m.key, m.write) \subseteq m.found
  BY <1>2, <1>3 DEF ChecksOK, Answers
<1>6. Id(m) = <<"CHECK", m.key, m.write>>
  BY <1>3 DEF Id
<1> HIDE DEF m
<1>7. /\ flags'[m.txn] = flags[m.txn] \cup m.found
      /\ pend'[m.txn] = pend[m.txn] \ {Id(m)}
      /\ \A u \in Txns : u # m.txn => flags'[u] = flags[u] /\ pend'[u] = pend[u]
  BY <1>1, <1>2, <1>3 DEF TypeOK
<1>9. [Next]_vars
  BY DEF Next, Process
<1>10. \A u \in Txns : Reserving(u)' => Reserving(u)
  BY <1>9, LiveShrinks
<1>11. \A u : \A k : \A write \in BOOLEAN :
           /\ Conflicts(u, k, write)' \subseteq Conflicts(u, k, write)
           /\ Accesses(u, write)' = Accesses(u, write)
  BY <1>3, <1>10, ConflictsShrink DEF Accesses, Reads, Writes
<1>12. \A u \in Txns : Analyzed(u)' => Analyzed(u)
  BY <1>3, <1>10 DEF Analyzed, Current
<1>13. ASSUME NEW u \in Txns, NEW k \in Keys, NEW write \in BOOLEAN,
              NEW d \in Channels, NEW i \in 1..Len(chan'[d]), Answers(chan'[d][i], u, k, write)
       PROVE  Conflicts(u, k, write)' \subseteq chan'[d][i].found
  <2>1. i + Off(c, d) \in 1..Len(chan[d]) /\ chan'[d][i] = chan[d][i + Off(c, d)]
    BY <1>4 DEF Taken
  <2>2. Answers(chan[d][i + Off(c, d)], u, k, write)
    BY <1>13, <2>1
  <2>3. Conflicts(u, k, write) \subseteq chan[d][i + Off(c, d)].found
    BY <2>1, <2>2 DEF ChecksOK
  <2> QED
    BY <1>11, <2>1, <2>3
<1>14. ASSUME NEW u \in Txns, Analyzed(u)', NEW write \in BOOLEAN, NEW k \in Accesses(u, write)'
       PROVE  Conflicts(u, k, write)' \subseteq flags'[u] \/ <<"CHECK", k, write>> \in pend'[u]
  <2>1. k \in Accesses(u, write) /\ Analyzed(u)
    BY <1>11, <1>12, <1>14
  <2>2. Conflicts(u, k, write) \subseteq flags[u] \/ <<"CHECK", k, write>> \in pend[u]
    BY <2>1 DEF ChecksOK
  <2>3. CASE u # m.txn
    BY <1>7, <1>11, <2>2, <2>3
  <2>4. CASE u = m.txn /\ k = m.key /\ write = m.write
    BY <1>5, <1>7, <1>11, <2>4
  <2>5. CASE u = m.txn /\ ~(k = m.key /\ write = m.write)
    <3>1. <<"CHECK", k, write>> # Id(m)
      BY <1>6, <2>5
    <3> QED
      BY <1>7, <1>11, <2>2, <2>5, <3>1
  <2> QED
    BY <2>3, <2>4, <2>5
<1> QED
  BY <1>13, <1>14 DEF ChecksOK, Answers

\* Any other message is none of ChecksOK's business.
LEMMA OtherProcessStep ==
  ASSUME ChecksOK, Discipline, NEW c \in Channels,
         \/ SearchRequest(c) \/ SearchResponse(c) \/ ReserveRequest(c)
         \/ WriteRequest(c) \/ CleanupRequest(c) \/ CountResponse(c)
  PROVE  ChecksOK'
<1>1. Process(c) /\ [Next]_vars /\ TypeOK
  BY DEF Process, Next, Discipline
<1>2. /\ chan[c] # <<>> /\ Head(chan[c]) = chan[c][1]
      /\ UNCHANGED <<block, phase, prog, done, outcome, late>>
  BY <1>1, ProcessShape
<1>3. PICK answers \in SUBSET Message :
        /\ Taken(c, answers)
        /\ \A a \in answers : Id(a) = Id(chan[c][1])
        /\ \/ pend' = pend
           \/ pend' = [pend EXCEPT ![chan[c][1].txn] = @ \ {Id(chan[c][1])}]
  BY <1>1, ProcessShape
<1>4. chan[c][1].type # "CHECK" /\ flags' = flags /\ chan[c][1].txn \in Txns
  BY <1>1, <1>2, HeadTypes
  DEF SearchRequest, SearchResponse, ReserveRequest, WriteRequest, CleanupRequest,
      CountResponse, Take
<1>5. \A a \in answers : a.type # "CHECK"
  BY <1>3, <1>4, SameId
<1>6. \A u \in Txns : \A id \in pend[u] : id[1] = "CHECK" => id \in pend'[u]
  <2>1. Id(chan[c][1])[1] = chan[c][1].type
    BY DEF Id
  <2> QED
    BY <1>1, <1>3, <1>4, <2>1 DEF TypeOK
<1>7. \A d \in Channels : \A i \in 1..Len(chan'[d]) :
        chan'[d][i].type = "CHECK" /\ chan'[d][i].answer =>
          \E e \in Channels : \E j \in 1..Len(chan[e]) : chan[e][j] = chan'[d][i]
  BY <1>3, <1>5 DEF Taken
<1>8. \A u \in Txns : Analyzed(u)' => Analyzed(u)
  BY <1>2 DEF Analyzed, Reserving, Live, Unreserved, IsReadOnly, Writes, Current
<1> QED
  BY <1>1, <1>4, <1>6, <1>7, <1>8, QuietChecks
\* Every step keeps what is known of the conflicts.
LEMMA ChecksStep ==
  ASSUME Discipline, ReservationsOK, ChecksOK, [Next]_vars
  PROVE  ChecksOK'
<1>0. TypeOK
  BY DEF Discipline
\* A step that asks for nothing but other things than checks.
<1>1. ASSUME NEW t \in Txns, NEW type \in Types, type # "CHECK",
             NEW r \in SUBSET Reads(t), NEW w \in SUBSET Writes(t),
             Ask(t, Requests(type, t, Remote(t, r), FALSE) \cup
                    Requests(type, t, Remote(t, w), TRUE)),
             flags' = flags, \A u \in Txns : Analyzed(u)' => Analyzed(u)
      PROVE  ChecksOK'
  <2>1. Extended(Requests(type, t, Remote(t, r), FALSE) \cup
                 Requests(type, t, Remote(t, w), TRUE))
    BY <1>0, <1>1, MessageTypes, SendFacts DEF Ask, TypeOK
  <2>2. \A c \in Channels : \A i \in 1..Len(chan'[c]) : chan'[c][i].answer =>
          \E d \in Channels : \E j \in 1..Len(chan[d]) : chan[d][j] = chan'[c][i]
    BY <1>1, <2>1, NoAnswersSent
  <2>3. \A u \in Txns : \A id \in pend[u] : id \in pend'[u]
    BY <1>0, <1>1 DEF Ask, TypeOK
  <2> QED
    BY <1>1, <2>2, <2>3, QuietChecks
<1>2. ASSUME NEW t \in Txns, Rollback(t) \/ Delay(t)
      PROVE  ChecksOK'
  <2>1. UNCHANGED <<block, phase, prog, pend, flags, chan>> /\ phase # "ANALYZE"
    BY <1>2 DEF Rollback, Delay
  <2>2. \A u \in Txns : Analyzed(u)' => Analyzed(u)
    BY <2>1, LiveShrinks DEF Analyzed, Current
  <2> QED
    BY <2>1, <2>2, QuietChecks
<1>3. ASSUME NEW t \in Txns, Execute(t)
      PROVE  ChecksOK'
  <2>1. /\ UNCHANGED <<block, phase, flags>> /\ phase = "EXECUTE"
        /\ Ask(t, Requests("SEARCH", t, Remote(t, Reads(t)), FALSE) \cup
                  Requests("SEARCH", t, Remote(t, {}), TRUE))
    BY <1>3, NoRequests DEF Execute
  <2>2. /\ "SEARCH" \in Types /\ Reads(t) \in SUBSET Reads(t) /\ {} \in SUBSET Writes(t)
    BY DEF Types
  <2>3. \A u \in Txns : Analyzed(u)' => Analyzed(u)
    BY <2>1, LiveShrinks DEF Analyzed, Current
  <2> QED
    BY <1>1, <2>1, <2>2, <2>3
<1>4. ASSUME NEW t \in Txns, Reserve(t)
      PROVE  ChecksOK'
  <2>1. UNCHANGED <<block, phase, prog, pend, flags>> /\ phase = "RESERVE"
    BY <1>4 DEF Reserve
  <2>2. \A u \in Txns : Analyzed(u)' => Analyzed(u)
    BY <2>1, LiveShrinks DEF Analyzed, Current
  <2>3. CASE Unreserved(t)
    BY <1>4, <2>1, <2>2, <2>3, QuietChecks DEF Reserve
  <2>4. CASE ~Unreserved(t)
    <3> DEFINE msgs == Requests("RESERVE", t, Remote(t, Reads(t)), FALSE) \cup
                       Requests("RESERVE", t, Remote(t, Writes(t)), TRUE)
    <3>1. Send(msgs)
      BY <1>4, <2>4 DEF Reserve
    <3>2. /\ "RESERVE" \in Types /\ Reads(t) \in SUBSET Reads(t)
          /\ Writes(t) \in SUBSET Writes(t)
      BY DEF Types
    <3>3. msgs \in SUBSET Message /\ IsFiniteSet(msgs)
      BY <1>0, <3>2, MessageTypes
    <3>4. Extended(msgs)
      BY <1>0, <3>1, <3>3, SendFacts DEF TypeOK
    <3>5. \A c \in Channels : \A i \in 1..Len(chan'[c]) : chan'[c][i].answer =>
            \E d \in Channels : \E j \in 1..Len(chan[d]) : chan[d][j] = chan'[c][i]
      BY <3>2, <3>4, NoAnswersSent
    <3> HIDE DEF msgs
    <3> QED
      BY <2>1, <2>2, <3>5, QuietChecks
  <2> QED
    BY <2>3, <2>4
<1>5. ASSUME NEW t \in Txns, Analyze(t)
      PROVE  ChecksOK'
  BY <1>5, AnalyzeStep
<1>6. ASSUME NEW t \in Txns, Commit(t)
      PROVE  ChecksOK'
  <2>1. /\ UNCHANGED <<block, phase, flags>> /\ phase = "FINALIZE"
        /\ Ask(t, Requests("WRITE", t, Remote(t, {}), FALSE) \cup
                  Requests("WRITE", t, Remote(t, Writes(t)), TRUE))
    BY <1>6, NoRequests DEF Commit
  <2>2. /\ "WRITE" \in Types /\ {} \in SUBSET Reads(t) /\ Writes(t) \in SUBSET Writes(t)
    BY DEF Types
  <2>3. \A u \in Txns : Analyzed(u)' => Analyzed(u)
    BY <2>1, LiveShrinks DEF Analyzed, Current
  <2> QED
    BY <1>1, <2>1, <2>2, <2>3
<1>7. ASSUME NEW t \in Txns, Cleanup(t)
      PROVE  ChecksOK'
  <2>1. /\ UNCHANGED <<block, phase, flags>> /\ phase = "CLEANUP"
        /\ Ask(t, Requests("CLEANUP", t, Remote(t, Reads(t)), FALSE) \cup
                  Requests("CLEANUP", t, Remote(t, Writes(t)), TRUE))
    BY <1>7 DEF Cleanup
  <2>2. /\ "CLEANUP" \in Types /\ Reads(t) \in SUBSET Reads(t)
        /\ Writes(t) \in SUBSET Writes(t)
    BY DEF Types
  <2>3. \A u \in Txns : Analyzed(u)' => Analyzed(u)
    BY <2>1, LiveShrinks DEF Analyzed, Current
  <2> QED
    BY <1>1, <2>1, <2>2, <2>3
<1>8. ASSUME NEW c \in Channels, Process(c)
      PROVE  ChecksOK'
  BY <1>8, CheckRequestStep, CheckResponseStep, OtherProcessStep DEF Process
<1>9. CASE EndPhase
  <2>1. /\ UNCHANGED <<block, prog, pend, flags, outcome, chan>> /\ PhaseOver
        /\ phase \in Phases \ {"CLEANUP"} /\ phase' = NextPhase
    BY <1>9 DEF EndPhase
  <2>2. ASSUME NEW u \in Txns, Analyzed(u)'
        PROVE  Analyzed(u)
    <3>1. Reserving(u)
      BY <2>2, LiveShrinks DEF Analyzed
    <3>2. phase = "ANALYZE" /\ u \in Current => done[u]
      BY <2>1, <3>1 DEF PhaseOver, Working, Reserving, Live
    <3>3. phase' \in {"FINALIZE", "CLEANUP", "DONE"} => phase \in {"ANALYZE", "FINALIZE"}
      BY <2>1 DEF NextPhase, Phases
    <3>4. phase' = "ANALYZE" => ~done'[u]
      BY <1>9 DEF EndPhase
    <3> QED
      BY <2>1, <2>2, <3>1, <3>2, <3>3, <3>4 DEF Analyzed, Current
  <2> QED
    BY <2>1, <2>2, QuietChecks
<1>10. CASE EndBlock
  <2>1. /\ UNCHANGED <<prog, pend, flags, outcome, chan>>
        /\ phase = "CLEANUP" /\ phase' \in {"EXECUTE", "DONE"}
        /\ (phase' = "DONE" => block' = block) /\ block' \in {block, block + 1}
        /\ block \in Nat
    BY <1>0, <1>10, ScheduleAssumption DEF EndBlock, TypeOK
  <2>2. ASSUME NEW u \in Txns, Analyzed(u)'
        PROVE  Analyzed(u)
    <3>1. Reserving(u) /\ BlockOf[u] \in Nat
      BY <2>2, LiveShrinks, ConstantTypes DEF Analyzed
    <3> QED
      BY <2>1, <2>2, <3>1 DEF Analyzed, Current
  <2> QED
    BY <2>1, <2>2, QuietChecks
<1>11. CASE UNCHANGED vars
  <2>1. UNCHANGED <<block, phase, prog, done, pend, flags, outcome, chan>>
    BY <1>11 DEF vars
  <2> QED
    BY <2>1, QuietChecks DEF Analyzed, Reserving, Live, Unreserved, IsReadOnly, Writes, Current
<1> QED
  BY <1>2, <1>3, <1>4, <1>5, <1>6, <1>7, <1>8, <1>9, <1>10, <1>11 DEF Next, Work

\* The flags of a transaction that has committed no longer change.
LEMMA CommitsStep ==
  ASSUME Discipline, CommitsOK, [Next]_vars
  PROVE  CommitsOK'
<1>0. TypeOK /\ OutcomesOK /\ WaitsOK /\ MessagesOK
  BY DEF Discipline
<1>1. prog' = prog
  BY LiveShrinks
<1>2. ASSUME NEW u \in Txns, flags'[u] = flags[u], MayCommit(u)
      PROVE  MayCommit(u)'
  BY <1>1, <1>2 DEF MayCommit, Unreserved, IsReadOnly, Writes
<1>3. ASSUME NEW u \in Committed
      PROVE  MayCommit(u) /\ u \in Txns
  BY DEF CommitsOK, Committed
<1>4. ASSUME flags' = flags, outcome' = outcome
      PROVE  CommitsOK'
  BY <1>2, <1>3, <1>4 DEF CommitsOK, Committed
<1>5. ASSUME NEW t \in Txns, Rollback(t) \/ Delay(t)
      PROVE  CommitsOK'
  <2>1. flags' = flags /\ \A u \in Txns : outcome'[u] = "committed" => outcome[u] = "committed"
    BY <1>0, <1>5 DEF Rollback, Delay, TypeOK
  <2> QED
    BY <1>2, <1>3, <2>1 DEF CommitsOK, Committed
<1>6. ASSUME NEW t \in Txns, Commit(t)
      PROVE  CommitsOK'
  <2>1. /\ flags' = flags /\ MayCommit(t)
        /\ \A u \in Txns : outcome'[u] = "committed" => u = t \/ outcome[u] = "committed"
    BY <1>0, <1>6 DEF Commit, TypeOK
  <2> QED
    BY <1>2, <1>3, <2>1 DEF CommitsOK, Committed
<1>7. ASSUME NEW t \in Txns, Execute(t) \/ Reserve(t) \/ Cleanup(t)
      PROVE  CommitsOK'
  BY <1>4, <1>7 DEF Execute, Reserve, Cleanup
<1>8. ASSUME NEW t \in Txns, Analyze(t)
      PROVE  CommitsOK'
  <2>1. /\ outcome' = outcome /\ phase = "ANALYZE" /\ Turn(t)
        /\ \A u \in Txns : u # t => flags'[u] = flags[u]
    BY <1>0, <1>8 DEF Analyze, TypeOK
  <2>2. outcome[t] # "committed"
    BY <1>0, <2>1, NotAskedYet DEF OutcomesOK
  <2> QED
    BY <1>2, <1>3, <2>1, <2>2 DEF CommitsOK, Committed
<1>9. ASSUME NEW c \in Channels, Process(c)
      PROVE  CommitsOK'
  <2> DEFINE m == chan[c][1]
  <2>1. chan[c] # <<>> /\ Head(chan[c]) = m /\ outcome' = outcome
    BY <1>0, <1>9, ProcessShape
  <2>2. m.txn \in Txns /\ 1 \in 1..Len(chan[c])
    BY <1>0, <2>1, HeadTypes
  <2>3. CASE CheckResponse(c)
    <3>1. /\ m.type = "CHECK" /\ \A u \in Txns : u # m.txn => flags'[u] = flags[u]
      BY <1>0, <2>1, <2>3 DEF CheckResponse, Take, TypeOK
    <3>2. MessageOK(c, m)
      BY <1>0, <2>2 DEF MessagesOK
    <3>3. WaitOK(m.txn, Id(m))
      BY <1>0, <2>2, <3>1, <3>2 DEF MessageOK, Counted, WaitsOK
    <3>4. outcome[m.txn] = "none"
      BY <3>1, <3>3 DEF WaitOK, Id
    <3> HIDE DEF m
    <3> QED
      BY <1>2, <1>3, <2>1, <3>1, <3>4 DEF CommitsOK, Committed
  <2>4. CASE \/ SearchRequest(c) \/ SearchResponse(c) \/ ReserveRequest(c) \/ CheckRequest(c)
             \/ WriteRequest(c) \/ CleanupRequest(c) \/ CountResponse(c)
    <3>1. flags' = flags
      BY <2>4 DEF SearchRequest, SearchResponse, ReserveRequest, CheckRequest, WriteRequest,
                  CleanupRequest, CountResponse
    <3> QED
      BY <1>4, <2>1, <3>1
  <2> QED
    BY <1>9, <2>3, <2>4 DEF Process
<1>10. EndPhase \/ EndBlock \/ UNCHANGED vars => CommitsOK'
  BY <1>4 DEF EndPhase, EndBlock, vars
<1> QED
  BY <1>5, <1>6, <1>7, <1>8, <1>9, <1>10 DEF Next, Work
-----------------------------------------------------------------------------
(* The theorems.                                                           *)

\* The invariant holds before anything is reserved.
LEMMA ConflictInit == Init => ConflictInv
<1> SUFFICES ASSUME Init PROVE ConflictInv
  OBVIOUS
<1>1. Discipline
  BY DisciplineInit
<1>2. \A c \in Channels : 1..Len(chan[c]) = {}
  BY DEF Init
<1>3. phase = "EXECUTE" /\ block = 1 /\ ~late
  BY DEF Init
<1>4. \A t : ~HasReserved(t)
  BY <1>3 DEF HasReserved
<1>5. \A t \in Txns : ~Analyzed(t)
  BY <1>3, ConstantTypes, ScheduleAssumption DEF Analyzed
<1>6. \A k \in Keys : word[k].epoch <= EpochOf[block]
  <2>1. EpochOf[1] \in Nat
    BY ScheduleAssumption
  <2> QED
    BY <1>3, <2>1 DEF Init, ZeroWord
<1>7. ReservationsOK
  BY <1>2, <1>4, <1>6 DEF ReservationsOK
<1>8. ChecksOK
  BY <1>2, <1>5 DEF ChecksOK
<1>9. CommitsOK
  BY DEF CommitsOK, Committed, Init
<1> QED
  BY <1>1, <1>7, <1>8, <1>9 DEF ConflictInv

\* No reservation is lost and no conflict goes unnoticed, unless a reservation
\* was late: the inductive invariant behind the decision to commit.
THEOREM ConflictInvHolds ==
  ASSUME EpochsFit PROVE Spec => []ConflictInv
<1>1. Init => ConflictInv
  BY ConflictInit
<1>2. ConflictInv /\ [Next]_vars => ConflictInv'
  BY DisciplineStep, ReservationsStep, ChecksStep, CommitsStep DEF ConflictInv
<1> QED
  BY <1>1, <1>2, PTL DEF Spec

\* A committed transaction that has reserved knows its conflicts.
LEMMA CommittedKnow ==
  ASSUME ConflictInv, ~late, NEW t \in Committed, ~Unreserved(t),
         NEW write \in BOOLEAN, NEW k \in Accesses(t, write)
  PROVE  Conflicts(t, k, write) \subseteq flags[t] /\ MayCommit(t)
<1>1. t \in Txns /\ outcome[t] = "committed" /\ TypeOK /\ OutcomesOK /\ WaitsOK
  BY DEF Committed, ConflictInv, Discipline
<1>2. Analyzed(t)
  <2>1. BlockOf[t] <= block /\ BlockOf[t] \in Nat /\ block \in Nat
    BY <1>1, ConstantTypes, ScheduleAssumption DEF OutcomesOK, TypeOK
  <2>2. t \in Current => phase \in {"FINALIZE", "CLEANUP", "DONE"}
    BY <1>1 DEF OutcomesOK
  <2> QED
    BY <1>1, <2>1, <2>2 DEF Analyzed, Reserving, Live, Current
<1>3. <<"CHECK", k, write>> \notin pend[t]
  <2>1. ASSUME <<"CHECK", k, write>> \in pend[t] PROVE FALSE
    <3>1. WaitOK(t, <<"CHECK", k, write>>)
      BY <1>1, <2>1 DEF WaitsOK
    <3> QED
      BY <1>1, <3>1 DEF WaitOK
  <2> QED
    BY <2>1
<1> QED
  BY <1>1, <1>2, <1>3 DEF ConflictInv, ChecksOK, CommitsOK

\* Two transactions of a block, one of which reads or writes what the other,
\* with the smaller id, reads or writes.
LEMMA ConflictFound ==
  ASSUME TypeOK, NEW t \in Committed, NEW u \in Committed, BlockOf[t] = BlockOf[u],
         ~Unreserved(u), Tid[u] < Tid[t], NEW k,
         NEW w \in BOOLEAN, k \in Accesses(u, w)
  PROVE  /\ w => "raw" \in Conflicts(t, k, FALSE) /\ "waw" \in Conflicts(t, k, TRUE)
         /\ ~w => "war" \in Conflicts(t, k, TRUE)
<1>1. u \in Txns /\ BlockOf[u] = BlockOf[t] /\ Reserving(u)
  BY DEF Committed, Reserving, Live
<1> QED
  BY <1>1 DEF Conflicts, Flags

\* With the conflicts known, the decision to commit gives the order.
LEMMA ConflictOrderFollows == ConflictInv => ConflictOrder
<1> SUFFICES ASSUME ConflictInv, ~late, ~SnapshotIsolation,
                    NEW t \in Committed, NEW u \in Committed, t # u, BlockOf[t] = BlockOf[u],
                    NEW k \in Reads(t) \cap Writes(u)
             PROVE  PrecedesInBlock(t, u)
  BY DEF ConflictOrder
<1>1. /\ TypeOK /\ t \in Txns /\ u \in Txns
      /\ Tid[t] \in Nat \ {0} /\ Tid[u] \in Nat \ {0}
  BY ConstantTypes DEF ConflictInv, Discipline, Committed
<1>2. ~Unreserved(u) /\ k \in Accesses(u, TRUE) /\ k \in Accesses(t, FALSE)
  BY DEF Unreserved, IsReadOnly, Accesses
<1>3. CASE Unreserved(t)
  BY <1>2, <1>3 DEF PrecedesInBlock
<1>4. CASE ~Unreserved(t) /\ Tid[u] < Tid[t]
  <2>1. "raw" \in Conflicts(t, k, FALSE)
    BY <1>1, <1>2, <1>4, ConflictFound
  <2>2. "raw" \in flags[t]
    BY <1>2, <1>4, <2>1, CommittedKnow
  <2> QED
    BY <1>1, <1>2, <1>4, <2>2 DEF PrecedesInBlock, Rank
<1>5. CASE ~Unreserved(t) /\ Tid[t] < Tid[u]
  <2>1. "war" \in Conflicts(u, k, TRUE)
    BY <1>1, <1>2, <1>5, ConflictFound
  <2>2. "war" \in flags[u] /\ MayCommit(u)
    BY <1>2, <2>1, CommittedKnow
  <2>3. "raw" \notin flags[u]
    BY <1>2, <2>2 DEF MayCommit
  <2> QED
    BY <1>1, <1>2, <1>5, <2>3 DEF PrecedesInBlock, Rank
<1>6. Tid[t] # Tid[u]
  BY <1>1, TidAssumption
<1> QED
  BY <1>1, <1>3, <1>4, <1>5, <1>6

\* With the conflicts known, of two writers of a row the one with the larger
\* id does not commit.
LEMMA FirstWriterFollows == ConflictInv => FirstWriterWins
<1>1. ASSUME ConflictInv, ~late, NEW t \in Committed, NEW u \in Committed,
             BlockOf[t] = BlockOf[u], Tid[u] < Tid[t], NEW k \in Writes(t) \cap Writes(u)
      PROVE  FALSE
  <2>1. /\ ~Unreserved(t) /\ ~Unreserved(u)
        /\ k \in Accesses(t, TRUE) /\ k \in Accesses(u, TRUE) /\ TypeOK
    BY <1>1 DEF Unreserved, IsReadOnly, Accesses, ConflictInv, Discipline
  <2>2. "waw" \in Conflicts(t, k, TRUE)
    BY <1>1, <2>1, ConflictFound
  <2>3. "waw" \in flags[t] /\ MayCommit(t)
    BY <1>1, <2>1, <2>2, CommittedKnow
  <2> QED
    BY <2>1, <2>3 DEF MayCommit
<1>2. \A t, u \in Committed : /\ t \in Txns /\ u \in Txns
                              /\ Tid[t] \in Nat /\ Tid[u] \in Nat
                              /\ BlockOf[t] = BlockOf[u] /\ t # u => Tid[t] # Tid[u]
  BY TidAssumption DEF Committed
<1> SUFFICES ASSUME ConflictInv, ~late, NEW t \in Committed, NEW u \in Committed,
                    t # u, BlockOf[t] = BlockOf[u], NEW k \in Writes(t) \cap Writes(u)
             PROVE  FALSE
  BY DEF FirstWriterWins
<1>3. Tid[t] < Tid[u] \/ Tid[u] < Tid[t]
  BY <1>2
<1> QED
  BY <1>1, <1>3

\* Commits of a block that touch the same rows are equivalent to a serial
\* execution in the order Precedes: none has read what one before it writes.
THEOREM ConflictOrderHolds ==
  ASSUME EpochsFit PROVE Spec => []ConflictOrder
BY ConflictInvHolds, ConflictOrderFollows, PTL

\* No two commits of a block write the same row, whichever isolation is asked
\* for (the waw flag in finalize_transactions).
THEOREM FirstWriterHolds ==
  ASSUME EpochsFit PROVE Spec => []FirstWriterWins
BY ConflictInvHolds, FirstWriterFollows, PTL

-----------------------------------------------------------------------------
(***************************************************************************)
(* What a micro-block leaves behind and what it has read, and from that    *)
(* and the order of conflicts the main result about PRDCC: the execution   *)
(* of a schedule is serializable, for every cluster, schedule and program. *)
(***************************************************************************)
(* The shape of the steps.                                                 *)

\* The requests of a transaction for its remote rows.
Asks(t, type, r, w) ==
  Requests(type, t, Remote(t, r), FALSE) \cup Requests(type, t, Remote(t, w), TRUE)

\* A worker's turn takes its transaction one phase on and sends, if anything,
\* the requests of the phase.
LEMMA WorkShape ==
  ASSUME Discipline, NEW t \in Txns, Work(t)
  PROVE  /\ UNCHANGED <<block, phase, prog, late>>
         /\ TypeOK /\ TypeOK' /\ t \in Current /\ ~done[t]
         /\ done' = [done EXCEPT ![t] = TRUE]
         /\ \A u \in Txns : u # t => done'[u] = done[u]
         /\ \/ chan' = chan
            \/ \E type \in Types : \E r \in SUBSET Reads(t) : \E w \in SUBSET Writes(t) :
                 /\ Extended(Asks(t, type, r, w))
                 /\ <<phase, type>> \in {<<"EXECUTE", "SEARCH">>, <<"RESERVE", "RESERVE">>,
                                         <<"ANALYZE", "CHECK">>, <<"FINALIZE", "WRITE">>,
                                         <<"CLEANUP", "CLEANUP">>}
<1>0. TypeOK /\ TypeOK' /\ [Next]_vars
  BY TypeStep DEF Discipline, Next
<1>1. /\ UNCHANGED <<block, phase, prog, late>> /\ Turn(t)
      /\ done' = [done EXCEPT ![t] = TRUE]
  BY DEF Work, Rollback, Execute, Reserve, Analyze, Commit, Delay, Cleanup, Mark
<1>2. t \in Current /\ ~done[t]
  BY <1>1, NotAskedYet
<1>3. \A u \in Txns : u # t => done'[u] = done[u]
  BY <1>0, <1>1 DEF TypeOK
\* Sending the requests of a phase.
<1>4. ASSUME NEW type \in Types, NEW r \in SUBSET Reads(t), NEW w \in SUBSET Writes(t),
             Send(Asks(t, type, r, w))
      PROVE  Extended(Asks(t, type, r, w))
  <2>1. Asks(t, type, r, w) \in SUBSET Message /\ IsFiniteSet(Asks(t, type, r, w))
    BY <1>0, MessageTypes DEF Asks
  <2> QED
    BY <1>0, <1>4, <2>1, SendFacts DEF TypeOK
<1>5. /\ Reads(t) \in SUBSET Reads(t) /\ Writes(t) \in SUBSET Writes(t)
      /\ {} \in SUBSET Reads(t) /\ {} \in SUBSET Writes(t)
      /\ \A type \in {"SEARCH", "RESERVE", "CHECK", "WRITE", "CLEANUP"} : type \in Types
  BY DEF Types
<1>6. CASE Execute(t)
  <2>1. Send(Asks(t, "SEARCH", Reads(t), {})) /\ phase = "EXECUTE"
    BY <1>6, NoRequests DEF Execute, Ask, Asks
  <2> QED
    BY <1>0, <1>1, <1>2, <1>3, <1>4, <1>5, <2>1
<1>7. CASE Reserve(t)
  <2>1. phase = "RESERVE" /\ (chan' = chan \/ Send(Asks(t, "RESERVE", Reads(t), Writes(t))))
    BY <1>7 DEF Reserve, Asks
  <2> QED
    BY <1>0, <1>1, <1>2, <1>3, <1>4, <1>5, <2>1
<1>8. CASE Analyze(t)
  <2>1. CASE Unreserved(t)
    <3>1. chan' = chan
      BY <1>8, <2>1 DEF Analyze
    <3> QED
      BY <1>0, <1>1, <1>2, <1>3, <3>1
  <2>2. CASE ~Unreserved(t)
    <3>1. PICK asked \in SUBSET Remote(t, Reads(t)) :
            Ask(t, Requests("CHECK", t, asked, FALSE) \cup
                   Requests("CHECK", t, Remote(t, Writes(t)), TRUE))
      BY <1>8, <2>2 DEF Analyze
    <3>2. asked \in SUBSET Reads(t) /\ asked = Remote(t, asked)
      BY DEF Remote
    <3>3. Send(Asks(t, "CHECK", asked, Writes(t))) /\ phase = "ANALYZE"
      BY <1>8, <3>1, <3>2 DEF Ask, Asks, Analyze
    <3> QED
      BY <1>0, <1>1, <1>2, <1>3, <1>4, <1>5, <3>2, <3>3
  <2> QED
    BY <2>1, <2>2
<1>9. CASE Commit(t)
  <2>1. Send(Asks(t, "WRITE", {}, Writes(t))) /\ phase = "FINALIZE"
    BY <1>9, NoRequests DEF Commit, Ask, Asks
  <2> QED
    BY <1>0, <1>1, <1>2, <1>3, <1>4, <1>5, <2>1
<1>10. CASE Cleanup(t)
  <2>1. Send(Asks(t, "CLEANUP", Reads(t), Writes(t))) /\ phase = "CLEANUP"
    BY <1>10 DEF Cleanup, Ask, Asks
  <2> QED
    BY <1>0, <1>1, <1>2, <1>3, <1>4, <1>5, <2>1
<1>11. CASE Rollback(t) \/ Delay(t)
  <2>1. chan' = chan
    BY <1>11 DEF Rollback, Delay
  <2> QED
    BY <1>0, <1>1, <1>2, <1>3, <2>1
<1> QED
  BY <1>6, <1>7, <1>8, <1>9, <1>10, <1>11 DEF Work

\* What such a request says.
IsAsk(m, t, type, r, w) ==
  /\ m.txn = t /\ m.type = type /\ m.answer = FALSE
  /\ m.write \in BOOLEAN /\ m.key \in Keys
  /\ m.key \in Remote(t, IF m.write THEN w ELSE r)
  /\ Route(m) = <<Home[t], Owner[m.key], WorkerOf[t]>>
  /\ Route(m) \in Channels

\* What the requests of a phase are.
LEMMA AsksShape ==
  ASSUME TypeOK, NEW t \in Txns, NEW type \in Types,
         NEW r \in SUBSET Reads(t), NEW w \in SUBSET Writes(t)
  PROVE  \A m \in Asks(t, type, r, w) : IsAsk(m, t, type, r, w)
<1>1. \A m \in Requests(type, t, Remote(t, r), FALSE) \cup
                Requests(type, t, Remote(t, w), TRUE) :
         /\ m = [type |-> type, answer |-> FALSE, txn |-> t, key |-> m.key,
                 write |-> m.write, val |-> NoTxn, found |-> {}]
         /\ m.txn = t /\ m.type = type /\ m.answer = FALSE
         /\ m.write \in BOOLEAN /\ m.key \in Keys
         /\ m.key \in Remote(t, IF m.write THEN w ELSE r)
         /\ m.key \in Accesses(t, m.write) /\ Home[t] # Owner[m.key]
         /\ Id(m) = <<type, m.key, m.write>>
         /\ Route(m) = <<Home[t], Owner[m.key], WorkerOf[t]>>
         /\ Route(m) \in Channels
  BY RequestsShape, Zenon
<1> QED
  BY <1>1 DEF Asks, IsAsk

\* Where a message of the next state comes from when a transaction sends: it
\* was there, at the same place, or it is one of the new requests.
LEMMA SentFrom ==
  ASSUME TypeOK, NEW t \in Txns, NEW type \in Types,
         NEW r \in SUBSET Reads(t), NEW w \in SUBSET Writes(t),
         Extended(Asks(t, type, r, w)),
         NEW c \in Channels, NEW i \in 1..Len(chan'[c])
  PROVE  \/ i \in 1..Len(chan[c]) /\ chan'[c][i] = chan[c][i]
         \/ /\ i > Len(chan[c])
            /\ chan'[c][i].type = type /\ ~chan'[c][i].answer /\ chan'[c][i].txn = t
            /\ chan'[c][i].write \in BOOLEAN
            /\ chan'[c][i].key \in Remote(t, IF chan'[c][i].write THEN w ELSE r)
            /\ Route(chan'[c][i]) = c
<1>1. \A m \in Asks(t, type, r, w) : IsAsk(m, t, type, r, w)
  BY AsksShape
<1> QED
  BY <1>1 DEF Extended, IsAsk

\* Every remote access that is asked for is asked for, behind what is already
\* in the queue if nothing alike has been asked before.
LEMMA SentTo ==
  ASSUME TypeOK, MessagesOK, NEW t \in Txns, NEW type \in Types, type # "RESERVE",
         NEW r \in SUBSET Reads(t), NEW w \in SUBSET Writes(t),
         Extended(Asks(t, type, r, w)), \A id \in pend[t] : id[1] # type,
         NEW write \in BOOLEAN, NEW k \in Remote(t, IF write THEN w ELSE r)
  PROVE  LET c == <<Home[t], Owner[k], WorkerOf[t]>>
         IN  /\ c \in Channels
             /\ \E i \in 1..Len(chan'[c]) :
                  i > Len(chan[c]) /\ IsRequest(chan'[c][i], type, t, k, write)
<1> DEFINE m == [type |-> type, answer |-> FALSE, txn |-> t, key |-> k,
                 write |-> write, val |-> NoTxn, found |-> {}]
           c == <<Home[t], Owner[k], WorkerOf[t]>>
<1>1. m \in Asks(t, type, r, w)
  BY DEF Asks, Requests
<1>2. Route(m) = c /\ IsRequest(m, type, t, k, write) /\ Counted(m) /\ Id(m)[1] = type
  BY DEF Route, IsRequest, Counted, Id
<1>4. m.txn = t
  OBVIOUS
<1> HIDE DEF m
<1>3. c \in Channels
  <2>1. IsAsk(m, t, type, r, w)
    BY <1>1, AsksShape
  <2> QED
    BY <1>2, <2>1 DEF IsAsk
<1>5. PICK i \in 1..Len(chan'[c]) : chan'[c][i] = m
  BY <1>1, <1>2, <1>3 DEF Extended
<1>6. i \notin 1..Len(chan[c])
  <2>1. ASSUME i \in 1..Len(chan[c]) PROVE FALSE
    <3>1. chan[c][i] = m
      BY <1>3, <1>5, <2>1 DEF Extended
    <3>2. Id(m) \in pend[t]
      BY <1>2, <1>3, <1>4, <2>1, <3>1 DEF MessagesOK, MessageOK
    <3> QED
      BY <1>2, <3>2
  <2> QED
    BY <2>1
<1>7. i > Len(chan[c])
  BY <1>3, <1>5, <1>6 DEF Extended
<1> HIDE DEF c
<1> QED
  BY <1>2, <1>3, <1>5, <1>7 DEF c

\* A request that is in flight stays so while others send ...
LEMMA RequestedExtends ==
  ASSUME NEW msgs, Extended(msgs), NEW type, NEW t, NEW k, NEW write,
         Requested(type, t, k, write)
  PROVE  Requested(type, t, k, write)'
<1>1. PICK c \in Channels : \E i \in 1..Len(chan[c]) : IsRequest(chan[c][i], type, t, k, write)
  BY DEF Requested
<1>2. PICK i \in 1..Len(chan[c]) : IsRequest(chan[c][i], type, t, k, write)
  BY <1>1
<1>3. i \in 1..Len(chan'[c]) /\ chan'[c][i] = chan[c][i]
  BY DEF Extended
<1> QED
  BY <1>2, <1>3 DEF Requested, IsRequest

\* ... and while other messages are handled.
LEMMA RequestedStays ==
  ASSUME NEW c \in Channels, NEW answers, Taken(c, answers), NEW type, NEW t, NEW k, NEW write,
         Requested(type, t, k, write), ~IsRequest(chan[c][1], type, t, k, write)
  PROVE  Requested(type, t, k, write)'
<1>1. PICK d \in Channels : \E i \in 1..Len(chan[d]) : IsRequest(chan[d][i], type, t, k, write)
  BY DEF Requested
<1>2. PICK i \in 1..Len(chan[d]) : IsRequest(chan[d][i], type, t, k, write)
  BY <1>1
<1>3. i - Off(c, d) \in 1..Len(chan'[d]) /\ chan'[d][i - Off(c, d)] = chan[d][i]
  BY <1>2 DEF Taken
<1> QED
  BY <1>2, <1>3 DEF Requested, IsRequest

\* What is asked for is in flight.
LEMMA SentRequested ==
  ASSUME TypeOK, MessagesOK, NEW t \in Txns, NEW type \in Types, type # "RESERVE",
         NEW r \in SUBSET Reads(t), NEW w \in SUBSET Writes(t),
         Extended(Asks(t, type, r, w)), \A id \in pend[t] : id[1] # type,
         NEW write \in BOOLEAN, NEW k \in Remote(t, IF write THEN w ELSE r)
  PROVE  Requested(type, t, k, write)'
<1> DEFINE c == <<Home[t], Owner[k], WorkerOf[t]>>
<1>1. /\ c \in Channels
      /\ \E i \in 1..Len(chan'[c]) :
           i > Len(chan[c]) /\ IsRequest(chan'[c][i], type, t, k, write)
  BY SentTo
<1> HIDE DEF c
<1> QED
  BY <1>1 DEF Requested, IsRequest

\* What CLEANUP sends.
LEMMA CleanupShape ==
  ASSUME Discipline, NEW t \in Txns, Cleanup(t)
  PROVE  /\ phase = "CLEANUP" /\ \A id \in pend[t] : id[1] # "CLEANUP"
         /\ "CLEANUP" \in Types
         /\ Reads(t) \in SUBSET Reads(t) /\ Writes(t) \in SUBSET Writes(t)
         /\ Extended(Asks(t, "CLEANUP", Reads(t), Writes(t)))
<1>1. /\ phase = "CLEANUP" /\ Turn(t) /\ TypeOK
      /\ Send(Asks(t, "CLEANUP", Reads(t), Writes(t)))
  BY DEF Cleanup, Ask, Asks, Discipline
<1>2. /\ Reads(t) \in SUBSET Reads(t) /\ Writes(t) \in SUBSET Writes(t)
      /\ "CLEANUP" \in Types
  BY DEF Types
<1>3. /\ Asks(t, "CLEANUP", Reads(t), Writes(t)) \in SUBSET Message
      /\ IsFiniteSet(Asks(t, "CLEANUP", Reads(t), Writes(t)))
  BY <1>1, <1>2, MessageTypes DEF Asks
<1>4. Extended(Asks(t, "CLEANUP", Reads(t), Writes(t)))
  BY <1>1, <1>3, SendFacts DEF TypeOK
<1>5. \A id \in pend[t] : id[1] # "CLEANUP"
  BY <1>1, NotAskedYet
<1> QED
  BY <1>1, <1>2, <1>4, <1>5

\* What a handler leaves in the queues was there, but for its answer.
LEMMA HandledShape ==
  ASSUME Discipline, NEW c \in Channels, Process(c)
  PROVE  /\ UNCHANGED <<block, phase, prog, done, outcome, late>>
         /\ TypeOK /\ TypeOK'
         /\ chan[c] # <<>> /\ Head(chan[c]) = chan[c][1] /\ 1 \in 1..Len(chan[c])
         /\ chan[c][1].txn \in Txns /\ chan[c][1].key \in Keys
         /\ chan[c][1].write \in BOOLEAN
         /\ MessageOK(c, chan[c][1])
         /\ \E answers \in SUBSET Message :
              /\ Taken(c, answers)
              /\ \A a \in answers :
                   /\ a.txn = chan[c][1].txn /\ Id(a) = Id(chan[c][1])
                   /\ a.answer /\ ~chan[c][1].answer /\ a.type # "RESERVE"
<1>0. TypeOK /\ TypeOK' /\ [Next]_vars /\ MessagesOK
  BY TypeStep DEF Discipline, Next
<1>1. /\ chan[c] # <<>> /\ Head(chan[c]) = chan[c][1]
      /\ UNCHANGED <<block, phase, prog, done, outcome, late>>
  BY <1>0, ProcessShape
<1>2. PICK answers \in SUBSET Message :
        /\ Taken(c, answers)
        /\ \A a \in answers :
             /\ a.txn = chan[c][1].txn /\ Id(a) = Id(chan[c][1])
             /\ a.answer /\ ~chan[c][1].answer /\ Counted(chan[c][1])
  BY <1>0, ProcessShape
<1>3. \A a \in answers : a.type # "RESERVE"
  BY <1>2, SameId DEF Counted
<1>4. /\ chan[c][1].txn \in Txns /\ chan[c][1].key \in Keys
      /\ chan[c][1].write \in BOOLEAN /\ 1 \in 1..Len(chan[c])
  BY <1>0, <1>1, HeadTypes
<1>5. MessageOK(c, chan[c][1])
  BY <1>0, <1>4 DEF MessagesOK
<1> QED
  BY <1>0, <1>1, <1>2, <1>3, <1>4, <1>5

-----------------------------------------------------------------------------
(* Nothing is left of a block.                                             *)

\* A reservation keeps its clean-up behind it.
LEMMA CleanupsFollowStep ==
  ASSUME Discipline, CleanupsFollow, [Next]_vars
  PROVE  CleanupsFollow'
<1>0. TypeOK /\ MessagesOK /\ WaitsOK
  BY DEF Discipline
<1>1. ASSUME NEW t \in Txns, Work(t) PROVE CleanupsFollow'
  <2>1. /\ UNCHANGED <<block, phase, prog, late>> /\ t \in Current /\ ~done[t]
        /\ \A u \in Txns : u # t => done'[u] = done[u]
    BY <1>1, WorkShape
  <2>2. \A u : u \in Current' <=> u \in Current
    BY <2>1 DEF Current
  <2>4. ASSUME NEW type \in Types, NEW r \in SUBSET Reads(t), NEW w \in SUBSET Writes(t),
               Extended(Asks(t, type, r, w)),
               type = "RESERVE" => phase = "RESERVE",
               phase = "CLEANUP" => type = "CLEANUP" /\ r = Reads(t) /\ w = Writes(t)
        PROVE  CleanupsFollow'
    <3> SUFFICES ASSUME NEW c \in Channels, NEW i \in 1..Len(chan'[c]),
                        chan'[c][i].type = "RESERVE"
                 PROVE  /\ chan'[c][i].txn \in Current
                        /\ phase \in {"RESERVE", "ANALYZE", "FINALIZE", "CLEANUP"}
                        /\ phase = "CLEANUP" /\ done'[chan'[c][i].txn] =>
                             \E j \in 1..Len(chan'[c]) :
                               j > i /\ IsRequest(chan'[c][j], "CLEANUP", chan'[c][i].txn,
                                                  chan'[c][i].key, chan'[c][i].write)
      BY <2>1, <2>2 DEF CleanupsFollow, IsRequest
    <3>1. CASE i \in 1..Len(chan[c]) /\ chan'[c][i] = chan[c][i]
      <4> DEFINE m == chan[c][i]
      <4>1. /\ m.txn \in Txns /\ m.key \in Keys /\ m.write \in BOOLEAN /\ MessageOK(c, m)
            /\ m.type = "RESERVE"
        BY <1>0, <3>1, PositionTypes DEF MessagesOK
      <4>2. /\ m.txn \in Current
            /\ phase \in {"RESERVE", "ANALYZE", "FINALIZE", "CLEANUP"}
        BY <3>1 DEF CleanupsFollow
      <4>3. CASE m.txn # t
        <5> SUFFICES ASSUME phase = "CLEANUP", done'[m.txn]
                     PROVE  \E j \in 1..Len(chan'[c]) :
                              j > i /\ IsRequest(chan'[c][j], "CLEANUP", m.txn, m.key, m.write)
          BY <3>1, <4>2
        <5>1. PICK j \in 1..Len(chan[c]) :
                j > i /\ IsRequest(chan[c][j], "CLEANUP", m.txn, m.key, m.write)
          BY <2>1, <3>1, <4>1, <4>3 DEF CleanupsFollow
        <5>2. j \in 1..Len(chan'[c]) /\ chan'[c][j] = chan[c][j]
          BY <2>4 DEF Extended
        <5> QED
          BY <5>1, <5>2
      <4>4. CASE m.txn = t
        <5> SUFFICES ASSUME phase = "CLEANUP"
                     PROVE  \E j \in 1..Len(chan'[c]) :
                              j > i /\ IsRequest(chan'[c][j], "CLEANUP", m.txn, m.key, m.write)
          BY <3>1, <4>2
        <5>1. /\ m.key \in Accesses(t, m.write) /\ Home[t] # Owner[m.key]
              /\ c = <<Home[t], Owner[m.key], WorkerOf[t]>>
          BY <4>1, <4>4 DEF MessageOK, Counted, Route
        <5>2. m.key \in Remote(t, IF m.write THEN w ELSE r)
          BY <2>4, <4>1, <5>1 DEF Remote, Accesses
        <5>3. Cleanup(t)
          BY <1>1 DEF Work, Rollback, Execute, Reserve, Analyze, Commit, Delay
        <5>4. \A id \in pend[t] : id[1] # "CLEANUP"
          BY <5>3, CleanupShape
        <5> HIDE DEF m
        <5>5. \E j \in 1..Len(chan'[c]) :
                j > Len(chan[c]) /\ IsRequest(chan'[c][j], "CLEANUP", t, m.key, m.write)
          BY <1>0, <2>4, <4>1, <5>1, <5>2, <5>4, SentTo
        <5>6. Len(chan[c]) \in Nat /\ i <= Len(chan[c]) /\ chan'[c] \in Seq(Message)
          BY <1>0, <2>4, <3>1 DEF TypeOK, Extended
        <5>7. PICK j \in 1..Len(chan'[c]) :
                j > Len(chan[c]) /\ IsRequest(chan'[c][j], "CLEANUP", t, m.key, m.write)
          BY <5>5
        <5> QED
          BY <4>4, <5>6, <5>7
      <4> QED
        BY <4>3, <4>4
    <3>2. CASE chan'[c][i].type = type /\ chan'[c][i].txn = t
      BY <2>1, <2>4, <3>2
    <3>3. \/ i \in 1..Len(chan[c]) /\ chan'[c][i] = chan[c][i]
          \/ /\ i > Len(chan[c])
             /\ chan'[c][i].type = type /\ ~chan'[c][i].answer /\ chan'[c][i].txn = t
             /\ chan'[c][i].write \in BOOLEAN
             /\ chan'[c][i].key \in Remote(t, IF chan'[c][i].write THEN w ELSE r)
             /\ Route(chan'[c][i]) = c
      BY <1>0, <2>4, SentFrom
    <3> QED
      BY <3>1, <3>2, <3>3
  <2>5. CASE Cleanup(t)
    <3>1. /\ phase = "CLEANUP" /\ "CLEANUP" \in Types
          /\ Reads(t) \in SUBSET Reads(t) /\ Writes(t) \in SUBSET Writes(t)
          /\ Extended(Asks(t, "CLEANUP", Reads(t), Writes(t)))
      BY <2>5, CleanupShape
    <3> QED
      BY <2>4, <3>1
  <2>6. CASE ~Cleanup(t)
    <3>1. phase # "CLEANUP"
      BY <1>1, <2>6 DEF Work, Rollback, Execute, Reserve, Analyze, Commit, Delay
    <3>2. CASE chan' = chan
      BY <2>1, <2>2, <3>1, <3>2 DEF CleanupsFollow
    <3>3. CASE chan' # chan
      <4>1. PICK type \in Types, r \in SUBSET Reads(t), w \in SUBSET Writes(t) :
              /\ Extended(Asks(t, type, r, w))
              /\ <<phase, type>> \in {<<"EXECUTE", "SEARCH">>, <<"RESERVE", "RESERVE">>,
                                      <<"ANALYZE", "CHECK">>, <<"FINALIZE", "WRITE">>,
                                      <<"CLEANUP", "CLEANUP">>}
        BY <1>1, <3>3, WorkShape
      <4>2. type = "RESERVE" => phase = "RESERVE"
        BY <4>1
      <4> QED
        BY <2>4, <3>1, <4>1, <4>2
    <3> QED
      BY <3>2, <3>3
  <2> QED
    BY <2>5, <2>6
<1>2. ASSUME NEW c \in Channels, Process(c) PROVE CleanupsFollow'
  <2>1. UNCHANGED <<block, phase, prog, done, outcome, late>>
    BY <1>2, HandledShape
  <2>2. PICK answers : /\ Taken(c, answers) /\ \A a \in answers : a.type # "RESERVE"
    BY <1>2, HandledShape
  <2> SUFFICES ASSUME NEW d \in Channels, NEW i \in 1..Len(chan'[d]),
                      chan'[d][i].type = "RESERVE"
               PROVE  /\ chan'[d][i].txn \in Current
                      /\ phase \in {"RESERVE", "ANALYZE", "FINALIZE", "CLEANUP"}
                      /\ phase = "CLEANUP" /\ done[chan'[d][i].txn] =>
                           \E j \in 1..Len(chan'[d]) :
                             j > i /\ IsRequest(chan'[d][j], "CLEANUP", chan'[d][i].txn,
                                                chan'[d][i].key, chan'[d][i].write)
    BY <2>1 DEF CleanupsFollow, IsRequest, Current
  <2>3. i + Off(c, d) \in 1..Len(chan[d]) /\ chan'[d][i] = chan[d][i + Off(c, d)]
    BY <2>2 DEF Taken
  <2>4. ASSUME phase = "CLEANUP", done[chan'[d][i].txn]
        PROVE  \E j \in 1..Len(chan'[d]) :
                 j > i /\ IsRequest(chan'[d][j], "CLEANUP", chan'[d][i].txn,
                                    chan'[d][i].key, chan'[d][i].write)
    <3>1. PICK j \in 1..Len(chan[d]) :
            j > i + Off(c, d) /\ IsRequest(chan[d][j], "CLEANUP", chan'[d][i].txn,
                                           chan'[d][i].key, chan'[d][i].write)
      BY <2>3, <2>4 DEF CleanupsFollow
    <3>2. Off(c, d) \in {0, 1} /\ Len(chan'[d]) \in Nat /\ Len(chan[d]) \in Nat
      BY <1>0, <2>2 DEF Off, Taken, TypeOK
    <3>3. j # 1
      BY <3>1, <3>2
    <3>4. j - Off(c, d) \in 1..Len(chan'[d]) /\ chan'[d][j - Off(c, d)] = chan[d][j]
      BY <2>2, <3>3 DEF Taken
    <3>5. j - Off(c, d) > i
      BY <3>1, <3>2
    <3> QED
      BY <3>1, <3>4, <3>5
  <2> QED
    BY <2>3, <2>4 DEF CleanupsFollow
<1>3. CASE EndPhase
  <2>1. /\ UNCHANGED <<block, prog, chan>> /\ done' = [t \in Txns |-> FALSE]
        /\ phase' = NextPhase /\ phase \in Phases \ {"CLEANUP"}
    BY <1>3 DEF EndPhase
  <2>2. \A c \in Channels : \A i \in 1..Len(chan[c]) : chan[c][i].txn \in Txns
    BY <1>0, PositionTypes
  <2>3. phase \in {"RESERVE", "ANALYZE", "FINALIZE"} =>
          phase' \in {"RESERVE", "ANALYZE", "FINALIZE", "CLEANUP"}
    BY <2>1 DEF NextPhase
  <2> QED
    BY <2>1, <2>2, <2>3 DEF CleanupsFollow, Current, Phases
<1>4. CASE EndBlock
  <2>1. phase = "CLEANUP" /\ PhaseOver /\ Waited /\ chan' = chan
    BY <1>4 DEF EndBlock
  <2>2. \A t \in Current : done[t] /\ pend[t] = {}
    BY <2>1 DEF PhaseOver, Waited, Working
  <2>3. ASSUME NEW c \in Channels, NEW i \in 1..Len(chan[c]), chan[c][i].type = "RESERVE"
        PROVE  FALSE
    <3>1. PICK j \in 1..Len(chan[c]) :
            IsRequest(chan[c][j], "CLEANUP", chan[c][i].txn, chan[c][i].key, chan[c][i].write)
      BY <2>1, <2>2, <2>3 DEF CleanupsFollow
    <3>2. chan[c][i].txn \in Current
      BY <2>3 DEF CleanupsFollow
    <3> QED
      BY <1>0, <2>2, <3>1, <3>2 DEF MessagesOK, MessageOK, IsRequest, Counted
  <2> QED
    BY <2>1, <2>3 DEF CleanupsFollow
<1>5. CASE UNCHANGED vars
  BY <1>5 DEF vars, CleanupsFollow, IsRequest, Current
<1> QED
  BY <1>1, <1>2, <1>3, <1>4, <1>5 DEF Next

\* A word that is not 0 keeps somebody who will clean it.
LEMMA SomebodyCleansStep ==
  ASSUME Discipline, CleanupsFollow, SomebodyCleans, [Next]_vars
  PROVE  SomebodyCleans'
<1>0. TypeOK /\ MessagesOK /\ WaitsOK
  BY DEF Discipline
<1>1. ASSUME NEW t \in Txns, Work(t) PROVE SomebodyCleans'
  <2>1. /\ UNCHANGED <<block, phase, prog, late>> /\ t \in Current /\ ~done[t]
        /\ \A u \in Txns : u # t => done'[u] = done[u]
    BY <1>1, WorkShape
  <2>2. \A u : /\ u \in Current' <=> u \in Current
               /\ Reads(u)' = Reads(u) /\ Writes(u)' = Writes(u)
    BY <2>1 DEF Current, Reads, Writes
  <2>3. ASSUME NEW u, NEW k, NEW write, Requested("CLEANUP", u, k, write)
        PROVE  Requested("CLEANUP", u, k, write)'
    <3>1. CASE chan' = chan
      BY <2>3, <3>1 DEF Requested, IsRequest
    <3>2. CASE chan' # chan
      <4>1. PICK type \in Types, r \in SUBSET Reads(t), w \in SUBSET Writes(t) :
              Extended(Asks(t, type, r, w))
        BY <1>1, <3>2, WorkShape
      <4> QED
        BY <2>3, <4>1, RequestedExtends
    <3> QED
      BY <3>1, <3>2
  <2> SUFFICES ASSUME NEW k \in Keys, word'[k] # ZeroWord
               PROVE  /\ phase \in {"RESERVE", "ANALYZE", "FINALIZE", "CLEANUP"}
                      /\ \E u \in Current :
                           /\ k \in Reads(u) \cup Writes(u)
                           /\ phase = "CLEANUP" /\ done'[u] =>
                                \E write \in BOOLEAN : Requested("CLEANUP", u, k, write)'
    BY <2>1, <2>2 DEF SomebodyCleans
  <2>4. CASE Reserve(t) /\ word'[k] # word[k]
    <3>1. phase = "RESERVE"
      BY <2>4 DEF Reserve
    <3>2. word'[k] = Reserved(t, k, word[k])
      BY <1>0, <2>4 DEF Reserve, TypeOK
    <3>3. k \in Reads(t) \cup Writes(t)
      BY <2>4, <3>2 DEF Reserved, Local
    <3> QED
      BY <2>1, <3>1, <3>3
  <2>5. CASE Cleanup(t)
    <3>1. word[k] # ZeroWord /\ k \notin Local(t, Reads(t) \cup Writes(t))
      BY <1>0, <2>5 DEF Cleanup, TypeOK
    <3>2. PICK u \in Current :
            /\ k \in Reads(u) \cup Writes(u)
            /\ phase = "CLEANUP" /\ done[u] =>
                 \E write \in BOOLEAN : Requested("CLEANUP", u, k, write)
      BY <3>1 DEF SomebodyCleans
    <3>3. CASE u = t
      <4>1. PICK write \in BOOLEAN : k \in Remote(t, IF write THEN Writes(t) ELSE Reads(t))
        BY <3>1, <3>2, <3>3 DEF Local, Remote
      <4>2. /\ "CLEANUP" \in Types
            /\ Reads(t) \in SUBSET Reads(t) /\ Writes(t) \in SUBSET Writes(t)
            /\ Extended(Asks(t, "CLEANUP", Reads(t), Writes(t)))
            /\ \A id \in pend[t] : id[1] # "CLEANUP"
        BY <2>5, CleanupShape
      <4>3. Requested("CLEANUP", t, k, write)'
        BY <1>0, <4>1, <4>2, SentRequested
      <4> QED
        BY <2>5, <3>2, <3>3, <4>3 DEF Cleanup
    <3>4. CASE u # t
      <4>1. u \in Txns /\ done'[u] = done[u]
        BY <2>1, <3>4 DEF Current
      <4> QED
        BY <2>3, <2>5, <3>2, <4>1 DEF Cleanup
    <3> QED
      BY <3>3, <3>4
  <2>6. CASE ~Cleanup(t) /\ word'[k] = word[k]
    <3>1. phase # "CLEANUP"
      BY <1>1, <2>6 DEF Work, Rollback, Execute, Reserve, Analyze, Commit, Delay
    <3> QED
      BY <2>6, <3>1 DEF SomebodyCleans
  <2>7. word' = word \/ Reserve(t) \/ Cleanup(t)
    BY <1>1 DEF Work, Rollback, Execute, Analyze, Commit, Delay
  <2> QED
    BY <2>4, <2>5, <2>6, <2>7
<1>2. ASSUME NEW c \in Channels, Process(c) PROVE SomebodyCleans'
  <2> DEFINE m == chan[c][1]
  <2>1. /\ UNCHANGED <<block, phase, prog, done, outcome, late>>
        /\ Head(chan[c]) = m /\ m.txn \in Txns /\ m.key \in Keys /\ m.write \in BOOLEAN
        /\ MessageOK(c, m) /\ 1 \in 1..Len(chan[c])
    BY <1>2, HandledShape
  <2>2. PICK answers : Taken(c, answers)
    BY <1>2, HandledShape
  <2>3. \A u : /\ u \in Current' <=> u \in Current
               /\ Reads(u)' = Reads(u) /\ Writes(u)' = Writes(u)
    BY <2>1 DEF Current, Reads, Writes
  <2>4. ASSUME NEW u, NEW k, NEW write, Requested("CLEANUP", u, k, write),
               ~(m.type = "CLEANUP" /\ ~m.answer /\ m.key = k)
        PROVE  Requested("CLEANUP", u, k, write)'
    <3>1. ~IsRequest(m, "CLEANUP", u, k, write)
      BY <2>4 DEF IsRequest
    <3> QED
      BY <2>2, <2>4, <3>1, RequestedStays
  <2> SUFFICES ASSUME NEW k \in Keys, word'[k] # ZeroWord
               PROVE  /\ phase \in {"RESERVE", "ANALYZE", "FINALIZE", "CLEANUP"}
                      /\ \E u \in Current :
                           /\ k \in Reads(u) \cup Writes(u)
                           /\ phase = "CLEANUP" /\ done[u] =>
                                \E write \in BOOLEAN : Requested("CLEANUP", u, k, write)'
    BY <2>1, <2>3 DEF SomebodyCleans
  <2>5. CASE m.type = "RESERVE" /\ k = m.key
    <3>1. /\ m.txn \in Current
          /\ phase \in {"RESERVE", "ANALYZE", "FINALIZE", "CLEANUP"}
          /\ phase = "CLEANUP" /\ done[m.txn] =>
               \E j \in 1..Len(chan[c]) :
                 j > 1 /\ IsRequest(chan[c][j], "CLEANUP", m.txn, m.key, m.write)
      BY <2>1, <2>5 DEF CleanupsFollow
    <3>2. k \in Reads(m.txn) \cup Writes(m.txn)
      BY <2>1, <2>5 DEF MessageOK, Accesses
    <3>3. PICK u \in Current, write \in BOOLEAN : u = m.txn /\ write = m.write
      BY <2>1, <3>1
    <3>4. ASSUME phase = "CLEANUP", done[u]
          PROVE  Requested("CLEANUP", u, k, write)'
      <4>1. Requested("CLEANUP", u, k, write)
        BY <2>5, <3>1, <3>3, <3>4 DEF Requested
      <4>2. ~(m.type = "CLEANUP" /\ ~m.answer /\ m.key = k)
        BY <2>5
      <4> HIDE DEF m
      <4> QED
        BY <2>4, <4>1, <4>2
    <3> HIDE DEF m
    <3> QED
      BY <3>1, <3>2, <3>3, <3>4
  <2>6. CASE ~(m.type = "RESERVE" /\ k = m.key)
    <3>1. word'[k] = word[k] /\ ~(m.type = "CLEANUP" /\ ~m.answer /\ m.key = k)
      <4>1. CASE ReserveRequest(c)
        BY <1>0, <2>1, <2>6, <4>1 DEF ReserveRequest, Take, TypeOK
      <4>2. CASE CleanupRequest(c)
        <5>1. word' = [word EXCEPT ![m.key] = ZeroWord]
          BY <2>1, <4>2 DEF CleanupRequest
        <5>2. m.key # k
          BY <1>0, <5>1 DEF TypeOK
        <5> QED
          BY <1>0, <5>1, <5>2 DEF TypeOK
      <4>3. CASE ~ReserveRequest(c) /\ ~CleanupRequest(c)
        BY <1>2, <2>1, <4>3
        DEF Process, SearchRequest, SearchResponse, CheckRequest, CheckResponse,
            WriteRequest, CountResponse, Take
      <4> QED
        BY <4>1, <4>2, <4>3
    <3>2. PICK u \in Current :
            /\ k \in Reads(u) \cup Writes(u)
            /\ phase = "CLEANUP" /\ done[u] =>
                 \E write \in BOOLEAN : Requested("CLEANUP", u, k, write)
      BY <3>1 DEF SomebodyCleans
    <3>3. phase \in {"RESERVE", "ANALYZE", "FINALIZE", "CLEANUP"}
      BY <3>1 DEF SomebodyCleans
    <3> HIDE DEF m
    <3> QED
      BY <2>4, <3>1, <3>2, <3>3
  <2> QED
    BY <2>5, <2>6
<1>3. CASE EndPhase
  <2>1. /\ UNCHANGED <<block, prog, chan, word>> /\ done' = [t \in Txns |-> FALSE]
        /\ phase' = NextPhase /\ phase \in Phases \ {"CLEANUP"}
    BY <1>3 DEF EndPhase
  <2>2. phase \in {"RESERVE", "ANALYZE", "FINALIZE"} =>
          phase' \in {"RESERVE", "ANALYZE", "FINALIZE", "CLEANUP"}
    BY <2>1 DEF NextPhase
  <2>3. \A t \in Current : t \in Txns
    BY DEF Current
  <2> QED
    BY <2>1, <2>2, <2>3 DEF SomebodyCleans, Current, Reads, Writes
<1>4. CASE EndBlock
  <2>1. phase = "CLEANUP" /\ PhaseOver /\ Waited /\ word' = word
    BY <1>4 DEF EndBlock
  <2>2. \A t \in Current : done[t] /\ pend[t] = {} /\ t \in Txns
    BY <2>1 DEF PhaseOver, Waited, Working, Current
  <2>3. ASSUME NEW t \in Current, NEW k, NEW write, Requested("CLEANUP", t, k, write)
        PROVE  FALSE
    <3>1. PICK c \in Channels : \E i \in 1..Len(chan[c]) :
            IsRequest(chan[c][i], "CLEANUP", t, k, write)
      BY <2>3 DEF Requested
    <3> QED
      BY <1>0, <2>2, <3>1 DEF MessagesOK, MessageOK, IsRequest, Counted
  <2> QED
    BY <2>1, <2>2, <2>3 DEF SomebodyCleans
<1>5. CASE UNCHANGED vars
  BY <1>5 DEF vars, SomebodyCleans, Requested, IsRequest, Current, Reads, Writes
<1> QED
  BY <1>1, <1>2, <1>3, <1>4, <1>5 DEF Next

\* What has been read stays what the store holds until commits change it.
LEMMA SnapshotTakenStep ==
  ASSUME Discipline, SnapshotTaken, [Next]_vars
  PROVE  SnapshotTaken'
<1>0. TypeOK /\ TypeOK' /\ MessagesOK /\ WaitsOK /\ WaitsOK' /\ MessagesOK'
  BY TypeStep, DisciplineStep DEF Discipline
\* Outside EXECUTE no search is under way.
<1>1. ASSUME NEW c \in Channels, NEW i \in 1..Len(chan'[c]), chan'[c][i].type = "SEARCH"
      PROVE  phase' = "EXECUTE"
  <2>1. chan'[c][i].txn \in Txns
    <3>1. chan' \in [Channels -> Seq(Message)]
      BY <1>0 DEF TypeOK
    <3>2. chan'[c][i] \in Message
      BY <3>1
    <3> QED
      BY <3>2 DEF Message
  <2>2. Id(chan'[c][i]) \in pend'[chan'[c][i].txn]
    BY <1>0, <1>1 DEF MessagesOK, MessageOK, Counted, Id
  <2>3. WaitOK(chan[c][i].txn, Id(chan[c][i]))'
    BY <1>0, <2>1, <2>2 DEF WaitsOK, Id
  <2> QED
    BY <1>1, <2>3 DEF WaitOK, Id
<1>2. CASE phase' \notin {"EXECUTE", "RESERVE", "ANALYZE"}
  BY <1>1, <1>2 DEF SnapshotTaken
<1>3. ASSUME NEW t \in Txns, Work(t), phase \in {"EXECUTE", "RESERVE", "ANALYZE"}
      PROVE  SnapshotTaken'
  <2>1. /\ UNCHANGED <<block, phase, prog, late>> /\ t \in Current /\ ~done[t]
        /\ \A u \in Txns : u # t => done'[u] = done[u]
    BY <1>3, WorkShape
  <2>2. db' = db
    BY <1>3 DEF Work, Rollback, Execute, Reserve, Analyze, Commit, Delay, Cleanup
  <2>3. \A c \in Channels : \A i \in 1..Len(chan'[c]) :
          chan'[c][i].answer => i \in 1..Len(chan[c]) /\ chan'[c][i] = chan[c][i]
    <3>1. CASE chan' # chan
      <4>1. PICK type \in Types, r \in SUBSET Reads(t), w \in SUBSET Writes(t) :
              Extended(Asks(t, type, r, w))
        BY <1>3, <3>1, WorkShape
      <4>2. ASSUME NEW c \in Channels, NEW i \in 1..Len(chan'[c]), chan'[c][i].answer
            PROVE  i \in 1..Len(chan[c]) /\ chan'[c][i] = chan[c][i]
        <5>1. \/ i \in 1..Len(chan[c]) /\ chan'[c][i] = chan[c][i]
              \/ /\ i > Len(chan[c])
                 /\ chan'[c][i].type = type /\ ~chan'[c][i].answer /\ chan'[c][i].txn = t
                 /\ chan'[c][i].write \in BOOLEAN
                 /\ chan'[c][i].key \in Remote(t, IF chan'[c][i].write THEN w ELSE r)
                 /\ Route(chan'[c][i]) = c
          BY <1>0, <4>1, SentFrom
        <5> QED
          BY <4>2, <5>1
      <4> QED
        BY <4>2
    <3> QED
      BY <3>1
  <2>4. \A c \in Channels : \A i \in 1..Len(chan'[c]) :
          chan'[c][i].type = "SEARCH" /\ chan'[c][i].answer =>
            chan'[c][i].val = db'[chan'[c][i].key]
    BY <2>2, <2>3 DEF SnapshotTaken
  <2>5. ASSUME NEW u \in Current, Live(u)',
               phase \in {"RESERVE", "ANALYZE"} \/ (phase = "EXECUTE" /\ done'[u]),
               NEW k \in Reads(u)
        PROVE  seen'[u][k] = db'[k] \/ <<"SEARCH", k, FALSE>> \in pend'[u]
    <3>0. u \in Txns /\ k \in Keys
      BY <1>0, AccessTypes DEF Current
    <3>1. CASE Execute(t)
      <4>1. /\ seen' = [seen EXCEPT ![t] = [j \in Keys |-> IF j \in Local(t, Reads(t))
                                                          THEN db[j] ELSE seen[t][j]]]
            /\ outcome' = outcome /\ phase = "EXECUTE"
            /\ pend' = [pend EXCEPT ![t] = @ \cup
                          Ids(Requests("SEARCH", t, Remote(t, Reads(t)), FALSE))]
        BY <3>1 DEF Execute, Ask
      <4>2. CASE u = t
        <5>1. CASE k \in Local(t, Reads(t))
          BY <1>0, <2>2, <3>0, <4>1, <4>2, <5>1 DEF TypeOK
        <5>2. CASE k \in Remote(t, Reads(t))
          <6> DEFINE m == [type |-> "SEARCH", answer |-> FALSE, txn |-> t, key |-> k,
                           write |-> FALSE, val |-> NoTxn, found |-> {}]
          <6>1. m \in Requests("SEARCH", t, Remote(t, Reads(t)), FALSE)
            BY <5>2 DEF Requests
          <6>2. Id(m) = <<"SEARCH", k, FALSE>>
            BY DEF Id
          <6> HIDE DEF m
          <6>3. <<"SEARCH", k, FALSE>> \in Ids(Requests("SEARCH", t, Remote(t, Reads(t)), FALSE))
            BY <6>1, <6>2 DEF Ids
          <6> QED
            BY <1>0, <4>1, <4>2, <6>3 DEF TypeOK
        <5> QED
          BY <2>5, <4>2, <5>1, <5>2 DEF Local, Remote
      <4>3. CASE u # t
        <5>1. seen'[u] = seen[u] /\ pend'[u] = pend[u] /\ done'[u] = done[u]
          BY <1>0, <2>1, <3>0, <4>1, <4>3 DEF TypeOK
        <5>2. Live(u)
          BY <2>5, <4>1 DEF Live
        <5> QED
          BY <2>2, <2>5, <5>1, <5>2 DEF SnapshotTaken
      <4> QED
        BY <4>2, <4>3
    <3>2. CASE ~Execute(t)
      <4>1. /\ seen' = seen
            /\ outcome' = outcome \/ (Rollback(t) /\ outcome' = [outcome EXCEPT ![t] = "no_retry"])
        BY <1>3, <3>2 DEF Work, Rollback, Reserve, Analyze, Commit, Delay, Cleanup
      <4>2. pend[u] \subseteq pend'[u]
        <5>1. pend' = pend \/ \E msgs : pend' = [pend EXCEPT ![t] = @ \cup Ids(msgs)]
          <6>1. CASE Analyze(t)
            BY <6>1 DEF Analyze, Ask
          <6>2. CASE Commit(t)
            BY <6>2 DEF Commit, Ask
          <6>3. CASE Cleanup(t)
            BY <6>3 DEF Cleanup, Ask
          <6>4. CASE Rollback(t) \/ Reserve(t) \/ Delay(t)
            BY <6>4 DEF Rollback, Reserve, Delay
          <6> QED
            BY <1>3, <3>2, <6>1, <6>2, <6>3, <6>4 DEF Work
        <5> QED
          BY <1>0, <3>0, <5>1 DEF TypeOK
      <4>3. Live(u) /\ (u = t => phase # "EXECUTE")
        <5>1. CASE outcome' = outcome
          <6>1. u = t /\ phase = "EXECUTE" => Rollback(t)
            BY <1>3, <3>2 DEF Work, Reserve, Analyze, Commit, Delay, Cleanup
          <6>2. ~Rollback(t) \/ u # t
            BY <1>0, <2>5, <3>0, <5>1 DEF Rollback, Live, TypeOK
          <6> QED
            BY <2>5, <5>1, <6>1, <6>2 DEF Live
        <5>2. CASE outcome' = [outcome EXCEPT ![t] = "no_retry"]
          <6>1. u # t
            BY <1>0, <2>5, <3>0, <5>2 DEF Live, TypeOK
          <6> QED
            BY <1>0, <2>5, <3>0, <5>2, <6>1 DEF Live, TypeOK
        <5> QED
          BY <4>1, <5>1, <5>2
      <4>4. phase \in {"RESERVE", "ANALYZE"} \/ (phase = "EXECUTE" /\ done[u])
        BY <2>1, <2>5, <3>0, <4>3
      <4> QED
        BY <2>2, <2>5, <4>1, <4>2, <4>3, <4>4 DEF SnapshotTaken
    <3> QED
      BY <3>1, <3>2
  <2>6. \A u : (u \in Current' <=> u \in Current) /\ Reads(u)' = Reads(u)
    BY <2>1 DEF Current, Reads
  <2> QED
    BY <2>1, <2>4, <2>5, <2>6 DEF SnapshotTaken
<1>4. ASSUME NEW c \in Channels, Process(c), phase \in {"EXECUTE", "RESERVE", "ANALYZE"}
      PROVE  SnapshotTaken'
  <2> DEFINE m == chan[c][1]
  <2>1. /\ UNCHANGED <<block, phase, prog, done, outcome, late>>
        /\ Head(chan[c]) = m /\ m.txn \in Txns /\ m.key \in Keys /\ m.write \in BOOLEAN
        /\ MessageOK(c, m) /\ 1 \in 1..Len(chan[c])
    BY <1>4, HandledShape
  <2>2. m.type # "WRITE"
    <3>1. m.type = "WRITE" => Id(m) \in pend[m.txn]
      BY <2>1 DEF MessageOK, Counted
    <3> QED
      BY <1>0, <1>4, <2>1, <3>1 DEF WaitsOK, WaitOK, Id
  <2>3. db' = db
    BY <1>4, <2>1, <2>2
    DEF Process, SearchRequest, SearchResponse, ReserveRequest, CheckRequest,
        CheckResponse, WriteRequest, CleanupRequest, CountResponse, Take
  <2>4. ASSUME NEW d \in Channels, NEW i \in 1..Len(chan'[d]),
               chan'[d][i].type = "SEARCH", chan'[d][i].answer
        PROVE  chan'[d][i].val = db'[chan'[d][i].key]
    <3>1. CASE SearchRequest(c)
      <4> DEFINE a == [m EXCEPT !.answer = TRUE, !.val = db[m.key], !.found = {}]
      <4>1. Reply(c, m, db[m.key], {}) /\ chan[c] # <<>> /\ m \in Message
        BY <1>0, <2>1, <3>1, HeadTypes DEF SearchRequest, Take
      <4>2. Taken(c, {a})
        BY <1>0, <2>1, <4>1, ReplyFacts DEF TypeOK
      <4>3. a.val = db[a.key]
        BY <4>1 DEF Message
      <4> HIDE DEF a
      <4>4. \/ i + Off(c, d) \in 1..Len(chan[d]) /\ chan'[d][i] = chan[d][i + Off(c, d)]
            \/ chan'[d][i] = a
        BY <4>2 DEF Taken
      <4> QED
        BY <2>3, <2>4, <4>3, <4>4 DEF SnapshotTaken
    <3>2. CASE ~SearchRequest(c)
      <4>1. PICK answers :
              /\ Taken(c, answers)
              /\ \A a \in answers : Id(a) = Id(m) /\ ~m.answer
        BY <1>4, HandledShape
      <4>2. m.type = "SEARCH" => m.answer
        BY <1>4, <2>1, <3>2
        DEF Process, SearchResponse, ReserveRequest, CheckRequest,
            CheckResponse, WriteRequest, CleanupRequest, CountResponse, Take
      <4>3. \A a \in answers : a.type # "SEARCH"
        BY <4>1, <4>2, SameId
      <4>4. i + Off(c, d) \in 1..Len(chan[d]) /\ chan'[d][i] = chan[d][i + Off(c, d)]
        BY <2>4, <4>1, <4>3 DEF Taken
      <4> QED
        BY <2>3, <2>4, <4>4 DEF SnapshotTaken
    <3> QED
      BY <3>1, <3>2
  <2>5. ASSUME NEW u \in Current, Live(u),
               phase \in {"RESERVE", "ANALYZE"} \/ (phase = "EXECUTE" /\ done[u]),
               NEW k \in Reads(u)
        PROVE  seen'[u][k] = db'[k] \/ <<"SEARCH", k, FALSE>> \in pend'[u]
    <3>0. u \in Txns /\ k \in Keys
      BY <1>0, AccessTypes DEF Current
    <3>1. seen[u][k] = db[k] \/ <<"SEARCH", k, FALSE>> \in pend[u]
      BY <2>5 DEF SnapshotTaken
    <3>2. CASE SearchResponse(c)
      <4>1. /\ seen' = [seen EXCEPT ![m.txn][m.key] = m.val] /\ m.type = "SEARCH" /\ m.answer
            /\ pend' = [pend EXCEPT ![m.txn] = @ \ {Id(m)}]
        BY <2>1, <3>2 DEF SearchResponse, Take, Answered
      <4>2. m.val = db[m.key]
        BY <2>1, <4>1 DEF SnapshotTaken
      <4>3. CASE u = m.txn /\ k = m.key
        <5>1. seen'[u][k] = m.val
          BY <1>0, <2>1, <3>0, <4>1, <4>3 DEF TypeOK
        <5> QED
          BY <2>3, <4>2, <4>3, <5>1
      <4>4. CASE ~(u = m.txn /\ k = m.key)
        <5>1. seen'[u][k] = seen[u][k]
          BY <1>0, <2>1, <3>0, <4>1, <4>4 DEF TypeOK
        <5>2. <<"SEARCH", k, FALSE>> \in pend[u] => <<"SEARCH", k, FALSE>> \in pend'[u]
          BY <1>0, <2>1, <3>0, <4>1, <4>4 DEF TypeOK, Id
        <5> QED
          BY <2>3, <3>1, <5>1, <5>2
      <4> QED
        BY <4>3, <4>4
    <3>3. CASE ~SearchResponse(c)
      <4>1. seen' = seen
        BY <1>4, <3>3
        DEF Process, SearchRequest, ReserveRequest, CheckRequest,
            CheckResponse, WriteRequest, CleanupRequest, CountResponse
      <4>2. pend' = pend \/ (/\ pend' = [pend EXCEPT ![m.txn] = @ \ {Id(m)}]
                             /\ m.type # "SEARCH")
        BY <1>4, <2>1, <3>3
        DEF Process, SearchRequest, ReserveRequest, CheckRequest,
            CheckResponse, WriteRequest, CleanupRequest, CountResponse, Take, Answered
      <4>3. <<"SEARCH", k, FALSE>> \in pend[u] => <<"SEARCH", k, FALSE>> \in pend'[u]
        <5>1. m.type # "SEARCH" => Id(m) # <<"SEARCH", k, FALSE>>
          BY DEF Id
        <5>2. pend \in [Txns -> SUBSET (Types \X Keys \X BOOLEAN)]
          BY <1>0 DEF TypeOK
        <5>3. PICK t, id : t = m.txn /\ id = Id(m)
          OBVIOUS
        <5>4. pend'[u] = pend[u] \/ (pend'[u] = pend[u] \ {id} /\ id # <<"SEARCH", k, FALSE>>)
          <6>1. u \in Txns
            BY DEF Current
          <6>2. pend' = pend \/ (pend' = [pend EXCEPT ![t] = @ \ {id}] /\ id # <<"SEARCH", k, FALSE>>)
            BY <4>2, <5>1, <5>3
          <6> QED
            BY ONLY <5>2, <6>1, <6>2
        <5> QED
          BY ONLY <5>4
      <4> QED
        BY <2>3, <3>1, <4>1, <4>3
    <3> QED
      BY <3>2, <3>3
  <2>6. \A u : /\ (u \in Current' <=> u \in Current) /\ Reads(u)' = Reads(u)
               /\ Live(u)' <=> Live(u)
    BY <2>1 DEF Current, Reads, Live
  <2> QED
    BY <2>1, <2>4, <2>5, <2>6 DEF SnapshotTaken
<1>5. CASE EndPhase
  <2>1. /\ UNCHANGED <<block, prog, chan, db, seen, pend, outcome>>
        /\ phase' = NextPhase /\ phase \in Phases \ {"CLEANUP"} /\ PhaseOver
    BY <1>5 DEF EndPhase
  <2>2. phase' # "EXECUTE"
    BY <2>1 DEF NextPhase, Phases
  <2>3. phase' \in {"RESERVE", "ANALYZE"} => phase \in {"EXECUTE", "RESERVE"}
    BY <2>1 DEF NextPhase, Phases
  <2>4. phase = "EXECUTE" => \A t \in Current : done[t]
    BY <2>1 DEF PhaseOver, Working
  <2> QED
    BY <2>1, <2>2, <2>3, <2>4 DEF SnapshotTaken, Current, Live, Reads
<1>6. CASE EndBlock
  <2>1. /\ UNCHANGED <<chan, db>> /\ done' = [t \in Txns |-> FALSE]
        /\ phase' \in {"EXECUTE", "DONE"}
    BY <1>6 DEF EndBlock
  <2>2. \A t \in Current' : t \in Txns
    BY DEF Current
  <2> QED
    BY <2>1, <2>2 DEF SnapshotTaken
<1>7. CASE UNCHANGED vars
  BY <1>7 DEF vars, SnapshotTaken, Current, Live, Reads
<1>8. phase' = phase \/ EndPhase \/ EndBlock
  <2>1. \A t \in Txns : Work(t) => phase' = phase
    BY WorkShape
  <2>2. \A c \in Channels : Process(c) => phase' = phase
    BY HandledShape
  <2> QED
    BY <2>1, <2>2 DEF Next, vars
<1> QED
  BY <1>2, <1>3, <1>4, <1>5, <1>6, <1>7, <1>8 DEF Next
-----------------------------------------------------------------------------
(* The epochs of the words.                                                *)

\* Reserving gives a word the epoch of the block, whoever reserves.
LEMMA EpochsRise ==
  ASSUME Discipline, CleanupsFollow, EpochsFit, \A k \in Keys : word[k].epoch <= EpochOf[block]
  PROVE  /\ \A t \in Txns : Reserve(t) =>
              \A k \in Keys : \/ word'[k] = word[k] /\ k \notin Local(t, Reads(t) \cup Writes(t))
                              \/ word'[k] = word[k] /\ Unreserved(t)
                              \/ word'[k].epoch = EpochOf[block]
         /\ \A c \in Channels : ReserveRequest(c) =>
              /\ \A k \in Keys : word'[k] = word[k] \/ word'[k].epoch = EpochOf[block]
              /\ word'[chan[c][1].key].epoch = EpochOf[block]
<1>0. TypeOK
  BY DEF Discipline
<1>1. ASSUME NEW t \in Txns, Reserve(t), NEW k \in Keys
      PROVE  \/ word'[k] = word[k] /\ k \notin Local(t, Reads(t) \cup Writes(t))
             \/ word'[k] = word[k] /\ Unreserved(t)
             \/ word'[k].epoch = EpochOf[block]
  <2>1. Turn(t)
    BY <1>1 DEF Reserve
  <2>2. t \in Current
    BY <2>1, NotAskedYet
  <2>3. CASE Unreserved(t)
    BY <1>1, <2>3 DEF Reserve
  <2>4. CASE ~Unreserved(t)
    <3>1. word'[k] = Reserved(t, k, word[k])
      BY <1>1, <2>4 DEF Reserve
    <3>2. CASE k \in Local(t, Reads(t) \cup Writes(t))
      <4>1. k \in Local(t, Reads(t)) \/ k \in Local(t, Writes(t))
        BY <3>2 DEF Local
      <4>2. \/ HoldsIn(Reserved(t, k, word[k]), Epoch(t), Tid[t], FALSE)
            \/ HoldsIn(Reserved(t, k, word[k]), Epoch(t), Tid[t], TRUE)
        BY <1>0, <2>2, <4>1, ReservedFacts
      <4>3. Reserved(t, k, word[k]).epoch = Epoch(t)
        BY <4>2 DEF HoldsIn
      <4> QED
        BY <1>0, <2>2, <3>1, <4>3, CurrentEpoch
    <3>3. CASE k \notin Local(t, Reads(t) \cup Writes(t))
      <4>1. k \notin Local(t, Reads(t)) /\ k \notin Local(t, Writes(t))
        BY <3>3 DEF Local
      <4> QED
        BY <3>1, <3>3, <4>1 DEF Reserved
    <3> QED
      BY <3>2, <3>3
  <2> QED
    BY <2>3, <2>4
<1>2. ASSUME NEW c \in Channels, ReserveRequest(c)
      PROVE  /\ \A k \in Keys : word'[k] = word[k] \/ word'[k].epoch = EpochOf[block]
             /\ word'[chan[c][1].key].epoch = EpochOf[block]
  <2> DEFINE m == chan[c][1]
  <2>1. /\ Head(chan[c]) = m /\ m.txn \in Txns /\ m.key \in Keys /\ m.type = "RESERVE"
        /\ 1 \in 1..Len(chan[c])
    BY <1>2, HandledShape DEF Process, ReserveRequest, Take
  <2>2. m.txn \in Current
    BY <2>1 DEF CleanupsFollow
  <2>3. /\ Epoch(m.txn) = EpochOf[block] /\ Epoch(m.txn) \in Nat
        /\ Epoch(m.txn) < EpochModulus /\ Tid[m.txn] \in Nat \ {0}
    BY <1>0, <2>2, CurrentEpoch
  <2>4. word[m.key] \in Word /\ word[m.key].epoch <= Epoch(m.txn)
    BY <1>0, <2>1, <2>3 DEF TypeOK
  <2>5. /\ ReserveRead(word[m.key], Epoch(m.txn), Tid[m.txn]).epoch = EpochOf[block]
        /\ ReserveWrite(word[m.key], Epoch(m.txn), Tid[m.txn]).epoch = EpochOf[block]
    BY <2>3, <2>4, ReserveReadFacts, ReserveWriteFacts, ZenonT(60)
  <2>6. word' = [word EXCEPT ![m.key] =
                   IF m.write THEN ReserveWrite(@, Epoch(m.txn), Tid[m.txn])
                              ELSE ReserveRead(@, Epoch(m.txn), Tid[m.txn])]
    BY <1>2, <2>1 DEF ReserveRequest
  <2> HIDE DEF m
  <2>7. word'[m.key].epoch = EpochOf[block] /\ \A k \in Keys : k # m.key => word'[k] = word[k]
    BY <1>0, <2>1, <2>5, <2>6 DEF TypeOK
  <2> QED
    BY <2>7 DEF m
<1> QED
  BY <1>1, <1>2

\* Checks are under way in ANALYZE and FINALIZE only, clean-ups in CLEANUP.
LEMMA PhaseOfMessages ==
  ASSUME Discipline, NEW c \in Channels, NEW i \in 1..Len(chan[c])
  PROVE  /\ chan[c][i].type = "CHECK" =>
              phase \in {"ANALYZE", "FINALIZE"} /\ chan[c][i].txn \in Current
         /\ chan[c][i].type = "CLEANUP" => phase = "CLEANUP"
         /\ chan[c][i].type = "WRITE" =>
              /\ phase \in {"FINALIZE", "CLEANUP"} /\ chan[c][i].write = TRUE
              /\ chan[c][i].txn \in Current \cap Committed
<1> DEFINE m == chan[c][i]
<1>1. TypeOK /\ WaitsOK /\ MessageOK(c, m) /\ m.txn \in Txns
  BY PositionTypes DEF Discipline, MessagesOK
<1>2. ASSUME m.type \in {"CHECK", "CLEANUP", "WRITE"} PROVE WaitOK(m.txn, Id(m))
  <2>1. Id(m) \in pend[m.txn]
    BY <1>1, <1>2 DEF MessageOK, Counted
  <2> QED
    BY <1>1, <2>1 DEF WaitsOK
<1> HIDE DEF m
<1>3. /\ m.type = "CHECK" => phase \in {"ANALYZE", "FINALIZE"} /\ m.txn \in Current
      /\ m.type = "CLEANUP" => phase = "CLEANUP"
      /\ m.type = "WRITE" => /\ phase \in {"FINALIZE", "CLEANUP"} /\ m.write
                             /\ m.txn \in Current \cap Committed
  BY <1>1, <1>2 DEF WaitOK, Id, Committed
<1>4. m.write \in BOOLEAN
  BY <1>1, PositionTypes DEF m
<1> QED
  BY <1>3, <1>4 DEF m

\* No word is ahead of the block.
LEMMA EpochsBounded ==
  ASSUME Discipline, CleanupsFollow, EpochsFit, [Next]_vars,
         \A k \in Keys : word[k].epoch <= EpochOf[block]
  PROVE  \A k \in Keys : word'[k].epoch <= EpochOf[block']
<1>0. TypeOK /\ EpochOf[block] \in Nat /\ ZeroWord.epoch <= EpochOf[block]
  BY ScheduleAssumption DEF Discipline, TypeOK, ZeroWord
<1>1. ASSUME NEW t \in Txns, Work(t) PROVE \A k \in Keys : word'[k].epoch <= EpochOf[block']
  <2>1. block' = block
    BY <1>1, WorkShape
  <2>2. CASE Reserve(t)
    <3>1. \A k \in Keys : word'[k] = word[k] \/ word'[k].epoch = EpochOf[block]
      BY <2>2, EpochsRise
    <3> QED
      BY <1>0, <2>1, <3>1
  <2>3. CASE Cleanup(t)
    BY <1>0, <2>1, <2>3 DEF Cleanup
  <2>4. CASE ~Reserve(t) /\ ~Cleanup(t)
    BY <1>1, <2>1, <2>4 DEF Work, Rollback, Execute, Analyze, Commit, Delay
  <2> QED
    BY <2>2, <2>3, <2>4
<1>2. ASSUME NEW c \in Channels, Process(c)
      PROVE  \A k \in Keys : word'[k].epoch <= EpochOf[block']
  <2>1. block' = block
    BY <1>2, HandledShape
  <2>2. CASE ReserveRequest(c)
    BY <1>0, <2>1, <2>2, EpochsRise
  <2>3. CASE CleanupRequest(c)
    <3>1. word' = [word EXCEPT ![Head(chan[c]).key] = ZeroWord]
      BY <2>3 DEF CleanupRequest
    <3> QED
      BY <1>0, <2>1, <3>1 DEF TypeOK
  <2>4. CASE ~ReserveRequest(c) /\ ~CleanupRequest(c)
    BY <1>2, <2>1, <2>4
    DEF Process, SearchRequest, SearchResponse, CheckRequest, CheckResponse,
        WriteRequest, CountResponse
  <2> QED
    BY <2>2, <2>3, <2>4
<1>3. CASE EndPhase
  BY <1>3 DEF EndPhase
<1>4. CASE EndBlock
  <2>1. word' = word /\ block \in 1..NBlocks /\ block' \in 1..NBlocks
        /\ (block' = block \/ block < block')
    BY <1>0, <1>4, ScheduleAssumption DEF EndBlock, TypeOK
  <2>2. EpochOf[block] <= EpochOf[block'] /\ EpochOf[block'] \in Nat
    BY <2>1, ScheduleAssumption
  <2>3. \A k \in Keys : word[k].epoch \in Nat
    BY <1>0 DEF TypeOK, Word
  <2> QED
    BY <1>0, <2>1, <2>2, <2>3
<1>5. CASE UNCHANGED vars
  BY <1>5 DEF vars
<1> QED
  BY <1>1, <1>2, <1>3, <1>4, <1>5 DEF Next

\* A word keeps the epoch of the block until the block is cleaned up, and a
\* check stays behind the reservation of the same access.
LEMMA EpochsStep ==
  ASSUME Discipline, CleanupsFollow, EpochsFit, EpochsOK, [Next]_vars
  PROVE  EpochsOK'
<1>0. /\ TypeOK /\ TypeOK' /\ MessagesOK /\ EpochOf[block] \in Nat
      /\ Discipline' /\ \A k \in Keys : word[k].epoch <= EpochOf[block]
  BY TypeStep, DisciplineStep, ScheduleAssumption DEF Discipline, TypeOK, EpochsOK
<1>1. \A k \in Keys : word'[k].epoch <= EpochOf[block']
  BY <1>0, EpochsBounded
<1>2. \A c \in Channels : \A i \in 1..Len(chan'[c]) :
        chan'[c][i].type = "CHECK" => phase' \in {"ANALYZE", "FINALIZE"}
  <2>1. ASSUME NEW c \in Channels, NEW i \in 1..Len(chan'[c]), chan'[c][i].type = "CHECK"
        PROVE  phase' \in {"ANALYZE", "FINALIZE"}
    <3>1. chan'[c][i].txn \in Txns
      <4>1. chan' \in [Channels -> Seq(Message)]
        BY <1>0 DEF TypeOK
      <4>2. chan'[c][i] \in Message
        BY <4>1
      <4> QED
        BY <4>2 DEF Message
    <3>2. Id(chan'[c][i]) \in pend'[chan'[c][i].txn]
      BY <1>0, <2>1 DEF Discipline, MessagesOK, MessageOK, Counted, Id
    <3>3. WaitOK(chan[c][i].txn, Id(chan[c][i]))'
      BY <1>0, <3>1, <3>2 DEF Discipline, WaitsOK, Id
    <3> QED
      BY <2>1, <3>3 DEF WaitOK, Id
  <2> QED
    BY <2>1
<1>3. CASE phase' \notin {"RESERVE", "ANALYZE", "FINALIZE"}
  BY <1>1, <1>2, <1>3 DEF EpochsOK, HasReserved
\* What the transactions of the block keep when their words do.
<1>4. ASSUME block' = block, prog' = prog, late => late',
             \A k \in Keys : word'[k] = word[k] \/ word'[k].epoch = EpochOf[block]
      PROVE  \A t \in Current : \A k \in Keys :
               /\ word[k].epoch = Epoch(t) => word'[k].epoch = Epoch(t)
               /\ word'[k].epoch = EpochOf[block] => word'[k].epoch = Epoch(t)
  BY <1>0, <1>4, CurrentEpoch
<1>5. prog' = prog /\ (late => late') /\ \A u \in Txns : Reserving(u)' => Reserving(u)
  BY LiveShrinks
<1>6. ASSUME NEW t \in Txns, Work(t), phase' \in {"RESERVE", "ANALYZE", "FINALIZE"}
      PROVE  EpochsOK'
  <2>1. /\ UNCHANGED <<block, phase, prog, late>> /\ t \in Current /\ ~done[t]
        /\ \A u \in Txns : u # t => done'[u] = done[u]
        /\ phase \in {"RESERVE", "ANALYZE", "FINALIZE"}
    BY <1>6, WorkShape
  <2>2. \A k \in Keys : word'[k] = word[k] \/ word'[k].epoch = EpochOf[block]
    <3>1. CASE Reserve(t)
      BY <1>0, <3>1, EpochsRise
    <3>2. CASE ~Reserve(t)
      BY <1>6, <2>1, <3>2 DEF Work, Rollback, Execute, Analyze, Commit, Delay, Cleanup
    <3> QED
      BY <3>1, <3>2
  <2>3. \A u \in Current : \A k \in Keys :
          /\ word[k].epoch = Epoch(u) => word'[k].epoch = Epoch(u)
          /\ word'[k].epoch = EpochOf[block] => word'[k].epoch = Epoch(u)
    BY <1>4, <2>1, <2>2
  <2>4. \A u : /\ u \in Current' <=> u \in Current
               /\ \A write : Accesses(u, write)' = Accesses(u, write)
    BY <2>1, ProgramsFixed DEF Current
  <2>5. ASSUME NEW u, NEW k, NEW write, Requested("RESERVE", u, k, write)
        PROVE  Requested("RESERVE", u, k, write)'
    <3>1. CASE chan' = chan
      BY <2>5, <3>1 DEF Requested, IsRequest
    <3>2. CASE chan' # chan
      <4>1. PICK type \in Types, r \in SUBSET Reads(t), w \in SUBSET Writes(t) :
              Extended(Asks(t, type, r, w))
        BY <1>6, <3>2, WorkShape
      <4> QED
        BY <2>5, <4>1, RequestedExtends
    <3> QED
      BY <3>1, <3>2
  \* Every reservation made has reached its row or is on its way.
  <2>6. ASSUME NEW u \in Txns, HasReserved(u)', NEW write \in BOOLEAN, NEW k \in Accesses(u, write)
        PROVE  word'[k].epoch = Epoch(u) \/ Requested("RESERVE", u, k, write)'
    <3>0. u \in Current /\ k \in Keys /\ Reserving(u)' /\ Reserving(u)
      BY <1>0, <1>5, <2>4, <2>6, AccessTypes DEF HasReserved, Accesses
    <3>1. CASE HasReserved(u)
      <4>1. word[k].epoch = Epoch(u) \/ Requested("RESERVE", u, k, write)
        BY <2>6, <3>1 DEF EpochsOK
      <4> QED
        BY <2>3, <2>5, <3>0, <4>1
    <3>2. CASE ~HasReserved(u)
      <4>1. u = t /\ phase = "RESERVE"
        BY <2>1, <2>6, <3>0, <3>2 DEF HasReserved
      <4>2. Reserve(t) /\ ~Unreserved(t)
        BY <1>6, <3>0, <4>1
        DEF Work, Rollback, Execute, Analyze, Commit, Delay, Cleanup, Reserving
      <4>3. CASE Owner[k] = Home[t]
        <5>1. k \in Local(t, Reads(t) \cup Writes(t))
          BY <2>6, <4>1, <4>3 DEF Local, Accesses
        <5>2. word'[k].epoch = EpochOf[block]
          BY <1>0, <3>0, <4>2, <5>1, EpochsRise
        <5> QED
          BY <2>3, <3>0, <5>2
      <4>4. CASE Owner[k] # Home[t]
        <5> DEFINE m == [type |-> "RESERVE", answer |-> FALSE, txn |-> t, key |-> k,
                         write |-> write, val |-> NoTxn, found |-> {}]
        <5>1. Send(Asks(t, "RESERVE", Reads(t), Writes(t)))
          BY <4>2 DEF Reserve, Asks
        <5>2. /\ Reads(t) \in SUBSET Reads(t) /\ Writes(t) \in SUBSET Writes(t)
              /\ "RESERVE" \in Types
          BY DEF Types
        <5>3. /\ Asks(t, "RESERVE", Reads(t), Writes(t)) \in SUBSET Message
              /\ IsFiniteSet(Asks(t, "RESERVE", Reads(t), Writes(t)))
          BY <1>0, <5>2, MessageTypes DEF Asks
        <5>4. Extended(Asks(t, "RESERVE", Reads(t), Writes(t)))
          BY <1>0, <5>1, <5>3, SendFacts DEF TypeOK
        <5>5. k \in Remote(t, IF write THEN Writes(t) ELSE Reads(t))
          BY <2>6, <4>1, <4>4 DEF Remote, Accesses
        <5>6. m \in Asks(t, "RESERVE", Reads(t), Writes(t))
          BY <5>5 DEF Asks, Requests
        <5>7. IsRequest(m, "RESERVE", t, k, write)
          BY DEF IsRequest
        <5> HIDE DEF m
        <5>8. Route(m) \in Channels
          BY <1>0, <5>2, <5>6, AsksShape DEF IsAsk
        <5>9. \E i \in 1..Len(chan'[Route(m)]) : chan'[Route(m)][i] = m
          BY <5>4, <5>6, <5>8 DEF Extended
        <5>10. \E c \in Channels : \E i \in 1..Len(chan'[c]) : chan'[c][i] = m
          BY <5>8, <5>9
        <5>11. \E c \in Channels : \E i \in 1..Len(chan'[c]) :
                 IsRequest(chan'[c][i], "RESERVE", t, k, write)
          BY <5>7, <5>10
        <5>12. Requested("RESERVE", t, k, write)'
          BY <5>11 DEF Requested, IsRequest
        <5> QED
          BY <4>1, <5>12
      <4> QED
        BY <4>3, <4>4
    <3> QED
      BY <3>1, <3>2
  \* A check that was under way stays behind its reservation, a new one gets
  \* into line behind it.
  <2>7. ASSUME NEW c \in Channels, NEW i \in 1..Len(chan'[c]), chan'[c][i].type = "CHECK"
        PROVE  \/ word'[chan'[c][i].key].epoch = Epoch(chan'[c][i].txn)
               \/ /\ ~chan'[c][i].answer
                  /\ \E j \in 1..Len(chan'[c]) :
                       j < i /\ IsRequest(chan'[c][j], "RESERVE", chan'[c][i].txn,
                                          chan'[c][i].key, chan'[c][i].write)
    <3>0. \A j \in 1..Len(chan[c]) : j \in 1..Len(chan'[c]) /\ chan'[c][j] = chan[c][j]
      <4>1. CASE chan' = chan
        BY <4>1
      <4>2. CASE chan' # chan
        BY <1>6, <4>2, WorkShape DEF Extended
      <4> QED
        BY <4>1, <4>2
    <3>1. CASE i \in 1..Len(chan[c]) /\ chan'[c][i] = chan[c][i]
      <4> DEFINE m == chan[c][i]
      <4>1. m.txn \in Current /\ m.key \in Keys
        BY <1>0, <2>7, <3>1, PhaseOfMessages, PositionTypes
      <4>2. \/ word[m.key].epoch = Epoch(m.txn)
            \/ /\ ~m.answer
               /\ \E j \in 1..Len(chan[c]) :
                    j < i /\ IsRequest(chan[c][j], "RESERVE", m.txn, m.key, m.write)
        BY <2>7, <3>1 DEF EpochsOK
      <4>3. word[m.key].epoch = Epoch(m.txn) => word'[m.key].epoch = Epoch(m.txn)
        BY <2>3, <4>1
      <4>4. chan'[c][i] = m
        BY <3>1
      <4> HIDE DEF m
      <4> QED
        BY <3>0, <4>2, <4>3, <4>4
    <3>2. CASE ~(i \in 1..Len(chan[c]) /\ chan'[c][i] = chan[c][i])
      <4> DEFINE m == chan'[c][i]
      <4>1. PICK type \in Types, r \in SUBSET Reads(t), w \in SUBSET Writes(t) :
              /\ Extended(Asks(t, type, r, w))
              /\ <<phase, type>> \in {<<"EXECUTE", "SEARCH">>, <<"RESERVE", "RESERVE">>,
                                      <<"ANALYZE", "CHECK">>, <<"FINALIZE", "WRITE">>,
                                      <<"CLEANUP", "CLEANUP">>}
        BY <1>6, <3>2, WorkShape
      <4>2. /\ i > Len(chan[c])
            /\ m.type = type /\ ~m.answer /\ m.txn = t
            /\ m.write \in BOOLEAN
            /\ m.key \in Remote(t, IF m.write THEN w ELSE r)
            /\ Route(m) = c
        BY <1>0, <3>2, <4>1, SentFrom
      <4>3. phase = "ANALYZE"
        BY <2>7, <4>1, <4>2
      <4>4. Analyze(t)
        BY <1>6, <4>3 DEF Work, Rollback, Execute, Reserve, Commit, Delay, Cleanup
      <4>5. HasReserved(t)
        <5>1. ~Unreserved(t)
          BY <3>0, <3>2, <4>2, <4>4 DEF Analyze
        <5>2. Live(t)
          BY <4>3, <4>4, NotAskedYet DEF Analyze
        <5> QED
          BY <2>1, <4>3, <5>1, <5>2 DEF HasReserved, Reserving
      <4>6. m.key \in Accesses(t, m.write) /\ m.key \in Keys
        BY <1>0, <4>2, AccessTypes DEF Remote, Accesses
      <4>7. word[m.key].epoch = Epoch(t) \/ Requested("RESERVE", t, m.key, m.write)
        BY <4>2, <4>5, <4>6 DEF EpochsOK
      <4>8. CASE word[m.key].epoch = Epoch(t)
        BY <2>1, <2>3, <4>2, <4>6, <4>8
      <4>9. CASE Requested("RESERVE", t, m.key, m.write)
        <5> HIDE DEF m
        <5>1. PICK d \in Channels : \E j \in 1..Len(chan[d]) :
                IsRequest(chan[d][j], "RESERVE", t, m.key, m.write)
          BY <4>9 DEF Requested
        <5>2. PICK j \in 1..Len(chan[d]) : IsRequest(chan[d][j], "RESERVE", t, m.key, m.write)
          BY <5>1
        <5>3. d = <<Home[t], Owner[m.key], WorkerOf[t]>>
          BY <1>0, <5>2 DEF MessagesOK, MessageOK, IsRequest, Route
        <5>4. d = c
          BY <4>2, <5>3 DEF Route
        <5>5. j < i /\ j \in 1..Len(chan'[c]) /\ chan'[c][j] = chan[c][j]
          <6>1. Len(chan[c]) \in Nat
            BY <1>0 DEF TypeOK
          <6> QED
            BY <3>0, <4>2, <5>2, <5>4, <6>1
        <5> QED
          BY <4>2, <5>2, <5>4, <5>5 DEF m
      <4> QED
        BY <4>7, <4>8, <4>9
    <3> QED
      BY <3>1, <3>2
  <2>8. \A u \in Txns : \A write \in BOOLEAN : Epoch(u)' = Epoch(u)
    BY DEF Epoch
  <2>9. /\ \A k \in Keys : word'[k].epoch <= EpochOf[block']
        /\ \A u \in Txns : HasReserved(u)' =>
             \A write \in BOOLEAN : \A k \in Accesses(u, write)' :
               word'[k].epoch = Epoch(u) \/ Requested("RESERVE", u, k, write)'
    BY <1>1, <2>4, <2>6
  <2> QED
    BY <2>7, <2>9 DEF EpochsOK, Epoch, IsRequest
<1>7. ASSUME NEW c \in Channels, Process(c), phase' \in {"RESERVE", "ANALYZE", "FINALIZE"}
      PROVE  EpochsOK'
  <2> DEFINE m == chan[c][1]
  <2>1. /\ UNCHANGED <<block, phase, prog, done, outcome, late>>
        /\ Head(chan[c]) = m /\ m.txn \in Txns /\ m.key \in Keys /\ m.write \in BOOLEAN
        /\ 1 \in 1..Len(chan[c])
    BY <1>7, HandledShape
  <2>2. PICK answers \in SUBSET Message :
          /\ Taken(c, answers)
          /\ \A a \in answers :
               /\ a.txn = m.txn /\ Id(a) = Id(m)
               /\ a.answer /\ ~m.answer /\ a.type # "RESERVE"
    BY <1>7, HandledShape
  <2>3. ReserveRequest(c) \/ word' = word
    <3>1. m.type # "CLEANUP"
      BY <1>7, <2>1, PhaseOfMessages
    <3> QED
      BY <1>7, <2>1, <3>1
      DEF Process, SearchRequest, SearchResponse, CheckRequest, CheckResponse,
          WriteRequest, CleanupRequest, CountResponse, Take
  <2>4. \A k \in Keys : word'[k] = word[k] \/ word'[k].epoch = EpochOf[block]
    BY <1>0, <2>3, EpochsRise
  <2>5. \A u \in Current : \A k \in Keys :
          /\ word[k].epoch = Epoch(u) => word'[k].epoch = Epoch(u)
          /\ word'[k].epoch = EpochOf[block] => word'[k].epoch = Epoch(u)
    BY <1>4, <2>1, <2>4
  <2>6. /\ m.type = "RESERVE" => ReserveRequest(c)
        /\ ReserveRequest(c) => word'[m.key].epoch = EpochOf[block]
    BY <1>0, <1>7, <2>1, EpochsRise
    DEF Process, SearchRequest, SearchResponse, CheckRequest, CheckResponse,
        WriteRequest, CleanupRequest, CountResponse, Take
  <2>7. ASSUME NEW u \in Txns, HasReserved(u), NEW write \in BOOLEAN, NEW k \in Accesses(u, write)
        PROVE  word'[k].epoch = Epoch(u) \/ Requested("RESERVE", u, k, write)'
    <3>0. u \in Current /\ k \in Keys
      BY <1>0, <2>7, AccessTypes DEF HasReserved, Accesses
    <3>1. word[k].epoch = Epoch(u) \/ Requested("RESERVE", u, k, write)
      BY <2>7 DEF EpochsOK
    <3>2. CASE IsRequest(m, "RESERVE", u, k, write)
      <4>1. m.type = "RESERVE" /\ m.key = k
        BY <3>2 DEF IsRequest
      <4> QED
        BY <2>5, <2>6, <3>0, <4>1
    <3>3. CASE ~IsRequest(m, "RESERVE", u, k, write)
      <4>1. Requested("RESERVE", u, k, write) => Requested("RESERVE", u, k, write)'
        BY <2>2, <3>3, RequestedStays
      <4> QED
        BY <2>5, <3>0, <3>1, <4>1
    <3> QED
      BY <3>2, <3>3
  <2>8. ASSUME NEW d \in Channels, NEW i \in 1..Len(chan'[d]), chan'[d][i].type = "CHECK"
        PROVE  \/ word'[chan'[d][i].key].epoch = Epoch(chan'[d][i].txn)
               \/ /\ ~chan'[d][i].answer
                  /\ \E j \in 1..Len(chan'[d]) :
                       j < i /\ IsRequest(chan'[d][j], "RESERVE", chan'[d][i].txn,
                                          chan'[d][i].key, chan'[d][i].write)
    <3>1. CASE i + Off(c, d) \in 1..Len(chan[d]) /\ chan'[d][i] = chan[d][i + Off(c, d)]
      <4> DEFINE n == chan[d][i + Off(c, d)]
      <4>0. PICK h \in 1..Len(chan[d]) : h = i + Off(c, d)
        BY <3>1
      <4>1. n.txn \in Current /\ n.key \in Keys
        <5>1. chan[d][h].type = "CHECK"
          BY <2>8, <3>1, <4>0
        <5>2. chan[d][h].txn \in Current /\ chan[d][h].key \in Keys
          BY <1>0, <5>1, PhaseOfMessages, PositionTypes
        <5> QED
          BY <4>0, <5>2
      <4>2. \/ word[n.key].epoch = Epoch(n.txn)
            \/ /\ ~n.answer
               /\ \E j \in 1..Len(chan[d]) :
                    j < i + Off(c, d) /\ IsRequest(chan[d][j], "RESERVE", n.txn, n.key, n.write)
        BY <2>8, <3>1 DEF EpochsOK
      <4>3. chan'[d][i] = n
        BY <3>1
      <4> HIDE DEF n
      <4>4. CASE word[n.key].epoch = Epoch(n.txn)
        BY <2>5, <4>1, <4>3, <4>4
      <4>5. CASE /\ ~n.answer
                 /\ \E j \in 1..Len(chan[d]) :
                      j < i + Off(c, d) /\ IsRequest(chan[d][j], "RESERVE", n.txn, n.key, n.write)
        <5>1. PICK j \in 1..Len(chan[d]) :
                j < i + Off(c, d) /\ IsRequest(chan[d][j], "RESERVE", n.txn, n.key, n.write)
          BY <4>5
        <5>2. CASE d = c /\ j = 1
          <6>1. m.type = "RESERVE" /\ m.key = n.key
            BY <5>1, <5>2 DEF IsRequest
          <6> QED
            BY <2>5, <2>6, <4>1, <4>3, <6>1
        <5>3. CASE ~(d = c /\ j = 1)
          <6>1. j - Off(c, d) \in 1..Len(chan'[d]) /\ chan'[d][j - Off(c, d)] = chan[d][j]
            BY <2>2, <5>3 DEF Taken
          <6>2. j - Off(c, d) < i
            <7>1. Off(c, d) \in {0, 1} /\ Len(chan[d]) \in Nat /\ Len(chan'[d]) \in Nat
              BY <1>0 DEF Off, TypeOK
            <7> QED
              BY <5>1, <7>1
          <6> QED
            BY <4>3, <4>5, <5>1, <6>1, <6>2
        <5> QED
          BY <5>2, <5>3
      <4> QED
        BY <4>2, <4>4, <4>5
    <3>2. CASE d = Back(c) /\ i = Len(chan[d]) + 1 /\ chan'[d][i] \in answers
      <4>1. /\ chan'[d][i].txn = m.txn /\ chan'[d][i].key = m.key /\ m.type = "CHECK" /\ ~m.answer
        <5>1. /\ chan'[d][i].txn = m.txn /\ Id(chan'[d][i]) = Id(m) /\ ~m.answer
          BY <2>2, <3>2
        <5> QED
          BY <2>8, <5>1 DEF Id
      <4>2. m.txn \in Current
        BY <2>1, <4>1, PhaseOfMessages
      <4>3. \A j \in 1..Len(chan[c]) : ~(j < 1)
        OBVIOUS
      <4>4. word[m.key].epoch = Epoch(m.txn)
        BY <2>1, <4>1, <4>3 DEF EpochsOK
      <4> HIDE DEF m
      <4> QED
        BY <2>1, <2>5, <4>1, <4>2, <4>4
    <3> QED
      BY <2>2, <3>1, <3>2 DEF Taken
  <2>9. \A u \in Txns : (HasReserved(u)' <=> HasReserved(u)) /\ Epoch(u)' = Epoch(u)
    BY <2>1 DEF HasReserved, Current, Reserving, Live, Unreserved, IsReadOnly, Writes, Epoch
  <2>10. \A u, write : Accesses(u, write)' = Accesses(u, write)
    BY <2>1, ProgramsFixed
  <2>11. \A u \in Txns : HasReserved(u)' =>
           \A write \in BOOLEAN : \A k \in Accesses(u, write)' :
             word'[k].epoch = Epoch(u) \/ Requested("RESERVE", u, k, write)'
    BY <2>7, <2>9, <2>10
  <2> QED
    BY <1>1, <2>8, <2>11 DEF EpochsOK, Epoch, IsRequest
<1>8. CASE EndPhase /\ phase' \in {"RESERVE", "ANALYZE", "FINALIZE"}
  <2>1. /\ UNCHANGED <<block, prog, chan, word, outcome>> /\ done' = [t \in Txns |-> FALSE]
        /\ phase' = NextPhase /\ phase \in Phases \ {"CLEANUP"} /\ PhaseOver
    BY <1>8 DEF EndPhase
  <2>2. \/ phase = "EXECUTE" /\ phase' = "RESERVE"
        \/ phase \in {"RESERVE", "ANALYZE"} /\ phase' \in {"ANALYZE", "FINALIZE"}
    BY <1>8, <2>1 DEF NextPhase, Phases
  <2>3. ASSUME NEW t \in Txns, HasReserved(t)' PROVE HasReserved(t)
    <3>1. /\ t \in Current /\ Reserving(t)
          /\ phase \in {"RESERVE", "ANALYZE"}
      BY <2>1, <2>2, <2>3
      DEF HasReserved, Current, Reserving, Live, Unreserved, IsReadOnly, Writes
    <3>2. done[t]
      BY <2>1, <3>1 DEF PhaseOver, Working, Reserving, Live
    <3> QED
      BY <3>1, <3>2 DEF HasReserved
  <2> QED
    BY <2>1, <2>3 DEF EpochsOK, Requested, IsRequest, Accesses, Reads, Writes, Epoch
<1>9. CASE EndBlock
  <2>1. phase' \in {"EXECUTE", "DONE"}
    BY <1>9 DEF EndBlock
  <2> QED
    BY <1>3, <2>1
<1>10. CASE UNCHANGED vars
  BY <1>10
  DEF vars, EpochsOK, HasReserved, Current, Reserving, Live, Unreserved, IsReadOnly,
      Requested, IsRequest, Accesses, Reads, Writes, Epoch
<1> QED
  BY <1>3, <1>6, <1>7, <1>8, <1>9, <1>10 DEF Next
-----------------------------------------------------------------------------
(* The store, and what has been read of it.                                *)

\* A step changes nothing of the transactions of the blocks before.
LEMMA PastStays ==
  ASSUME Discipline, [Next]_vars, NEW t \in Txns, BlockOf[t] < block
  PROVE  /\ prog' = prog /\ flags'[t] = flags[t] /\ outcome'[t] = outcome[t]
         /\ seen'[t] = seen[t]
<1>0. TypeOK /\ MessagesOK /\ WaitsOK /\ block \in Nat /\ BlockOf[t] \in Nat
  BY ScheduleAssumption DEF Discipline, TypeOK
<1>1. t \notin Current
  BY <1>0 DEF Current
<1>2. ASSUME NEW u \in Txns, Work(u)
      PROVE  /\ prog' = prog /\ flags'[t] = flags[t] /\ outcome'[t] = outcome[t]
             /\ seen'[t] = seen[t]
  <2>1. u # t /\ prog' = prog
    BY <1>1, <1>2, WorkShape
  <2>2. CASE Execute(u)
    BY <1>0, <2>1, <2>2 DEF Execute, TypeOK
  <2>3. CASE Analyze(u)
    <3>1. /\ outcome' = outcome /\ seen' = seen
          /\ flags' = flags \/ flags' = [flags EXCEPT ![u] = @ \cup LocalFlags(u)]
      BY <2>3 DEF Analyze
    <3> QED
      BY <1>0, <2>1, <3>1 DEF TypeOK
  <2>4. CASE Rollback(u) \/ Reserve(u) \/ Commit(u) \/ Delay(u) \/ Cleanup(u)
    BY <1>0, <2>1, <2>4 DEF Rollback, Reserve, Commit, Delay, Cleanup, TypeOK
  <2> QED
    BY <1>2, <2>2, <2>3, <2>4 DEF Work
<1>3. ASSUME NEW c \in Channels, Process(c)
      PROVE  /\ prog' = prog /\ flags'[t] = flags[t] /\ outcome'[t] = outcome[t]
             /\ seen'[t] = seen[t]
  <2> DEFINE m == chan[c][1]
  <2>1. /\ prog' = prog /\ outcome' = outcome /\ Head(chan[c]) = m /\ m.txn \in Txns
        /\ MessageOK(c, m)
    BY <1>3, HandledShape
  <2>2. m.type \in {"SEARCH", "CHECK"} => m.txn # t
    <3>1. ASSUME m.type \in {"SEARCH", "CHECK"} PROVE m.txn \in Current
      <4>1. Id(m) \in pend[m.txn]
        BY <2>1, <3>1 DEF MessageOK, Counted
      <4> QED
        BY <1>0, <2>1, <4>1 DEF WaitsOK, WaitOK
    <3> QED
      BY <1>1, <3>1
  <2>3. CASE SearchResponse(c)
    <3>1. /\ seen' = [seen EXCEPT ![m.txn][m.key] = m.val] /\ flags' = flags /\ m.type = "SEARCH"
      BY <2>1, <2>3 DEF SearchResponse, Take
    <3> QED
      BY <1>0, <2>1, <2>2, <3>1 DEF TypeOK
  <2>4. CASE CheckResponse(c)
    <3>1. /\ flags' = [flags EXCEPT ![m.txn] = @ \cup m.found] /\ seen' = seen /\ m.type = "CHECK"
      BY <2>1, <2>4 DEF CheckResponse, Take
    <3> QED
      BY <1>0, <2>1, <2>2, <3>1 DEF TypeOK
  <2>5. CASE ~SearchResponse(c) /\ ~CheckResponse(c)
    BY <1>3, <2>1, <2>5
    DEF Process, SearchRequest, ReserveRequest, CheckRequest, WriteRequest,
        CleanupRequest, CountResponse
  <2> QED
    BY <2>3, <2>4, <2>5
<1> QED
  BY <1>2, <1>3 DEF Next, EndPhase, EndBlock, vars

\* So what the commits before a block have left stays what it is.
LEMMA LeftByStays ==
  ASSUME prog' = prog, NEW ts, \A t \in ts : flags'[t] = flags[t], NEW v, NEW k
  PROVE  LeftBy(v, k, ts)' <=> LeftBy(v, k, ts)
<1>1. \A t \in ts : Rank(t)' = Rank(t)
  BY DEF Rank
<1>2. \A t : (Unreserved(t)' <=> Unreserved(t)) /\ Writes(t)' = Writes(t)
  BY ProgramsFixed
<1>3. \A t, u \in ts : Precedes(t, u)' <=> Precedes(t, u)
  BY <1>1, <1>2 DEF Precedes, PrecedesInBlock
<1> QED
  BY <1>2, <1>3 DEF LeftBy

\* What the blocks before this one leave does not depend on this one.
LEMMA PastLeft ==
  ASSUME Discipline, [Next]_vars, NEW b \in Nat, b <= block
  PROVE  /\ Before(b)' = Before(b)
         /\ \A v, k : LeftBy(v, k, Before(b))' <=> LeftBy(v, k, Before(b))
<1>0. block \in Nat /\ \A t \in Txns : BlockOf[t] \in Nat
  BY ScheduleAssumption DEF Discipline, TypeOK
<1>1. \A t \in Txns : BlockOf[t] < b =>
        prog' = prog /\ flags'[t] = flags[t] /\ outcome'[t] = outcome[t]
  BY <1>0, PastStays
<1>2. Before(b)' = Before(b)
  BY <1>1 DEF Before, Committed
<1>3. prog' = prog
  BY LiveShrinks
<1>4. ASSUME NEW v, NEW k
      PROVE  LeftBy(v, k, Before(b))' <=> LeftBy(v, k, Before(b))
  <2>1. PICK ts : ts = Before(b)
    OBVIOUS
  <2>2. \A t \in ts : flags'[t] = flags[t]
    BY <1>1, <2>1 DEF Before, Committed
  <2>3. LeftBy(v, k, ts)' <=> LeftBy(v, k, ts)
    BY <1>3, <2>2, LeftByStays
  <2>4. Before(b)' = ts
    BY <1>2, <2>1
  <2>5. LeftBy(v, k, Before(b))' <=> LeftBy(v, k, ts)'
    BY <2>4 DEF LeftBy
  <2> QED
    BY <2>1, <2>3, <2>5
<1> QED
  BY <1>2, <1>4

\* When no write is on its way the store is what all commits have left.
LEMMA StoreSettled ==
  ASSUME Discipline, StoreOK, ~late, NEW k \in Keys,
         \A u : ~Requested("WRITE", u, k, TRUE)
  PROVE  /\ LeftBy(db[k], k, Committed)
         /\ Committed = Before(block + 1)
<1>0. block \in Nat /\ \A t \in Txns : BlockOf[t] \in Nat
  BY ScheduleAssumption DEF Discipline, TypeOK
<1>1. \A u \in Committed : u \in Txns /\ (u \in Before(block) \/ u \in Current)
  BY <1>0 DEF Discipline, OutcomesOK, Committed, Before, Current
<1>2. \A u \in Committed \cap Current : k \in Writes(u) => db[k] = u
  BY DEF StoreOK
<1>3. Committed = Before(block + 1)
  BY <1>0, <1>1 DEF Before, Current, Committed
<1>4. CASE \E u \in Committed \cap Current : k \in Writes(u)
  <2>1. db[k] \in Committed \cap Current /\ k \in Writes(db[k])
    BY <1>2, <1>4
  <2>2. \A u \in Committed : k \in Writes(u) => u = db[k] \/ Precedes(u, db[k])
    BY <1>1, <1>2, <2>1 DEF Before, Current, Precedes
  <2> QED
    BY <1>3, <2>1, <2>2 DEF LeftBy
<1>5. CASE ~\E u \in Committed \cap Current : k \in Writes(u)
  <2>1. LeftBy(db[k], k, Before(block))
    BY <1>5 DEF StoreOK
  <2>2. {u \in Committed : k \in Writes(u)} = {u \in Before(block) : k \in Writes(u)}
    BY <1>1, <1>5 DEF Before
  <2> QED
    BY <1>3, <2>1, <2>2 DEF LeftBy
<1> QED
  BY <1>4, <1>5

\* A commit is for good, and only Commit commits.
LEMMA CommitsStay ==
  ASSUME Discipline, [Next]_vars
  PROVE  /\ Committed \subseteq Committed'
         /\ (\A t \in Txns : ~Commit(t)) => Committed' = Committed
         /\ \A t \in Txns : Commit(t) => Committed' = Committed \cup {t}
<1>0. TypeOK
  BY DEF Discipline
<1>1. ASSUME NEW t \in Txns, Commit(t) PROVE Committed' = Committed \cup {t}
  BY <1>0, <1>1 DEF Commit, Committed, TypeOK
<1>2. ASSUME \A t \in Txns : ~Commit(t) PROVE Committed' = Committed
  <2>1. ASSUME NEW t \in Txns, Work(t) PROVE Committed' = Committed
    <3>1. Turn(t)
      BY <2>1 DEF Work, Rollback, Execute, Reserve, Analyze, Commit, Delay, Cleanup
    <3>2. t \in Current /\ ~done[t] /\ (phase = "EXECUTE" => outcome[t] = "none")
      BY <3>1, NotAskedYet
    <3>3. CASE Rollback(t) \/ Delay(t)
      <4>1. outcome[t] # "committed"
        BY <3>2, <3>3 DEF Rollback, Delay, Discipline, OutcomesOK
      <4> QED
        BY <1>0, <3>3, <4>1 DEF Rollback, Delay, Committed, TypeOK
    <3>4. CASE ~(Rollback(t) \/ Delay(t))
      BY <1>2, <2>1, <3>4 DEF Work, Execute, Reserve, Analyze, Cleanup, Committed
    <3> QED
      BY <3>3, <3>4
  <2>2. ASSUME NEW c \in Channels, Process(c) PROVE Committed' = Committed
    BY <2>2, HandledShape DEF Committed
  <2> QED
    BY <2>1, <2>2 DEF Next, EndPhase, EndBlock, vars, Committed
<1> QED
  BY <1>1, <1>2

\* The store follows the commits.
LEMMA StoreStep ==
  ASSUME Discipline, FirstWriterWins, FirstWriterWins', StoreOK, [Next]_vars
  PROVE  StoreOK'
<1>0. /\ TypeOK /\ TypeOK' /\ MessagesOK /\ block \in Nat /\ prog' = prog
      /\ (late => late')
  BY TypeStep, LiveShrinks DEF Discipline, TypeOK
<1>1. CASE late'
  BY <1>1 DEF StoreOK
<1>2. ~late' => ~late
  BY <1>0
\* What a step within the block must keep.
<1>3. ASSUME ~late', block' = block,
             \A k \in Keys :
               /\ \/ db'[k] = db[k]
                  \/ db'[k] \in Committed' \cap Current /\ k \in Writes(db'[k])
               /\ \A u \in Committed' \cap Current : k \in Writes(u) =>
                    db'[k] = u \/ Requested("WRITE", u, k, TRUE)'
      PROVE  StoreOK'
  <2>1. Before(block)' = Before(block)
    BY <1>0, <1>3, PastLeft
  <2>2. \A v, k : LeftBy(v, k, Before(block))' <=> LeftBy(v, k, Before(block))
    <3>1. PICK b \in Nat : b = block
      BY <1>0
    <3>2. \A v, k : LeftBy(v, k, Before(b))' <=> LeftBy(v, k, Before(b))
      BY <1>0, <3>1, PastLeft
    <3>3. Before(b)' = Before(block)'
      BY <1>3, <3>1 DEF Before, Committed
    <3>4. \A v, k : LeftBy(v, k, Before(block))' <=> LeftBy(v, k, Before(b))'
      BY <3>3 DEF LeftBy
    <3> QED
      BY <3>1, <3>2, <3>4
  <2>3. Current' = Current /\ \A u : Writes(u)' = Writes(u)
    BY <1>0, <1>3 DEF Current, Writes
  <2>4. Committed \subseteq Committed'
    BY CommitsStay
  <2>5. ASSUME NEW k \in Keys
        PROVE  \/ LeftBy(db[k], k, Before(block))'
               \/ db'[k] \in Committed' \cap Current' /\ k \in Writes(db[k])'
    <3>1. Writes(db[k])' = Writes(db'[k])
      BY <1>0 DEF Writes
    <3>2. CASE db'[k] = db[k]
      <4>1. \/ LeftBy(db[k], k, Before(block))
            \/ db[k] \in Committed \cap Current /\ k \in Writes(db[k])
        BY <1>2, <1>3 DEF StoreOK
      <4>2. CASE LeftBy(db[k], k, Before(block))
        <5>1. PICK v : v = db[k]
          OBVIOUS
        <5>2. LeftBy(v, k, Before(block))'
          BY <2>2, <4>2, <5>1
        <5>3. db'[k] = v
          BY <3>2, <5>1
        <5>4. LeftBy(db[k], k, Before(block))'
          BY <5>2, <5>3 DEF LeftBy
        <5> QED
          BY <5>4
      <4> QED
        BY <2>3, <2>4, <3>1, <3>2, <4>1, <4>2
    <3>3. CASE db'[k] \in Committed' \cap Current /\ k \in Writes(db'[k])
      BY <2>3, <3>1, <3>3
    <3> QED
      BY <1>3, <3>2, <3>3
  <2>6. ASSUME NEW k \in Keys, NEW u \in Committed' \cap Current', k \in Writes(u)'
        PROVE  db'[k] = u \/ Requested("WRITE", u, k, TRUE)'
    BY <1>3, <2>3, <2>6
  <2> QED
    BY <2>5, <2>6 DEF StoreOK
<1>4. ASSUME ~late', NEW t \in Txns, Work(t) PROVE StoreOK'
  <2>1. /\ UNCHANGED <<block, phase, prog, late>> /\ t \in Current
    BY <1>4, WorkShape
  <2>2. ASSUME NEW u, NEW k, Requested("WRITE", u, k, TRUE)
        PROVE  Requested("WRITE", u, k, TRUE)'
    <3>1. CASE chan' = chan
      BY <2>2, <3>1 DEF Requested, IsRequest
    <3>2. CASE chan' # chan
      <4>1. PICK type \in Types, r \in SUBSET Reads(t), w \in SUBSET Writes(t) :
              Extended(Asks(t, type, r, w))
        BY <1>4, <3>2, WorkShape
      <4> QED
        BY <2>2, <4>1, RequestedExtends
    <3> QED
      BY <3>1, <3>2
  <2>3. CASE Commit(t)
    <3>1. /\ db' = [k \in Keys |-> IF k \in Local(t, Writes(t)) THEN t ELSE db[k]]
          /\ Send(Asks(t, "WRITE", {}, Writes(t))) /\ pend[t] = {}
      BY <2>3, NoRequests DEF Commit, Ask, Asks
    <3>2. Committed' = Committed \cup {t}
      BY <2>3, CommitsStay
    <3>3. ASSUME NEW k \in Remote(t, Writes(t)) PROVE Requested("WRITE", t, k, TRUE)'
      <4>1. "WRITE" \in Types /\ {} \in SUBSET Reads(t) /\ Writes(t) \in SUBSET Writes(t)
        BY DEF Types
      <4>2. /\ Asks(t, "WRITE", {}, Writes(t)) \in SUBSET Message
            /\ IsFiniteSet(Asks(t, "WRITE", {}, Writes(t)))
        BY <1>0, <4>1, MessageTypes DEF Asks
      <4>3. Extended(Asks(t, "WRITE", {}, Writes(t)))
        BY <1>0, <3>1, <4>2, SendFacts DEF TypeOK
      <4>4. \A id \in pend[t] : id[1] # "WRITE"
        BY <3>1
      <4>5. TRUE \in BOOLEAN /\ k \in Remote(t, IF TRUE THEN Writes(t) ELSE {})
        BY <3>3
      <4> QED
        BY <1>0, <4>1, <4>3, <4>4, <4>5, SentRequested
    <3>4. ASSUME NEW k \in Keys
          PROVE  \/ db'[k] = db[k]
                 \/ db'[k] \in Committed' \cap Current /\ k \in Writes(db'[k])
      BY <2>1, <3>1, <3>2, <3>4 DEF Local
    <3>5. ASSUME NEW k \in Keys, NEW u \in Committed' \cap Current, k \in Writes(u)
          PROVE  db'[k] = u \/ Requested("WRITE", u, k, TRUE)'
      <4>1. CASE u = t
        <5>1. k \in Local(t, Writes(t)) \/ k \in Remote(t, Writes(t))
          BY <3>5, <4>1 DEF Local, Remote
        <5> QED
          BY <3>1, <3>3, <4>1, <5>1
      <4>2. CASE u # t
        <5>1. u \in Committed
          BY <3>2, <3>5, <4>2
        <5>2. db[k] = u \/ Requested("WRITE", u, k, TRUE)
          BY <1>2, <1>4, <3>5, <5>1 DEF StoreOK
        <5>3. k \notin Writes(t)
          <6>1. /\ t \in Committed' /\ u \in Committed' /\ BlockOf[t] = BlockOf[u]
            BY <2>1, <3>2, <3>5 DEF Current
          <6>2. Writes(t)' \cap Writes(u)' = {}
            BY <1>4, <4>2, <6>1 DEF FirstWriterWins
          <6> QED
            BY <1>0, <3>5, <6>2 DEF Writes
        <5>4. db'[k] = db[k]
          BY <3>1, <5>3 DEF Local
        <5> QED
          BY <2>2, <5>2, <5>4
      <4> QED
        BY <4>1, <4>2
    <3> QED
      BY <1>3, <1>4, <2>1, <3>4, <3>5
  <2>4. CASE ~Commit(t)
    <3>1. db' = db
      BY <1>4, <2>4 DEF Work, Rollback, Execute, Reserve, Analyze, Delay, Cleanup
    <3>2. ASSUME NEW u \in Txns PROVE ~Commit(u) \/ Committed' = Committed
      <4>1. CASE u = t
        BY <2>4, <4>1
      <4>2. CASE u # t
        <5>1. Commit(u) => FALSE
          <6>1. ASSUME Commit(u) PROVE FALSE
            <7>1. Work(u)
              BY <6>1 DEF Work
            <7>2. done'[t] = done[t] /\ done'[t] = TRUE
              BY <1>0, <1>4, <4>2, <7>1, WorkShape DEF TypeOK
            <7>3. ~done[t]
              BY <1>4, WorkShape
            <7> QED
              BY <7>2, <7>3
          <6> QED
            BY <6>1
        <5> QED
          BY <5>1
      <4> QED
        BY <4>1, <4>2
    <3>3. Committed' = Committed
      BY <3>2, CommitsStay
    <3>4. \A k \in Keys : \A u \in Committed \cap Current :
            k \in Writes(u) => db[k] = u \/ Requested("WRITE", u, k, TRUE)
      BY <1>2, <1>4 DEF StoreOK
    <3> QED
      BY <1>3, <1>4, <2>1, <2>2, <3>1, <3>3, <3>4
  <2> QED
    BY <2>3, <2>4
<1>5. ASSUME ~late', NEW c \in Channels, Process(c) PROVE StoreOK'
  <2> DEFINE m == chan[c][1]
  <2>1. /\ UNCHANGED <<block, phase, prog, done, outcome, late>>
        /\ Head(chan[c]) = m /\ m.txn \in Txns /\ m.key \in Keys /\ m.write \in BOOLEAN
        /\ 1 \in 1..Len(chan[c]) /\ MessageOK(c, m)
    BY <1>5, HandledShape
  <2>2. PICK answers : Taken(c, answers)
    BY <1>5, HandledShape
  <2>3. Committed' = Committed
    BY <2>1 DEF Committed
  <2>4. \A k \in Keys : \A u \in Committed \cap Current :
          k \in Writes(u) => db[k] = u \/ Requested("WRITE", u, k, TRUE)
    BY <1>2, <1>5 DEF StoreOK
  <2>5. ASSUME NEW u, NEW k, Requested("WRITE", u, k, TRUE),
               ~(WriteRequest(c) /\ m.key = k)
        PROVE  Requested("WRITE", u, k, TRUE)'
    <3>1. ~IsRequest(m, "WRITE", u, k, TRUE)
      <4>1. m.type = "WRITE" /\ ~m.answer => WriteRequest(c)
        BY <1>5, <2>1
        DEF Process, SearchRequest, SearchResponse, ReserveRequest, CheckRequest,
            CheckResponse, CleanupRequest, CountResponse, Take
      <4> QED
        BY <2>5, <4>1 DEF IsRequest
    <3> QED
      BY <2>2, <2>5, <3>1, RequestedStays
  <2>6. CASE WriteRequest(c)
    <3>1. /\ db' = [db EXCEPT ![m.key] = m.txn] /\ m.type = "WRITE"
      BY <2>1, <2>6 DEF WriteRequest, Take
    <3>2. m.txn \in Current \cap Committed /\ m.write = TRUE
      BY <2>1, <3>1, PhaseOfMessages
    <3>3. m.key \in Writes(m.txn)
      BY <2>1, <3>2 DEF MessageOK, Accesses
    <3> HIDE DEF m
    <3>4. ASSUME NEW k \in Keys
          PROVE  \/ db'[k] = db[k]
                 \/ db'[k] \in Committed' \cap Current /\ k \in Writes(db'[k])
      BY <1>0, <2>1, <2>3, <3>1, <3>2, <3>3 DEF TypeOK
    <3>5. ASSUME NEW k \in Keys, NEW u \in Committed' \cap Current, k \in Writes(u)
          PROVE  db'[k] = u \/ Requested("WRITE", u, k, TRUE)'
      <4>1. CASE k = m.key
        <5>1. u = m.txn
          BY <1>2, <1>5, <2>3, <3>2, <3>3, <3>5, <4>1 DEF FirstWriterWins, Current
        <5> QED
          BY <1>0, <2>1, <3>1, <4>1, <5>1 DEF TypeOK
      <4>2. CASE k # m.key
        <5>1. db'[k] = db[k]
          BY <1>0, <3>1, <4>2 DEF TypeOK
        <5> QED
          BY <2>3, <2>4, <2>5, <3>5, <4>2, <5>1
      <4> QED
        BY <4>1, <4>2
    <3> QED
      BY <1>3, <1>5, <2>1, <3>4, <3>5
  <2>7. CASE ~WriteRequest(c)
    <3>1. db' = db
      BY <1>5, <2>7
      DEF Process, SearchRequest, SearchResponse, ReserveRequest, CheckRequest,
          CheckResponse, CleanupRequest, CountResponse
    <3> HIDE DEF m
    <3> QED
      BY <1>3, <1>5, <2>1, <2>3, <2>4, <2>5, <2>7, <3>1
  <2> QED
    BY <2>6, <2>7
<1>6. CASE ~late' /\ EndPhase
  <2>1. UNCHANGED <<block, prog, outcome, db, chan>>
    BY <1>6 DEF EndPhase
  <2>2. \A k \in Keys : \A u \in Committed \cap Current :
          k \in Writes(u) => db[k] = u \/ Requested("WRITE", u, k, TRUE)
    BY <1>2, <1>6 DEF StoreOK
  <2>3. \A u, k : Requested("WRITE", u, k, TRUE)' <=> Requested("WRITE", u, k, TRUE)
    BY <2>1 DEF Requested, IsRequest
  <2>4. Committed' = Committed
    BY <2>1 DEF Committed
  <2> QED
    BY <1>3, <1>6, <2>1, <2>2, <2>3, <2>4
<1>7. CASE ~late' /\ EndBlock
  <2>1. /\ UNCHANGED <<prog, outcome, db, chan, flags, late>> /\ phase = "CLEANUP"
        /\ PhaseOver /\ Waited
        /\ block' = block \/ block' = block + 1
    BY <1>7 DEF EndBlock
  <2>2. \A u \in Current : pend[u] = {}
    BY <2>1 DEF Waited
  <2>3. ASSUME NEW u, NEW k, Requested("WRITE", u, k, TRUE) PROVE FALSE
    <3>1. PICK c \in Channels : \E i \in 1..Len(chan[c]) :
            IsRequest(chan[c][i], "WRITE", u, k, TRUE)
      BY <2>3 DEF Requested
    <3>2. PICK i \in 1..Len(chan[c]) : IsRequest(chan[c][i], "WRITE", u, k, TRUE)
      BY <3>1
    <3>3. chan[c][i].type = "WRITE"
      BY <3>2 DEF IsRequest
    <3>4. chan[c][i].txn \in Current
      BY <3>3, PhaseOfMessages
    <3>5. Id(chan[c][i]) \in pend[chan[c][i].txn]
      BY <1>0, <3>3 DEF MessagesOK, MessageOK, Counted
    <3> QED
      BY <2>2, <3>4, <3>5
  <2>4. CASE block' = block
    <3>1. \A k \in Keys : \A u \in Committed \cap Current :
            k \in Writes(u) => db[k] = u \/ Requested("WRITE", u, k, TRUE)
      BY <1>2, <1>7 DEF StoreOK
    <3>2. Committed' = Committed
      BY <2>1 DEF Committed
    <3> QED
      BY <1>3, <1>7, <2>1, <2>3, <2>4, <3>1, <3>2
  <2>5. CASE block' = block + 1
    <3>1. ASSUME NEW k \in Keys PROVE LeftBy(db[k], k, Before(block))'
      <4>1. LeftBy(db[k], k, Before(block + 1))
        BY <1>2, <1>7, <2>3, StoreSettled
      <4>2. Before(block)' = Before(block + 1)
        BY <2>1, <2>5 DEF Before, Committed
      <4>3. \A ts : LeftBy(db[k], k, ts)' <=> LeftBy(db[k], k, ts)
        <5>1. PICK v : v = db[k]
          OBVIOUS
        <5>2. \A ts : LeftBy(v, k, ts)' <=> LeftBy(v, k, ts)
          BY <2>1, LeftByStays
        <5>3. \A ts : LeftBy(db[k], k, ts)' <=> LeftBy(v, k, ts)'
          BY <2>1, <5>1 DEF LeftBy
        <5> QED
          BY <5>1, <5>2, <5>3
      <4>4. PICK ts : ts = Before(block + 1)
        OBVIOUS
      <4>5. LeftBy(db[k], k, ts)'
        BY <4>1, <4>3, <4>4
      <4> QED
        BY <4>2, <4>4, <4>5 DEF LeftBy
    <3>2. Committed' \cap Current' = {}
      <4>1. \A u \in Txns : BlockOf[u] \in Nat
        BY ScheduleAssumption
      <4>2. \A u \in Committed : BlockOf[u] <= block
        BY DEF Discipline, OutcomesOK, Committed
      <4> QED
        BY <1>0, <2>1, <2>5, <4>1, <4>2 DEF Committed, Current
    <3> QED
      BY <3>1, <3>2 DEF StoreOK
  <2> QED
    BY <2>1, <2>4, <2>5
<1>8. CASE ~late' /\ UNCHANGED vars
  BY <1>8
  DEF vars, StoreOK, LeftBy, Before, Committed, Precedes, PrecedesInBlock, Unreserved,
      IsReadOnly, Rank, Writes, Current, Requested, IsRequest
<1> QED
  BY <1>1, <1>4, <1>5, <1>6, <1>7, <1>8 DEF Next

\* What has been read stays what the earlier blocks have left.
LEMMA ReadsStep ==
  ASSUME Discipline, SnapshotTaken, StoreOK, ReadsOK, [Next]_vars
  PROVE  ReadsOK'
<1>0. /\ TypeOK /\ block \in 1..NBlocks /\ block \in Nat /\ prog' = prog /\ (late => late')
      /\ \A t \in Txns : (Live(t)' => Live(t)) /\ BlockOf[t] \in Nat
  BY LiveShrinks, ScheduleAssumption DEF Discipline, TypeOK
<1>1. CASE late'
  BY <1>1 DEF ReadsOK
\* What is known of a transaction stays known.
<1>2. ASSUME ~late', NEW t \in Txns, NEW k \in Reads(t), seen'[t] = seen[t], BlockOf[t] <= block,
             LeftBy(seen[t][k], k, Before(BlockOf[t]))
      PROVE  LeftBy(seen[t][k], k, Before(BlockOf[t]))'
  <2>1. PICK b \in Nat : b = BlockOf[t]
    BY <1>0
  <2>2. PICK v : v = seen[t][k]
    OBVIOUS
  <2>3. LeftBy(v, k, Before(b))'
    BY <1>0, <1>2, <2>1, <2>2, PastLeft
  <2>4. seen'[t][k] = v /\ Before(BlockOf[t])' = Before(b)'
    BY <1>2, <2>1, <2>2 DEF Before
  <2> QED
    BY <2>3, <2>4 DEF LeftBy
<1>3. ASSUME ~late', block' = block, phase' = phase,
             \A t \in Current : phase # "EXECUTE" => seen'[t] = seen[t]
      PROVE  ReadsOK'
  <2> SUFFICES ASSUME NEW t \in Txns, Live(t)',
                      BlockOf[t] < block \/ (t \in Current /\ phase # "EXECUTE"),
                      NEW k \in Reads(t)
               PROVE  LeftBy(seen[t][k], k, Before(BlockOf[t]))'
    BY <1>0, <1>3 DEF ReadsOK, Reads, Current
  <2>1. LeftBy(seen[t][k], k, Before(BlockOf[t]))
    BY <1>0, <1>3 DEF ReadsOK
  <2>2. seen'[t] = seen[t] /\ BlockOf[t] <= block
    BY <1>0, <1>3, PastStays DEF Current
  <2> QED
    BY <1>2, <1>3, <2>1, <2>2
<1>4. ASSUME ~late', NEW t \in Txns, Work(t) PROVE ReadsOK'
  <2>1. UNCHANGED <<block, phase>>
    BY <1>4, WorkShape
  <2>2. phase # "EXECUTE" => seen' = seen
    BY <1>4 DEF Work, Rollback, Execute, Reserve, Analyze, Commit, Delay, Cleanup
  <2> QED
    BY <1>3, <1>4, <2>1, <2>2
<1>5. ASSUME ~late', NEW c \in Channels, Process(c) PROVE ReadsOK'
  <2> DEFINE m == chan[c][1]
  <2>1. /\ UNCHANGED <<block, phase>> /\ Head(chan[c]) = m /\ m.txn \in Txns
        /\ MessageOK(c, m)
    BY <1>5, HandledShape
  <2>2. phase # "EXECUTE" => seen' = seen
    <3>1. SearchResponse(c) => phase = "EXECUTE"
      <4>1. ASSUME SearchResponse(c) PROVE phase = "EXECUTE"
        <5>1. m.type = "SEARCH"
          BY <2>1, <4>1 DEF SearchResponse, Take
        <5>2. Id(m) \in pend[m.txn] /\ Id(m)[1] = "SEARCH"
          BY <2>1, <5>1 DEF MessageOK, Counted, Id
        <5> QED
          BY <2>1, <5>2 DEF Discipline, WaitsOK, WaitOK
      <4> QED
        BY <4>1
    <3> QED
      BY <1>5, <3>1
      DEF Process, SearchRequest, ReserveRequest, CheckRequest, CheckResponse,
          WriteRequest, CleanupRequest, CountResponse
  <2> QED
    BY <1>3, <1>5, <2>1, <2>2
<1>6. CASE ~late' /\ EndPhase
  <2>1. /\ UNCHANGED <<block, prog, seen, outcome, pend, db>>
        /\ phase' = NextPhase /\ phase \in Phases \ {"CLEANUP"} /\ PhaseOver /\ Waited
    BY <1>6 DEF EndPhase
  <2>2. phase = "EXECUTE" => \A t \in Current : done[t] /\ pend[t] = {}
    BY <2>1 DEF PhaseOver, Working, Waited
  <2> SUFFICES ASSUME NEW t \in Txns, Live(t)',
                      BlockOf[t] < block \/ t \in Current,
                      NEW k \in Reads(t)
               PROVE  LeftBy(seen[t][k], k, Before(BlockOf[t]))'
    BY <2>1 DEF ReadsOK, Reads, Current
  <2>3. Live(t) /\ k \in Keys
    BY <1>0, AccessTypes
  <2>4. LeftBy(seen[t][k], k, Before(BlockOf[t]))
    <3>1. CASE BlockOf[t] < block \/ phase # "EXECUTE"
      BY <1>0, <1>6, <2>3, <3>1 DEF ReadsOK
    <3>2. CASE t \in Current /\ phase = "EXECUTE"
      <4>1. seen[t][k] = db[k]
        BY <2>2, <2>3, <3>2 DEF SnapshotTaken
      <4>2. Committed \cap Current = {}
        BY <3>2 DEF Discipline, OutcomesOK, Committed, Current
      <4>3. LeftBy(db[k], k, Before(block))
        BY <1>0, <1>6, <2>3, <4>2 DEF StoreOK
      <4> QED
        BY <3>2, <4>1, <4>3 DEF Current
    <3> QED
      BY <3>1, <3>2
  <2>5. seen'[t] = seen[t] /\ BlockOf[t] <= block
    BY <1>0, <2>1 DEF Current
  <2> QED
    BY <1>2, <1>6, <2>4, <2>5
<1>7. CASE ~late' /\ EndBlock
  <2>1. /\ UNCHANGED <<prog, seen, outcome>> /\ phase = "CLEANUP"
        /\ \/ block' = block + 1 /\ phase' = "EXECUTE"
           \/ block' = block
    BY <1>7 DEF EndBlock
  <2> SUFFICES ASSUME NEW t \in Txns, Live(t)',
                      BlockOf[t] < block \/ t \in Current,
                      NEW k \in Reads(t)
               PROVE  LeftBy(seen[t][k], k, Before(BlockOf[t]))'
    <3>1. ASSUME NEW t \in Txns, BlockOf[t] < block' \/ (t \in Current' /\ phase' # "EXECUTE")
          PROVE  BlockOf[t] < block \/ t \in Current
      BY <1>0, <2>1, <3>1 DEF Current
    <3> QED
      BY <2>1, <3>1 DEF ReadsOK, Reads
  <2>2. LeftBy(seen[t][k], k, Before(BlockOf[t]))
    BY <1>0, <1>7, <2>1 DEF ReadsOK
  <2>3. seen'[t] = seen[t] /\ BlockOf[t] <= block
    BY <1>0, <2>1 DEF Current
  <2> QED
    BY <1>2, <1>7, <2>2, <2>3
<1>8. CASE ~late' /\ UNCHANGED vars
  BY <1>3, <1>8 DEF vars
<1> QED
  BY <1>1, <1>4, <1>5, <1>6, <1>7, <1>8 DEF Next
-----------------------------------------------------------------------------
(* The theorems.                                                           *)

\* The invariant of what is left behind holds at the start ...
LEMMA LeftoverInit == Init => Discipline /\ LeftoverInv
<1> SUFFICES ASSUME Init PROVE LeftoverInv
  BY DisciplineInit
<1>1. /\ \A c \in Channels : chan[c] = <<>> /\ Len(chan[c]) = 0
      /\ \A k \in Keys : word[k] = ZeroWord
      /\ phase = "EXECUTE" /\ \A t \in Current : ~done[t]
  BY DEF Init, Current
<1>2. \A c \in Channels : \A i \in 1..Len(chan[c]) : FALSE
  BY <1>1
<1>3. CleanupsFollow
  BY <1>2 DEF CleanupsFollow
<1>4. SomebodyCleans
  BY <1>1 DEF SomebodyCleans
<1>5. SnapshotTaken
  BY <1>1, <1>2 DEF SnapshotTaken
<1> QED
  BY <1>3, <1>4, <1>5 DEF LeftoverInv

\* ... and every step keeps it.
LEMMA LeftoverStep ==
  ASSUME Discipline, LeftoverInv, [Next]_vars
  PROVE  Discipline' /\ LeftoverInv'
BY DisciplineStep, CleanupsFollowStep, SomebodyCleansStep, SnapshotTakenStep DEF LeftoverInv

\* Every transaction of a block reads what the previous block has left: the
\* SEARCH messages of EXECUTE find a store that no WRITE is still to change.
THEOREM SnapshotReadsHolds == Spec => []SnapshotReads
<1>1. ASSUME Discipline, LeftoverInv PROVE SnapshotReads
  <2> SUFFICES ASSUME phase \in {"RESERVE", "ANALYZE"}, NEW t \in Current, outcome[t] # "no_retry",
                      NEW k \in Reads(t)
               PROVE  seen[t][k] = db[k]
    BY DEF SnapshotReads
  <2>1. seen[t][k] = db[k] \/ <<"SEARCH", k, FALSE>> \in pend[t]
    BY <1>1 DEF LeftoverInv, SnapshotTaken, Live
  <2>2. <<"SEARCH", k, FALSE>> \notin pend[t]
    BY <1>1 DEF Discipline, WaitsOK, WaitOK, Current
  <2> QED
    BY <2>1, <2>2
<1> QED
  BY <1>1, LeftoverInit, LeftoverStep, PTL DEF Spec

\* No reservation and no message of a block is there when the next begins,
\* although RESERVE is never answered: cleanup_transactions, whose messages
\* come behind those of reserve_transactions, removes the late ones too.
THEOREM NothingLeftBehindHolds == Spec => []NothingLeftBehind
<1>1. ASSUME Discipline, LeftoverInv PROVE NothingLeftBehind
  <2> SUFFICES ASSUME (phase = "EXECUTE" /\ \A t \in Current : ~done[t]) \/ phase = "DONE"
               PROVE  /\ word = [k \in Keys |-> ZeroWord]
                      /\ \A c \in Channels : chan[c] = <<>>
    BY DEF NothingLeftBehind
  <2>1. TypeOK /\ MessagesOK /\ WaitsOK
    BY <1>1 DEF Discipline
  <2>2. \A k \in Keys : word[k] = ZeroWord
    BY <1>1 DEF LeftoverInv, SomebodyCleans
  <2>3. ASSUME NEW c \in Channels, NEW i \in 1..Len(chan[c]) PROVE FALSE
    <3> DEFINE m == chan[c][i]
    <3>1. m.txn \in Txns /\ m.type \in Types /\ MessageOK(c, m)
      BY <2>1, PositionTypes DEF MessagesOK
    <3>2. CASE m.type = "RESERVE"
      BY <1>1, <3>2 DEF LeftoverInv, CleanupsFollow
    <3>3. CASE m.type # "RESERVE"
      <4>1. Id(m) \in pend[m.txn]
        BY <3>1, <3>3 DEF MessageOK, Counted
      <4>2. WaitOK(m.txn, Id(m))
        BY <2>1, <3>1, <4>1 DEF WaitsOK
      <4> HIDE DEF m
      <4> QED
        BY <3>1, <3>3, <4>2 DEF WaitOK, Id, Types
    <3> QED
      BY <3>2, <3>3
  <2>4. ASSUME NEW c \in Channels PROVE chan[c] = <<>>
    <3>1. chan[c] \in Seq(Message) /\ Len(chan[c]) \in Nat
      BY <2>1 DEF TypeOK
    <3>2. ~(Len(chan[c]) > 0)
      <4>1. ASSUME Len(chan[c]) > 0 PROVE FALSE
        <5>1. 1 \in 1..Len(chan[c])
          BY <3>1, <4>1
        <5> QED
          BY <2>3, <5>1
      <4> QED
        BY <4>1
    <3> QED
      BY <3>1, <3>2
  <2> QED
    BY <2>1, <2>2, <2>4 DEF TypeOK
<1> QED
  BY <1>1, LeftoverInit, LeftoverStep, PTL DEF Spec

\* The invariant of the execution holds at the start ...
LEMMA BlockInit == Init => BlockInv
<1> SUFFICES ASSUME Init PROVE EpochsOK /\ SerialInv
  BY ConflictInit, LeftoverInit DEF BlockInv
<1>1. /\ \A c \in Channels : chan[c] = <<>> /\ Len(chan[c]) = 0
      /\ \A k \in Keys : word[k] = ZeroWord /\ db[k] = NoTxn
      /\ phase = "EXECUTE" /\ Committed = {} /\ block = 1
      /\ EpochOf[block] \in Nat
  BY ScheduleAssumption DEF Init, Committed
<1>2. EpochsOK
  BY <1>1 DEF EpochsOK, ZeroWord, HasReserved
<1>3. StoreOK
  BY <1>1 DEF StoreOK, LeftBy, Before
<1>4. ReadsOK
  <2>1. \A t \in Txns : ~(BlockOf[t] < block)
    BY <1>1, ScheduleAssumption
  <2> QED
    BY <1>1, <2>1 DEF ReadsOK
<1> QED
  BY <1>2, <1>3, <1>4 DEF SerialInv

\* ... and every step keeps it.
LEMMA BlockStep ==
  ASSUME EpochsFit, BlockInv, [Next]_vars
  PROVE  BlockInv'
<1>1. /\ ConflictInv /\ Discipline /\ ReservationsOK /\ ChecksOK /\ CommitsOK
      /\ LeftoverInv /\ CleanupsFollow /\ SnapshotTaken /\ EpochsOK /\ StoreOK /\ ReadsOK
  BY DEF BlockInv, ConflictInv, LeftoverInv, SerialInv
<1>2. ConflictInv'
  BY <1>1, DisciplineStep, ReservationsStep, ChecksStep, CommitsStep DEF ConflictInv
<1>3. FirstWriterWins /\ FirstWriterWins'
  BY <1>1, <1>2, FirstWriterFollows, PTL
<1> QED
  BY <1>1, <1>2, <1>3, LeftoverStep, EpochsStep, StoreStep, ReadsStep DEF BlockInv, SerialInv

\* The inductive invariant holds, for every schedule whose epochs fit.
THEOREM BlockInvHolds ==
  ASSUME EpochsFit PROVE Spec => []BlockInv
BY BlockInit, BlockStep, PTL DEF Spec

\* The assertions of the code on the epoch of a word hold, for a worker's own
\* rows and in the handlers: in reserve_read and reserve_write, and in
\* analyze_dependency and check_request_handler.
THEOREM EpochAssertionsHold ==
  ASSUME EpochsFit PROVE Spec => []EpochAssertions
<1>1. ASSUME BlockInv PROVE EpochAssertions
  <2>1. TypeOK /\ EpochsOK /\ CleanupsFollow /\ MessagesOK
    BY <1>1 DEF BlockInv, ConflictInv, Discipline, LeftoverInv
  <2>2. ASSUME NEW c \in Channels, chan[c] # <<>>
        PROVE  LET m == Head(chan[c])
               IN  /\ m.type = "RESERVE" => word[m.key].epoch <= Epoch(m.txn)
                   /\ m.type = "CHECK"   => word[m.key].epoch = Epoch(m.txn)
    <3> DEFINE m == chan[c][1]
    <3>1. /\ Head(chan[c]) = m /\ 1 \in 1..Len(chan[c]) /\ m.key \in Keys
      BY <2>1, <2>2, HeadTypes
    <3>2. ASSUME m.type = "RESERVE" PROVE word[m.key].epoch <= Epoch(m.txn)
      <4>1. m.txn \in Current
        BY <2>1, <3>1, <3>2 DEF CleanupsFollow
      <4>2. Epoch(m.txn) = EpochOf[block]
        BY <4>1 DEF Current, Epoch
      <4> QED
        BY <2>1, <3>1, <4>2 DEF EpochsOK
    <3>3. ASSUME m.type = "CHECK" PROVE word[m.key].epoch = Epoch(m.txn)
      <4>1. \A j \in 1..Len(chan[c]) : ~(j < 1)
        OBVIOUS
      <4> QED
        BY <2>1, <3>1, <3>3, <4>1 DEF EpochsOK
    <3> QED
      BY <3>1, <3>2, <3>3
  <2>3. ASSUME NEW t \in Working, ~Unreserved(t), ~done[t],
               NEW k \in Local(t, Reads(t) \cup Writes(t))
        PROVE  /\ phase = "RESERVE" => word[k].epoch <= Epoch(t)
               /\ phase = "ANALYZE" => word[k].epoch = Epoch(t)
    <3>1. t \in Txns /\ t \in Current /\ Epoch(t) = EpochOf[block]
      BY DEF Working, Current, Epoch
    <3>2. k \in Keys /\ Owner[k] = Home[t]
      BY <2>1, <3>1, AccessTypes DEF Local
    <3>3. ASSUME phase = "ANALYZE" PROVE word[k].epoch = Epoch(t)
      <4>1. HasReserved(t)
        BY <2>3, <3>1, <3>3 DEF HasReserved, Reserving, Live, Working
      <4>2. \E write \in BOOLEAN : k \in Accesses(t, write)
        BY DEF Local, Accesses
      <4>3. \A write : ~Requested("RESERVE", t, k, write)
        BY <2>1, <3>2 DEF Requested, IsRequest, MessagesOK, MessageOK
      <4> QED
        BY <2>1, <3>1, <4>1, <4>2, <4>3 DEF EpochsOK
    <3> QED
      BY <2>1, <3>1, <3>2, <3>3 DEF EpochsOK
  <2> QED
    BY <2>2, <2>3 DEF EpochAssertions
<1> QED
  BY <1>1, BlockInvHolds, PTL

\* Serializability of PRDCC.  While no reservation outlives its phase, the
\* committed transactions have read, and the store holds, what executing them
\* one after the other in the order Precedes gives: the commit decision of
\* finalize_transactions with the flags of analyze_transactions.
THEOREM SerializableUnlessLateHolds ==
  ASSUME EpochsFit PROVE Spec => []SerializableUnlessLate
<1>1. ASSUME BlockInv PROVE SerializableUnlessLate
  <2> SUFFICES ASSUME ~late, ~SnapshotIsolation PROVE SerialExecution
    BY DEF SerializableUnlessLate
  <2>1. /\ Discipline /\ TypeOK /\ OutcomesOK /\ ConflictOrder /\ StoreOK /\ ReadsOK
        /\ block \in Nat /\ \A t \in Txns : BlockOf[t] \in Nat /\ Tid[t] \in Nat
    BY <1>1, ConflictOrderFollows, ScheduleAssumption, TidAssumption
    DEF BlockInv, ConflictInv, SerialInv, Discipline, TypeOK
  <2>2. ASSUME NEW t \in Committed, NEW k \in Reads(t)
        PROVE  LeftBy(seen[t][k], k, {u \in Committed : Precedes(u, t)})
    <3>1. /\ t \in Txns /\ Live(t)
          /\ BlockOf[t] < block \/ (t \in Current /\ phase # "EXECUTE")
      BY <2>1 DEF Committed, Live, OutcomesOK, Current
    <3>2. LeftBy(seen[t][k], k, Before(BlockOf[t]))
      BY <2>1, <3>1 DEF ReadsOK
    <3>3. ASSUME NEW u \in Committed, k \in Writes(u), BlockOf[u] = BlockOf[t],
                 PrecedesInBlock(u, t)
          PROVE  FALSE
      <4>1. Rank(t) \in Int /\ Rank(u) \in Int
        BY <2>1 DEF Rank, Committed
      <4>2. ~PrecedesInBlock(t, u) /\ t # u
        BY <3>3, <4>1 DEF PrecedesInBlock
      <4> QED
        BY <2>1, <3>3, <4>2 DEF ConflictOrder
    <3>4. {u \in {v \in Committed : Precedes(v, t)} : k \in Writes(u)} =
          {u \in Before(BlockOf[t]) : k \in Writes(u)}
      BY <3>3 DEF Before, Precedes
    <3> QED
      BY <3>2, <3>4 DEF LeftBy
  <2>3. ASSUME phase \notin {"FINALIZE", "CLEANUP"}, NEW k \in Keys
        PROVE  LeftBy(db[k], k, Committed)
    <3>1. \A u : ~Requested("WRITE", u, k, TRUE)
      BY <2>1, <2>3, PhaseOfMessages DEF Requested, IsRequest
    <3> QED
      BY <2>1, <3>1, StoreSettled
  <2> QED
    BY <2>2, <2>3 DEF SerialExecution
<1> QED
  BY <1>1, BlockInvHolds, PTL
=============================================================================
