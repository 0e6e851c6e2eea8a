------------------------ MODULE LockSchedule_proofs ------------------------
(***************************************************************************)
(* The lock managers of Calvin execute every batch in the order that the   *)
(* nodes have agreed on.                                                   *)
(*                                                                         *)
(* The first part is about LockSchedule alone: the managers keep their     *)
(* locks and counters exact, for every layout of the cluster and every     *)
(* schedule the nodes agree on.  The second part shows BatchInv inductive, *)
(* for the batches of Calvin: the locks, the counters and the values are   *)
(* those of that order, for every workload.  The third part shows          *)
(* FallbackInv inductive: the aborts of AriaFB become such a schedule, and *)
(* its locks are exact for every outcome that Aria may have had.           *)
(***************************************************************************)
EXTENDS CalvinInv, AriaFallbackInv, FiniteSetTheorems, TLAPS

\* The executors of a manager are a block of the workers.
LEMMA WorkersServe ==
  /\ \A w \in Executors : w \in Nat /\ Serves(w) \in Managers
  /\ \A m \in Managers, r \in Nat :
       Worker(m, r) \in Executors /\ Serves(Worker(m, r)) = m
<1>1. NManagers \in Nat \ {0} /\ NExecutors \in Nat \ {0}
  BY LayoutAssumption
<1>0. ASSUME NEW x \in Nat, NEW d \in Nat \ {0}
      PROVE  /\ (x \div d) \in Nat /\ (x % d) \in Nat /\ x % d < d
             /\ x = d * (x \div d) + (x % d)
  OBVIOUS
<1>2. ASSUME NEW w \in Executors PROVE w \in Nat /\ Serves(w) \in Managers
  <2>1. w - NManagers \in Nat /\ w - NManagers < NManagers * NExecutors /\ w \in Nat
    <3>1. NManagers * (1 + NExecutors) = NManagers + NManagers * NExecutors
          /\ NManagers * NExecutors \in Nat
      BY <1>1
    <3> QED
      BY <1>1, <3>1 DEF Executors
  <2>2. ASSUME NEW x \in Nat, NEW d \in Nat \ {0}, NEW m \in Nat, x < m * d
        PROVE  (x \div d) \in Nat /\ x \div d < m
    <3>1. (x \div d) \in Nat /\ x = d * (x \div d) + (x % d) /\ (x % d) \in Nat
      BY <2>2
    <3>2. CASE x \div d >= m
      <4>1. PICK e \in Nat : x \div d = m + e
        <5>1. (x \div d) - m \in Nat
          BY <3>1, <3>2
        <5> QED
          BY <3>1, <5>1
      <4>2. d * (m + e) = m * d + d * e /\ d * e \in Nat /\ m * d \in Nat
        BY <2>2
      <4> QED
        BY <2>2, <3>1, <4>1, <4>2
    <3> QED
      BY <3>1, <3>2, <2>2
  <2> QED
    BY <1>1, <2>1, <2>2 DEF Serves, Managers
<1>3. ASSUME NEW m \in Managers, NEW r \in Nat
      PROVE  Worker(m, r) \in Executors /\ Serves(Worker(m, r)) = m
  <2> DEFINE s == r % NExecutors
             x == NExecutors * m + s
  <2>1. s \in Nat /\ s < NExecutors /\ m \in Nat /\ m < NManagers
    BY <1>1 DEF Managers
  <2> HIDE DEF s
  <2>2. x \in Nat /\ x < NManagers * NExecutors
    <3>1. PICK e \in Nat : NManagers = m + 1 + e
      <4>1. NManagers - (m + 1) \in Nat
        BY <1>1, <2>1
      <4> QED
        BY <1>1, <2>1, <4>1
    <3>2. (m + 1 + e) * NExecutors = NExecutors * m + NExecutors + e * NExecutors
          /\ NExecutors * m \in Nat /\ e * NExecutors \in Nat
      BY <1>1, <2>1
    <3> QED
      BY <1>1, <2>1, <3>1, <3>2
  <2>3. x \div NExecutors = m
    <3> DEFINE q == x \div NExecutors
               p == x % NExecutors
    <3>1. q \in Nat /\ x = NExecutors * q + p /\ p \in Nat /\ p < NExecutors
      BY <1>0, <1>1, <2>2
    <3> HIDE DEF q, p
    <3>2. CASE q < m
      <4>1. PICK e \in Nat : m = q + 1 + e
        <5>1. m - (q + 1) \in Nat
          BY <2>1, <3>1, <3>2
        <5> QED
          BY <2>1, <3>1, <5>1
      <4>2. NExecutors * (q + 1 + e) = NExecutors * q + NExecutors + NExecutors * e
            /\ NExecutors * e \in Nat /\ NExecutors * q \in Nat
        BY <1>1, <3>1
      <4> QED
        BY <1>1, <2>1, <3>1, <4>1, <4>2
    <3>3. CASE m < q
      <4>1. PICK e \in Nat : q = m + 1 + e
        <5>1. q - (m + 1) \in Nat
          BY <2>1, <3>1, <3>3
        <5> QED
          BY <2>1, <3>1, <5>1
      <4>2. NExecutors * (m + 1 + e) = NExecutors * m + NExecutors + NExecutors * e
            /\ NExecutors * e \in Nat /\ NExecutors * m \in Nat
        BY <1>1, <2>1
      <4> QED
        BY <1>1, <2>1, <3>1, <4>1, <4>2
    <3> QED
      BY <2>1, <3>1, <3>2, <3>3 DEF q
  <2>4. Worker(m, r) = NManagers + x
    BY <1>1, <2>1 DEF Worker, s
  <2>5. Worker(m, r) - NManagers = x
    BY <1>1, <2>2, <2>4
  <2>6. NManagers * (1 + NExecutors) = NManagers + NManagers * NExecutors
        /\ NManagers * NExecutors \in Nat
    BY <1>1
  <2> HIDE DEF x
  <2> QED
    BY <1>1, <2>2, <2>3, <2>4, <2>5, <2>6 DEF Serves, Executors
<1> QED
  BY <1>2, <1>3


\* The rows of a transaction are rows, and a node has finitely many of them.
ProgTypes ==
  \A t \in Txns : prog[t].reads \subseteq Keys /\ prog[t].writes \subseteq Keys

LEMMA RowFacts ==
  ASSUME ProgTypes, NEW t \in Txns, NEW n
  PROVE  /\ RowsAt(t, n) \subseteq Keys /\ RowsAt(t, n) \subseteq prog[t].reads
         /\ IsFiniteSet(prog[t].reads) /\ IsFiniteSet(RowsAt(t, n))
         /\ \A k \in Keys : Owner[k] \in Nodes /\ ManagerOf[k] \in Managers
         /\ \A m : RowsOf(t, n, m) \subseteq RowsAt(t, n) /\ IsFiniteSet(RowsOf(t, n, m))
<1>1. prog[t].reads \subseteq Keys /\ IsFiniteSet(Keys)
  BY LayoutAssumption DEF ProgTypes
<1>2. RowsAt(t, n) \subseteq Keys /\ RowsAt(t, n) \subseteq prog[t].reads
  BY <1>1 DEF RowsAt
<1>3. \A m : RowsOf(t, n, m) \subseteq RowsAt(t, n)
  BY DEF RowsOf
<1> QED
  BY <1>1, <1>2, <1>3, FS_Subset, LayoutAssumption

\* set_to_seq of the model: every element once.
LEMMA SetToSeqFacts ==
  ASSUME NEW S, IsFiniteSet(S)
  PROVE  /\ SetToSeq(S) \in Seq(S) /\ Len(SetToSeq(S)) \in Nat
         /\ \A x \in S : \E i \in 1..Len(SetToSeq(S)) : SetToSeq(S)[i] = x
         /\ \A i, j \in 1..Len(SetToSeq(S)) :
              SetToSeq(S)[i] = SetToSeq(S)[j] => i = j
<1> DEFINE n == Cardinality(S)
<1>1. n \in Nat /\ ExistsBijection(1..n, S)
  BY FS_CardinalityType
<1>2. PICK g \in Bijection(1..n, S) : TRUE
  BY <1>1 DEF ExistsBijection
<1>3. g \in [1..n -> S] /\ IsInjective(g)
  BY <1>2 DEF Bijection, Injection
<1>4. SetToSeq(S) \in [1..n -> S] /\ IsInjective(SetToSeq(S))
  BY <1>3 DEF SetToSeq
<1>5. SetToSeq(S) \in Seq(S) /\ Len(SetToSeq(S)) = n
  BY <1>1, <1>4
<1>6. IsFiniteSet(1..n) /\ Cardinality(1..n) = n
  BY <1>1, FS_Interval
<1>7. SetToSeq(S) \in Surjection(1..n, S)
  BY <1>4, <1>6, FS_Injection DEF Injection
<1> QED
  BY <1>1, <1>4, <1>5, <1>7 DEF IsInjective, Surjection

ReadMsg == [txn : Txns, key : Keys, val : Txns \cup {NoTxn}]

Carries(t, k) == [txn |-> t, key |-> k, val |-> db[k]]

\* The messages of one transaction to one node: a row is sent once.
LEMMA MsgsFacts ==
  ASSUME NEW t \in Txns, NEW rows \in SUBSET Keys, IsFiniteSet(rows), ScheduleTypeOK,
         NEW msgs, msgs = SetToSeq({[txn |-> t, key |-> k, val |-> db[k]] : k \in rows})
  PROVE  /\ msgs \in Seq(ReadMsg) /\ Len(msgs) \in Nat
         /\ \A i \in 1..Len(msgs) : msgs[i].key \in rows /\ msgs[i] = Carries(t, msgs[i].key)
         /\ \A k \in rows : \E i \in 1..Len(msgs) : msgs[i].key = k
         /\ \A i, j \in 1..Len(msgs) : msgs[i].key = msgs[j].key => i = j
<1> DEFINE S == {Carries(t, k) : k \in rows}
           f == [k \in rows |-> Carries(t, k)]
<1>1. msgs = SetToSeq(S)
  BY DEF Carries
<1>2. \A k \in rows : Carries(t, k) \in ReadMsg /\ Carries(t, k).key = k
  BY DEF Carries, ReadMsg, ScheduleTypeOK
<1>3. S \subseteq ReadMsg /\ \A x \in S : x.key \in rows /\ x = Carries(t, x.key)
  BY <1>2
<1>4. IsFiniteSet(S)
  <2>1. f \in Surjection(rows, S)
    BY DEF Surjection
  <2> QED
    BY <2>1, FS_Surjection
<1> HIDE DEF S
<1>5. /\ msgs \in Seq(S) /\ Len(msgs) \in Nat
      /\ \A x \in S : \E i \in 1..Len(msgs) : msgs[i] = x
      /\ \A i, j \in 1..Len(msgs) : msgs[i] = msgs[j] => i = j
  <2>1. /\ SetToSeq(S) \in Seq(S) /\ Len(SetToSeq(S)) \in Nat
        /\ \A x \in S : \E i \in 1..Len(SetToSeq(S)) : SetToSeq(S)[i] = x
        /\ \A i, j \in 1..Len(SetToSeq(S)) : SetToSeq(S)[i] = SetToSeq(S)[j] => i = j
    BY <1>4, SetToSeqFacts
  <2> QED
    BY <1>1, <2>1
<1>6. \A i \in 1..Len(msgs) : msgs[i] \in S
  BY <1>5
<1>7. msgs \in Seq(ReadMsg)
  BY <1>3, <1>5, <1>6
<1>8. \A k \in rows : Carries(t, k) \in S
  BY DEF S
<1>9. ASSUME NEW k \in rows PROVE \E i \in 1..Len(msgs) : msgs[i].key = k
  BY <1>2, <1>5, <1>8
<1>10. ASSUME NEW i \in 1..Len(msgs), NEW j \in 1..Len(msgs), msgs[i].key = msgs[j].key
       PROVE  i = j
  <2>1. msgs[i] = msgs[j]
    BY <1>3, <1>6, <1>10
  <2> QED
    BY <2>1, <1>5
<1> QED
  BY <1>3, <1>5, <1>6, <1>7, <1>9, <1>10

-----------------------------------------------------------------------------
(* Types.                                                                  *)

\* An array of arrays with one element replaced.
LEMMA Replaced ==
  ASSUME NEW A, NEW B, NEW C, NEW f \in [A -> [B -> C]],
         NEW a \in A, NEW b \in B, NEW v \in C
  PROVE  /\ [f EXCEPT ![a][b] = v] \in [A -> [B -> C]]
         /\ \A x \in A, y \in B :
              [f EXCEPT ![a][b] = v][x][y] = IF x = a /\ y = b THEN v ELSE f[x][y]
  OBVIOUS

ScheduleStep == ScheduleNext /\ UNCHANGED <<prog, todo>>

LEMMA TypeStep ==
  ASSUME ProgTypes, ScheduleTypeOK, ScheduleStep
  PROVE  ScheduleTypeOK'
<1> USE DEF ScheduleTypeOK
<1>0. todo' = todo
  BY DEF ScheduleStep
<1>1. ASSUME NEW n \in Nodes, NEW m \in Managers, NEW t \in Txns, Assign(n, m, t)
      PROVE  ScheduleTypeOK'
  <2> DEFINE request == Cardinality({u \in dealt[n][m] \cap todo[n] : RowsOf(u, n, m) # {}})
             w == Worker(m, request)
  <2>1. /\ dealt' = [dealt EXCEPT ![n][m] = @ \cup {t}]
        /\ got' = [got EXCEPT ![n][m] = {}]
        /\ UNCHANGED <<running, local, remote, input, ran, lock, db, reads>>
        /\ queue' = IF got[n][m] = {} THEN queue
                    ELSE [queue EXCEPT ![n][w] = Append(@, t)]
    BY <1>1 DEF Assign
  <2>2. w \in Executors
    <3>1. request \in Nat
      BY OrderAssumption, FS_Subset, FS_CardinalityType
    <3> QED
      BY <3>1, WorkersServe
  <2> HIDE DEF w
  <2>3. queue' \in [Nodes -> [Executors -> Seq(Txns)]]
    <3>1. Append(queue[n][w], t) \in Seq(Txns)
      BY <2>2
    <3> QED
      BY <2>1, <2>2, <3>1, Replaced
  <2>4. dealt' \in [Nodes -> [Managers -> SUBSET Txns]]
    <3>1. dealt[n][m] \cup {t} \in SUBSET Txns
      OBVIOUS
    <3> QED
      BY <2>1, <3>1, Replaced
  <2>5. got' \in [Nodes -> [Managers -> SUBSET Keys]]
    BY <2>1, Replaced
  <2> QED
    BY <1>0, <2>1, <2>3, <2>4, <2>5
<1>2. ASSUME NEW n \in Nodes, NEW m \in Managers, NEW t \in Txns, NEW k \in Keys,
             Grant(n, m, t, k)
      PROVE  ScheduleTypeOK'
  <2>1. lock' \in [Keys -> [readers : Int, writer : {0, 1}]]
    <3>1. lock' = [lock EXCEPT ![k].writer = 1] \/ lock' = [lock EXCEPT ![k].readers = @ + 1]
      BY <1>2 DEF Grant
    <3>2. \A l \in [readers : Int, writer : {0, 1}] :
            /\ [l EXCEPT !.writer = 1] \in [readers : Int, writer : {0, 1}]
            /\ [l EXCEPT !.readers = @ + 1] \in [readers : Int, writer : {0, 1}]
      OBVIOUS
    <3>3. lock' = [lock EXCEPT ![k] = [lock[k] EXCEPT !.writer = 1]]
          \/ lock' = [lock EXCEPT ![k] = [lock[k] EXCEPT !.readers = @ + 1]]
      BY <3>1, Zenon
    <3> HIDE DEF ScheduleTypeOK
    <3>4. lock \in [Keys -> [readers : Int, writer : {0, 1}]]
      BY DEF ScheduleTypeOK
    <3> QED
      BY <3>2, <3>3, <3>4
  <2>2. got' \in [Nodes -> [Managers -> SUBSET Keys]]
    <3>1. got[n][m] \cup {k} \in SUBSET Keys /\ got' = [got EXCEPT ![n][m] = @ \cup {k}]
      BY <1>2 DEF Grant
    <3> QED
      BY <3>1, Replaced
  <2> QED
    BY <1>0, <1>2, <2>1, <2>2 DEF Grant
<1>3. ASSUME NEW n \in Nodes, NEW w \in Executors, Begin(n, w)
      PROVE  ScheduleTypeOK'
  <2> DEFINE t == Head(queue[n][w])
             rows == RowsOf(t, n, Serves(w))
             msgs == SetToSeq({[txn |-> t, key |-> k, val |-> db[k]] : k \in rows})
  <2>1. /\ queue[n][w] # <<>>
        /\ running' = [running EXCEPT ![n][w] = t]
        /\ queue' = [queue EXCEPT ![n][w] = Tail(@)]
        /\ input' = [input EXCEPT ![n][t] =
                       [k \in Keys |-> IF k \in rows THEN db[k] ELSE @[k]]]
        /\ local' = [local EXCEPT ![n][t] = @ - Cardinality(rows)]
        /\ reads' = [c \in Lanes |->
                       IF c[1] = n /\ c[3] = w /\ c[2] \in Active(t)
                         THEN reads[c] \o msgs ELSE reads[c]]
        /\ UNCHANGED <<dealt, got, remote, ran, lock, db>>
    BY <1>3 DEF Begin
  <2>2. t \in Txns
    BY <2>1
  <2>3. rows \in SUBSET Keys /\ IsFiniteSet(rows) /\ Cardinality(rows) \in Nat
    BY <2>2, RowFacts, FS_CardinalityType
  <2>4. msgs \in Seq(ReadMsg)
    BY <2>2, <2>3, MsgsFacts, ZenonT(60)
  <2> HIDE DEF t, rows, msgs
  <2>5. queue' \in [Nodes -> [Executors -> Seq(Txns)]]
    BY <2>1
  <2>6. input' \in [Nodes -> [Txns -> [Keys -> Txns \cup {NoTxn}]]]
    BY <2>1, <2>2
  <2>7. reads' \in [Lanes -> Seq([txn : Txns, key : Keys, val : Txns \cup {NoTxn}])]
    <3>1. \A c \in Lanes : reads[c] \in Seq(ReadMsg)
      BY DEF ReadMsg
    <3>2. \A c \in Lanes : reads[c] \o msgs \in Seq(ReadMsg)
      BY <3>1, <2>4
    <3>3. reads' \in [Lanes -> Seq(ReadMsg)]
      BY <2>1, <3>1, <3>2
    <3> QED
      BY <3>3 DEF ReadMsg
  <2>8. local' \in [Nodes -> [Txns -> Int]] /\ running' \in [Nodes -> [Executors -> Txns \cup {NoTxn}]]
    BY <2>1, <2>2, <2>3
  <2> QED
    BY <1>0, <2>1, <2>5, <2>6, <2>7, <2>8
<1>4. ASSUME NEW n \in Nodes, NEW m, NEW t, NEW shared, NEW written,
             lock' = Released(t, n, m, shared, written)
      PROVE  lock' \in [Keys -> [readers : Int, writer : {0, 1}]]
  BY <1>4 DEF Released, ReleaseRead, ReleaseWrite
<1>5. ASSUME NEW n \in Nodes, NEW w \in Executors, Commit(n, w) \/ Abort(n, w)
      PROVE  ScheduleTypeOK'
  <2>1. running[n][w] \in Txns /\ running' = [running EXCEPT ![n][w] = NoTxn]
    BY <1>5 DEF Commit, Abort
  <2>2. lock' \in [Keys -> [readers : Int, writer : {0, 1}]]
    BY <1>4, <1>5 DEF Commit, Abort
  <2>3. UNCHANGED <<dealt, got, queue, local, remote, input, reads>>
    BY <1>5 DEF Commit, Abort
  <2>4. ran' \in [Nodes -> [Txns -> Nat]]
    <3>1. ran' = ran \/ ran' = [ran EXCEPT ![n][running[n][w]] = @ + 1]
      BY <1>5 DEF Commit, Abort
    <3>2. ran[n][running[n][w]] + 1 \in Nat
      BY <2>1
    <3>3. [ran EXCEPT ![n][running[n][w]] = @ + 1] \in [Nodes -> [Txns -> Nat]]
      BY <2>1, <3>2, Replaced
    <3> QED
      BY <3>1, <3>3
  <2>5. db' \in [Keys -> Txns \cup {NoTxn}]
    BY <1>5, <2>1 DEF Commit, Abort
  <2> QED
    BY <1>0, <2>1, <2>2, <2>3, <2>4, <2>5
<1>6. ASSUME NEW c \in Lanes, ReadRequest(c)
      PROVE  ScheduleTypeOK'
  <2> DEFINE msg == Head(reads[c])
  <2>1. /\ input' = [input EXCEPT ![c[2]][msg.txn][msg.key] = msg.val]
        /\ remote' = [remote EXCEPT ![c[2]][msg.txn] = @ - 1]
        /\ reads' = [reads EXCEPT ![c] = Tail(@)]
        /\ UNCHANGED <<dealt, got, queue, running, local, ran, lock, db>>
    BY <1>6 DEF ReadRequest
  <2>2. reads[c] \in Seq(ReadMsg) /\ reads[c] # <<>> /\ c[2] \in Nodes
    BY <1>6 DEF ReadRequest, ReadMsg, Lanes
  <2>3. msg \in ReadMsg /\ Tail(reads[c]) \in Seq(ReadMsg)
    BY <2>2
  <2> HIDE DEF msg
  <2>4. msg.txn \in Txns /\ msg.key \in Keys /\ msg.val \in Txns \cup {NoTxn}
    BY <2>3 DEF ReadMsg
  <2>a. /\ input \in [Nodes -> [Txns -> [Keys -> Txns \cup {NoTxn}]]]
        /\ remote \in [Nodes -> [Txns -> Int]]
    OBVIOUS
  <2>b. PICK o \in Nodes, t \in Txns, k \in Keys, v \in Txns \cup {NoTxn} :
          o = c[2] /\ t = msg.txn /\ k = msg.key /\ v = msg.val
    BY <2>2, <2>4
  <2>5. input' \in [Nodes -> [Txns -> [Keys -> Txns \cup {NoTxn}]]]
    <3>1. [input[o][t] EXCEPT ![k] = v] \in [Keys -> Txns \cup {NoTxn}]
      BY <2>a
    <3>2. input' = [input EXCEPT ![o][t] = [input[o][t] EXCEPT ![k] = v]]
      BY <2>1, <2>a, <2>b
    <3> QED
      BY ONLY <2>a, <3>1, <3>2, Replaced
  <2>6. remote' \in [Nodes -> [Txns -> Int]]
    <3>1. remote[o][t] - 1 \in Int
      BY <2>a
    <3>2. remote' = [remote EXCEPT ![o][t] = remote[o][t] - 1]
      BY <2>1, <2>b
    <3> QED
      BY ONLY <2>a, <3>1, <3>2, Replaced
  <2>7. reads' \in [Lanes -> Seq(ReadMsg)]
    BY <2>1, <2>3 DEF ReadMsg
  <2> QED
    BY <1>0, <2>1, <2>5, <2>6, <2>7 DEF ReadMsg
<1> QED
  BY <1>1, <1>2, <1>3, <1>5, <1>6 DEF ScheduleStep, ScheduleNext, Manage, Execute

-----------------------------------------------------------------------------
(* What each step does to the places of the transactions.                  *)

Places == <<dealt, got, queue, running>>

LEMMA QueueFacts ==
  ASSUME ScheduleTypeOK, NEW n \in Nodes, NEW w \in Executors
  PROVE  /\ queue[n][w] \in Seq(Txns) /\ Len(queue[n][w]) \in Nat
         /\ DOMAIN queue[n][w] = 1..Len(queue[n][w])
         /\ \A i \in DOMAIN queue[n][w] : queue[n][w][i] \in Txns /\ queue[n][w][i] # NoTxn
         /\ running[n][w] \in Txns \cup {NoTxn}
  BY OrderAssumption DEF ScheduleTypeOK

\* Nobody else is at hand.
LEMMA OneAtHand ==
  ASSUME NEW n, NEW m, NEW t \in Txns, NEW u \in Txns, AtHand(n, m, t), AtHand(n, m, u)
  PROVE  t = u
<1>1. t # u => Tid[t] < Tid[u] /\ Tid[u] < Tid[t]
  BY DEF AtHand, Earlier
<1>2. Tid[t] \in Nat /\ Tid[u] \in Nat
  BY OrderAssumption
<1> QED
  BY <1>1, <1>2

\* A lock is taken.
GrantEffect(n, m, t, k) ==
  /\ AtHand(n, m, t) /\ k \in RowsOf(t, n, m) \ got[n][m]
  /\ \A o \in Nodes, p \in Managers :
       got'[o][p] = IF o = n /\ p = m THEN got[n][m] \cup {k} ELSE got[o][p]
  /\ IF k \in Updates(t)
       THEN MayWrite(lock[k]) /\ lock'[k] = [lock[k] EXCEPT !.writer = 1]
       ELSE MayRead(lock[k]) /\ lock'[k] = [lock[k] EXCEPT !.readers = @ + 1]
  /\ \A j \in Keys : j # k => lock'[j] = lock[j]
  /\ dealt' = dealt /\ queue' = queue /\ running' = running /\ local' = local
  /\ remote' = remote /\ input' = input /\ ran' = ran /\ db' = db
  /\ reads' = reads

LEMMA GrantFacts ==
  ASSUME LockInv, NEW n \in Nodes, NEW m \in Managers, NEW t \in Txns, NEW k \in Keys,
         Grant(n, m, t, k)
  PROVE  GrantEffect(n, m, t, k)
<1>1. got \in [Nodes -> [Managers -> SUBSET Keys]] /\ lock \in [Keys -> [readers : Int, writer : {0, 1}]]
  BY DEF LockInv, ScheduleTypeOK
<1>2. got' = [got EXCEPT ![n][m] = @ \cup {k}]
  BY DEF Grant
<1>3. \A o \in Nodes, p \in Managers :
        got'[o][p] = IF o = n /\ p = m THEN got[n][m] \cup {k} ELSE got[o][p]
  <2>1. got[n][m] \cup {k} \in SUBSET Keys
    BY <1>1
  <2> QED
    BY <1>1, <1>2, <2>1, Replaced
<1>4. CASE k \in Updates(t)
  <2>1. MayWrite(lock[k]) /\ lock' = [lock EXCEPT ![k].writer = 1]
    BY <1>4 DEF Grant
  <2>2. lock' = [lock EXCEPT ![k] = [lock[k] EXCEPT !.writer = 1]]
    BY <2>1, Zenon
  <2>3. lock'[k] = [lock[k] EXCEPT !.writer = 1] /\ \A j \in Keys : j # k => lock'[j] = lock[j]
    BY <1>1, <2>2
  <2> QED
    BY <1>3, <1>4, <2>1, <2>3 DEF Grant, GrantEffect
<1>5. CASE k \notin Updates(t)
  <2>1. MayRead(lock[k]) /\ lock' = [lock EXCEPT ![k].readers = @ + 1]
    BY <1>5 DEF Grant
  <2>2. lock' = [lock EXCEPT ![k] = [lock[k] EXCEPT !.readers = @ + 1]]
    BY <2>1, Zenon
  <2>3. lock'[k] = [lock[k] EXCEPT !.readers = @ + 1] /\ \A j \in Keys : j # k => lock'[j] = lock[j]
    BY <1>1, <2>2
  <2> QED
    BY <1>3, <1>5, <2>1, <2>3 DEF Grant, GrantEffect
<1> QED
  BY <1>4, <1>5 DEF GrantEffect

\* A transaction is handed to an executor, if the manager has rows of it.
AssignEffect(n, m, t) ==
  /\ AtHand(n, m, t) /\ got[n][m] = RowsOf(t, n, m)
  /\ \A o \in Nodes, p \in Managers :
       /\ dealt'[o][p] = IF o = n /\ p = m THEN dealt[n][m] \cup {t} ELSE dealt[o][p]
       /\ got'[o][p] = IF o = n /\ p = m THEN {} ELSE got[o][p]
  /\ \E w \in Executors :
       /\ Serves(w) = m
       /\ \A o \in Nodes, v \in Executors :
            queue'[o][v] = IF got[n][m] # {} /\ o = n /\ v = w
                             THEN Append(queue[n][w], t) ELSE queue[o][v]
  /\ running' = running /\ local' = local /\ remote' = remote /\ input' = input
  /\ ran' = ran /\ lock' = lock /\ db' = db /\ reads' = reads

LEMMA AssignFacts ==
  ASSUME LockInv, ProgTypes, NEW n \in Nodes, NEW m \in Managers, NEW t \in Txns,
         Assign(n, m, t)
  PROVE  AssignEffect(n, m, t)
<1>1. ScheduleTypeOK
  BY DEF LockInv
<1> DEFINE request == Cardinality({u \in dealt[n][m] \cap todo[n] : RowsOf(u, n, m) # {}})
           w == Worker(m, request)
<1>2. /\ AtHand(n, m, t) /\ got[n][m] = RowsOf(t, n, m)
      /\ dealt' = [dealt EXCEPT ![n][m] = @ \cup {t}]
      /\ got' = [got EXCEPT ![n][m] = {}]
      /\ UNCHANGED <<running, local, remote, input, ran, lock, db, reads>>
      /\ queue' = IF got[n][m] = {} THEN queue
                  ELSE [queue EXCEPT ![n][w] = Append(@, t)]
  BY DEF Assign
<1>3. w \in Executors /\ Serves(w) = m
  <2>1. request \in Nat
    BY <1>1, OrderAssumption, FS_Subset, FS_CardinalityType DEF ScheduleTypeOK
  <2> QED
    BY <2>1, WorkersServe
<1> HIDE DEF w
<1>4. \A o \in Nodes, v \in Executors :
        queue'[o][v] = IF got[n][m] # {} /\ o = n /\ v = w
                         THEN Append(queue[n][w], t) ELSE queue[o][v]
  <2>1. Append(queue[n][w], t) \in Seq(Txns) /\ queue \in [Nodes -> [Executors -> Seq(Txns)]]
    BY <1>1, <1>3 DEF ScheduleTypeOK
  <2>2. CASE got[n][m] = {}
    BY <1>2, <2>2
  <2>3. CASE got[n][m] # {}
    <3>1. queue' = [queue EXCEPT ![n][w] = Append(queue[n][w], t)]
      BY <1>2, <2>3
    <3>2. \A o \in Nodes, v \in Executors :
            [queue EXCEPT ![n][w] = Append(queue[n][w], t)][o][v] =
              IF o = n /\ v = w THEN Append(queue[n][w], t) ELSE queue[o][v]
      BY <1>3, <2>1, Replaced
    <3> QED
      BY <2>3, <3>1, <3>2
  <2> QED
    BY <2>2, <2>3
<1>5. \A o \in Nodes, p \in Managers :
        dealt'[o][p] = IF o = n /\ p = m THEN dealt[n][m] \cup {t} ELSE dealt[o][p]
  <2>1. dealt[n][m] \cup {t} \in SUBSET Txns /\ dealt \in [Nodes -> [Managers -> SUBSET Txns]]
    BY <1>1 DEF ScheduleTypeOK
  <2> QED
    BY <1>2, <2>1, Replaced
<1>6. \A o \in Nodes, p \in Managers : got'[o][p] = IF o = n /\ p = m THEN {} ELSE got[o][p]
  <2>1. got \in [Nodes -> [Managers -> SUBSET Keys]]
    BY <1>1 DEF ScheduleTypeOK
  <2> QED
    BY <1>2, <2>1, Replaced
<1> QED
  BY <1>2, <1>3, <1>4, <1>5, <1>6 DEF AssignEffect

\* An executor takes t in hand, reads the rows of its manager and sends them.
BeginEffect(n, w, t) ==
  /\ t \in Txns /\ running[n][w] = NoTxn
  /\ queue[n][w] # <<>> /\ 1 \in DOMAIN queue[n][w] /\ queue[n][w][1] = t
  /\ \A o \in Nodes, v \in Executors :
       /\ running'[o][v] = IF o = n /\ v = w THEN t ELSE running[o][v]
       /\ queue'[o][v] = IF o = n /\ v = w THEN Tail(queue[n][w]) ELSE queue[o][v]
  /\ \A o \in Nodes : \A u \in Txns :
       /\ local'[o][u] = IF o = n /\ u = t
                           THEN local[n][t] - Cardinality(RowsOf(t, n, Serves(w)))
                           ELSE local[o][u]
       /\ \A k \in Keys :
            input'[o][u][k] = IF o = n /\ u = t /\ k \in RowsOf(t, n, Serves(w))
                                THEN db[k] ELSE input[o][u][k]
  /\ \E msgs \in Seq(ReadMsg) :
       /\ Len(msgs) \in Nat
       /\ \A i \in 1..Len(msgs) : /\ msgs[i].key \in RowsOf(t, n, Serves(w))
                                  /\ msgs[i] = Carries(t, msgs[i].key)
       /\ \A k \in RowsOf(t, n, Serves(w)) : \E i \in 1..Len(msgs) : msgs[i].key = k
       /\ \A i, j \in 1..Len(msgs) : msgs[i].key = msgs[j].key => i = j
       /\ \A c \in Lanes :
            reads'[c] = IF c[1] = n /\ c[3] = w /\ c[2] \in Active(t)
                          THEN reads[c] \o msgs ELSE reads[c]
  /\ dealt' = dealt /\ got' = got /\ remote' = remote /\ ran' = ran
  /\ lock' = lock /\ db' = db

LEMMA BeginFacts ==
  ASSUME LockInv, ProgTypes, NEW n \in Nodes, NEW w \in Executors, Begin(n, w),
         NEW t, t = Head(queue[n][w])
  PROVE  BeginEffect(n, w, t)
<1>1. ScheduleTypeOK
  BY DEF LockInv
<1> DEFINE rows == RowsOf(t, n, Serves(w))
           msgs == SetToSeq({[txn |-> t, key |-> k, val |-> db[k]] : k \in rows})
<1>2. /\ queue[n][w] # <<>> /\ running[n][w] = NoTxn
      /\ running' = [running EXCEPT ![n][w] = t]
      /\ queue' = [queue EXCEPT ![n][w] = Tail(@)]
      /\ input' = [input EXCEPT ![n][t] =
                     [k \in Keys |-> IF k \in rows THEN db[k] ELSE @[k]]]
      /\ local' = [local EXCEPT ![n][t] = @ - Cardinality(rows)]
      /\ reads' = [c \in Lanes |->
                     IF c[1] = n /\ c[3] = w /\ c[2] \in Active(t)
                       THEN reads[c] \o msgs ELSE reads[c]]
      /\ UNCHANGED <<dealt, got, remote, ran, lock, db>>
  BY DEF Begin
<1>3. t \in Txns /\ 1 \in DOMAIN queue[n][w] /\ queue[n][w][1] = t
      /\ Tail(queue[n][w]) \in Seq(Txns)
  <2>1. queue[n][w] \in Seq(Txns)
    BY <1>1, QueueFacts
  <2> QED
    BY <1>2, <2>1
<1>4. rows \in SUBSET Keys /\ IsFiniteSet(rows) /\ Cardinality(rows) \in Nat
  BY <1>3, RowFacts, FS_CardinalityType
<1>5. /\ msgs \in Seq(ReadMsg) /\ Len(msgs) \in Nat
      /\ \A i \in 1..Len(msgs) : msgs[i].key \in rows /\ msgs[i] = Carries(t, msgs[i].key)
      /\ \A k \in rows : \E i \in 1..Len(msgs) : msgs[i].key = k
      /\ \A i, j \in 1..Len(msgs) : msgs[i].key = msgs[j].key => i = j
  BY <1>1, <1>3, <1>4, MsgsFacts
<1> HIDE DEF msgs
<1>6. \A c \in Lanes :
        reads'[c] = IF c[1] = n /\ c[3] = w /\ c[2] \in Active(t)
                      THEN reads[c] \o msgs ELSE reads[c]
  BY <1>2
<1> HIDE DEF rows
<1>7. \A o \in Nodes, v \in Executors :
        running'[o][v] = IF o = n /\ v = w THEN t ELSE running[o][v]
  <2>1. running \in [Nodes -> [Executors -> Txns \cup {NoTxn}]] /\ t \in Txns \cup {NoTxn}
    BY <1>1, <1>3 DEF ScheduleTypeOK
  <2> QED
    BY <1>2, <2>1, Replaced
<1>8. \A o \in Nodes, v \in Executors :
        queue'[o][v] = IF o = n /\ v = w THEN Tail(queue[n][w]) ELSE queue[o][v]
  <2>1. queue \in [Nodes -> [Executors -> Seq(Txns)]]
    BY <1>1 DEF ScheduleTypeOK
  <2> QED
    BY <1>2, <1>3, <2>1, Replaced
<1>9. \A o \in Nodes : \A u \in Txns :
        local'[o][u] = IF o = n /\ u = t THEN local[n][t] - Cardinality(rows) ELSE local[o][u]
  <2>1. local \in [Nodes -> [Txns -> Int]] /\ local[n][t] - Cardinality(rows) \in Int
    BY <1>1, <1>3, <1>4 DEF ScheduleTypeOK
  <2> QED
    BY <1>2, <1>3, <2>1, Replaced
<1>10. \A o \in Nodes : \A u \in Txns : \A k \in Keys :
         input'[o][u][k] = IF o = n /\ u = t /\ k \in rows THEN db[k] ELSE input[o][u][k]
  <2> DEFINE new == [k \in Keys |-> IF k \in rows THEN db[k] ELSE input[n][t][k]]
  <2>1. input \in [Nodes -> [Txns -> [Keys -> Txns \cup {NoTxn}]]] /\ db \in [Keys -> Txns \cup {NoTxn}]
    BY <1>1 DEF ScheduleTypeOK
  <2>2. new \in [Keys -> Txns \cup {NoTxn}]
    BY <1>3, <2>1
  <2>3. input' = [input EXCEPT ![n][t] = new]
    BY <1>2
  <2>4. \A o \in Nodes, u \in Txns : input'[o][u] = IF o = n /\ u = t THEN new ELSE input[o][u]
    <3> HIDE DEF new
    <3> QED
      BY <1>3, <2>1, <2>2, <2>3, Replaced
  <2>5. ASSUME NEW o \in Nodes, NEW u \in Txns, NEW k \in Keys
        PROVE  input'[o][u][k] = IF o = n /\ u = t /\ k \in rows THEN db[k] ELSE input[o][u][k]
    <3>1. CASE o = n /\ u = t
      BY <2>4, <3>1
    <3>2. CASE ~(o = n /\ u = t)
      BY <2>4, <3>2
    <3> QED
      BY <3>1, <3>2
  <2> QED
    BY <2>5
<1>11. \E s \in Seq(ReadMsg) :
         /\ Len(s) \in Nat
         /\ \A i \in 1..Len(s) : s[i].key \in rows /\ s[i] = Carries(t, s[i].key)
         /\ \A k \in rows : \E i \in 1..Len(s) : s[i].key = k
         /\ \A i, j \in 1..Len(s) : s[i].key = s[j].key => i = j
         /\ \A c \in Lanes : reads'[c] = IF c[1] = n /\ c[3] = w /\ c[2] \in Active(t)
                                            THEN reads[c] \o s ELSE reads[c]
  BY <1>5, <1>6
<1>12. rows = RowsOf(t, n, Serves(w))
  BY DEF rows
<1>13. \A o \in Nodes : \A u \in Txns :
              /\ local'[o][u] = IF o = n /\ u = t
                                  THEN local[n][t] - Cardinality(RowsOf(t, n, Serves(w)))
                                  ELSE local[o][u]
              /\ \A k \in Keys :
                   input'[o][u][k] = IF o = n /\ u = t /\ k \in RowsOf(t, n, Serves(w))
                                       THEN db[k] ELSE input[o][u][k]
  BY <1>9, <1>10, <1>12
<1>14. \E s \in Seq(ReadMsg) :
              /\ Len(s) \in Nat
              /\ \A i \in 1..Len(s) : /\ s[i].key \in RowsOf(t, n, Serves(w))
                                      /\ s[i] = Carries(t, s[i].key)
              /\ \A k \in RowsOf(t, n, Serves(w)) : \E i \in 1..Len(s) : s[i].key = k
              /\ \A i, j \in 1..Len(s) : s[i].key = s[j].key => i = j
              /\ \A c \in Lanes :
                   reads'[c] = IF c[1] = n /\ c[3] = w /\ c[2] \in Active(t)
                                 THEN reads[c] \o s ELSE reads[c]
  BY <1>11, <1>12
<1>15. /\ queue[n][w] # <<>> /\ running[n][w] = NoTxn
       /\ UNCHANGED <<dealt, got, remote, ran, lock, db>>
  BY <1>2
<1> QED
  BY <1>3, <1>7, <1>8, <1>13, <1>14, <1>15 DEF BeginEffect

\* Commit on a node that writes, Abort on the others.
FinishEffect(n, w, t) ==
  /\ t \in Txns
  /\ \A o \in Nodes, v \in Executors :
       running'[o][v] = IF o = n /\ v = w THEN NoTxn ELSE running[o][v]
  /\ \A k \in Keys :
       lock'[k] = IF Owner[k] # n \/ ManagerOf[k] # Serves(w) THEN lock[k]
                  ELSE IF k \in Shares(t) THEN ReleaseRead(lock[k])
                  ELSE IF k \in prog[t].writes /\ n \in Active(t)
                         THEN ReleaseWrite(lock[k]) ELSE lock[k]
  /\ n \in Active(t) => local[n][t] <= 0 /\ remote[n][t] <= 0
  /\ \A o \in Nodes : \A u \in Txns :
       ran'[o][u] = IF o = n /\ u = t /\ n \in Active(t) THEN ran[n][t] + 1 ELSE ran[o][u]
  /\ \A k \in Keys :
       db'[k] = IF n \in Active(t) /\ k \in prog[t].writes /\ Owner[k] = n
                     /\ ManagerOf[k] = Serves(w)
                  THEN t ELSE db[k]
  /\ dealt' = dealt /\ got' = got /\ queue' = queue /\ local' = local
  /\ remote' = remote /\ input' = input /\ reads' = reads

LEMMA FinishFacts ==
  ASSUME LockInv, NEW n \in Nodes, NEW w \in Executors, Commit(n, w) \/ Abort(n, w),
         NEW t, t = running[n][w]
  PROVE  FinishEffect(n, w, t)
<1>1. ScheduleTypeOK
  BY DEF LockInv
<1>2. /\ t \in Txns /\ running' = [running EXCEPT ![n][w] = NoTxn]
      /\ UNCHANGED <<dealt, got, queue, local, remote, input, reads>>
  BY <1>1 DEF Commit, Abort, ScheduleTypeOK
<1>3. \A o \in Nodes, v \in Executors :
        running'[o][v] = IF o = n /\ v = w THEN NoTxn ELSE running[o][v]
  <2>1. running \in [Nodes -> [Executors -> Txns \cup {NoTxn}]] /\ NoTxn \in Txns \cup {NoTxn}
    BY <1>1 DEF ScheduleTypeOK
  <2> QED
    BY <1>2, <2>1, Replaced
<1>4. CASE Commit(n, w)
  <2>1. /\ n \in Active(t) /\ local[n][t] <= 0 /\ remote[n][t] <= 0
        /\ ran' = [ran EXCEPT ![n][t] = @ + 1]
        /\ db' = [k \in Keys |-> IF k \in prog[t].writes /\ Owner[k] = n /\ ManagerOf[k] = Serves(w)
                                   THEN t ELSE db[k]]
        /\ lock' = Released(t, n, Serves(w), Shares(t), prog[t].writes)
    BY <1>4 DEF Commit
  <2>2. \A o \in Nodes : \A u \in Txns :
          ran'[o][u] = IF o = n /\ u = t THEN ran[n][t] + 1 ELSE ran[o][u]
    <3>1. ran \in [Nodes -> [Txns -> Nat]] /\ ran[n][t] + 1 \in Nat
      BY <1>1, <1>2 DEF ScheduleTypeOK
    <3>2. \A o \in Nodes, u \in Txns :
            [ran EXCEPT ![n][t] = ran[n][t] + 1][o][u] =
              IF o = n /\ u = t THEN ran[n][t] + 1 ELSE ran[o][u]
      BY <1>2, <3>1, Replaced
    <3> QED
      BY <2>1, <3>2
  <2>3. \A k \in Keys :
          lock'[k] = IF Owner[k] # n \/ ManagerOf[k] # Serves(w) THEN lock[k]
                     ELSE IF k \in Shares(t) THEN ReleaseRead(lock[k])
                     ELSE IF k \in prog[t].writes THEN ReleaseWrite(lock[k]) ELSE lock[k]
    BY <2>1 DEF Released
  <2>4. \A k \in Keys :
          db'[k] = IF k \in prog[t].writes /\ Owner[k] = n /\ ManagerOf[k] = Serves(w)
                     THEN t ELSE db[k]
    BY <2>1
  <2>5. n \in Active(t) /\ local[n][t] <= 0 /\ remote[n][t] <= 0
    BY <2>1
  <2> QED
    BY <1>2, <1>3, <2>2, <2>3, <2>4, <2>5 DEF FinishEffect
<1>5. CASE Abort(n, w)
  <2>1. n \notin Active(t) /\ ran' = ran /\ db' = db
        /\ lock' = Released(t, n, Serves(w), Shares(t), {})
    BY <1>5 DEF Abort
  <2>2. \A k \in Keys :
          lock'[k] = IF Owner[k] # n \/ ManagerOf[k] # Serves(w) THEN lock[k]
                     ELSE IF k \in Shares(t) THEN ReleaseRead(lock[k]) ELSE lock[k]
    BY <2>1 DEF Released
  <2> QED
    BY <1>2, <1>3, <2>1, <2>2 DEF FinishEffect
<1> QED
  BY <1>4, <1>5 DEF FinishEffect

\* A row arrives.
ReceiveEffect(c, msg) ==
  /\ msg.txn \in Txns /\ msg.key \in Keys /\ c[1] \in Nodes /\ c[2] \in Nodes
  /\ c[3] \in Executors /\ c[1] # c[2]
  /\ reads[c] # <<>> /\ 1 \in DOMAIN reads[c] /\ reads[c][1] = msg
  /\ \A d \in Lanes : reads'[d] = IF d = c THEN Tail(reads[c]) ELSE reads[d]
  /\ \A o \in Nodes : \A u \in Txns :
       /\ remote'[o][u] = IF o = c[2] /\ u = msg.txn THEN remote[o][u] - 1
                                                     ELSE remote[o][u]
       /\ \A k \in Keys :
            input'[o][u][k] = IF o = c[2] /\ u = msg.txn /\ k = msg.key
                                THEN msg.val ELSE input[o][u][k]
  /\ dealt' = dealt /\ got' = got /\ queue' = queue /\ running' = running
  /\ local' = local /\ ran' = ran /\ lock' = lock /\ db' = db

LEMMA ReceiveFacts ==
  ASSUME LockInv, NEW c \in Lanes, ReadRequest(c), NEW msg, msg = Head(reads[c])
  PROVE  ReceiveEffect(c, msg)
<1>1. ScheduleTypeOK
  BY DEF LockInv
<1>2. /\ input' = [input EXCEPT ![c[2]][msg.txn][msg.key] = msg.val]
      /\ remote' = [remote EXCEPT ![c[2]][msg.txn] = @ - 1]
      /\ reads' = [reads EXCEPT ![c] = Tail(@)]
      /\ reads[c] # <<>>
      /\ UNCHANGED <<dealt, got, queue, running, local, ran, lock, db>>
  BY DEF ReadRequest
<1>3. /\ reads[c] \in Seq(ReadMsg)
      /\ c[1] \in Nodes /\ c[2] \in Nodes /\ c[3] \in Executors /\ c[1] # c[2]
  BY <1>1 DEF ScheduleTypeOK, ReadMsg, Lanes
<1>4. msg \in ReadMsg /\ 1 \in DOMAIN reads[c] /\ reads[c][1] = msg
  BY <1>2, <1>3
<1>5. msg.txn \in Txns /\ msg.key \in Keys
  BY <1>4 DEF ReadMsg
<1>6. \A d \in Lanes : reads'[d] = IF d = c THEN Tail(reads[c]) ELSE reads[d]
  BY <1>1, <1>2 DEF ScheduleTypeOK
<1>7. \A o \in Nodes : \A u \in Txns :
        remote'[o][u] = IF o = c[2] /\ u = msg.txn THEN remote[o][u] - 1 ELSE remote[o][u]
  <2>0. remote \in [Nodes -> [Txns -> Int]]
    BY <1>1 DEF ScheduleTypeOK
  <2>1. remote[c[2]][msg.txn] - 1 \in Int
    <3>1. remote[c[2]] \in [Txns -> Int]
      BY <1>3, <2>0
    <3>2. remote[c[2]][msg.txn] \in Int
      BY <1>5, <3>1
    <3> QED
      BY <3>2
  <2>2. \A o \in Nodes, u \in Txns :
          [remote EXCEPT ![c[2]][msg.txn] = remote[c[2]][msg.txn] - 1][o][u] =
            IF o = c[2] /\ u = msg.txn THEN remote[c[2]][msg.txn] - 1 ELSE remote[o][u]
    BY <1>3, <1>5, <2>0, <2>1, Replaced
  <2> QED
    BY <1>2, <2>2
<1>8. \A o \in Nodes : \A u \in Txns : \A k \in Keys :
        input'[o][u][k] = IF o = c[2] /\ u = msg.txn /\ k = msg.key
                            THEN msg.val ELSE input[o][u][k]
  <2> DEFINE t == msg.txn
             n == c[2]
             new == [input[n][t] EXCEPT ![msg.key] = msg.val]
  <2>1. input \in [Nodes -> [Txns -> [Keys -> Txns \cup {NoTxn}]]]
    BY <1>1 DEF ScheduleTypeOK
  <2>2. t \in Txns /\ n \in Nodes /\ msg.key \in Keys /\ msg.val \in Txns \cup {NoTxn}
    BY <1>3, <1>4 DEF ReadMsg
  <2>3. input[n][t] \in [Keys -> Txns \cup {NoTxn}]
    <3> HIDE DEF n, t
    <3>1. input[n] \in [Txns -> [Keys -> Txns \cup {NoTxn}]]
      BY <2>1, <2>2
    <3> QED
      BY <2>2, <3>1
  <2>4. new \in [Keys -> Txns \cup {NoTxn}]
        /\ \A k \in Keys : new[k] = IF k = msg.key THEN msg.val ELSE input[n][t][k]
    <3> HIDE DEF n, t
    <3> QED
      BY <2>2, <2>3 DEF new
  <2>5. input' = [input EXCEPT ![n][t] = new]
    BY <1>2
  <2> HIDE DEF n, t, new
  <2>6. \A o \in Nodes, u \in Txns :
          [input EXCEPT ![n][t] = new][o][u] = IF o = n /\ u = t THEN new ELSE input[o][u]
    BY <2>1, <2>2, <2>4, Replaced
  <2>7. ASSUME NEW o \in Nodes, NEW u \in Txns, NEW k \in Keys
        PROVE  input'[o][u][k] = IF o = n /\ u = t /\ k = msg.key
                                   THEN msg.val ELSE input[o][u][k]
    <3>1. CASE o = n /\ u = t
      BY <2>4, <2>5, <2>6, <3>1
    <3>2. CASE ~(o = n /\ u = t)
      BY <2>5, <2>6, <3>2
    <3> QED
      BY <3>1, <3>2
  <2> QED
    BY <2>7 DEF n, t
<1> QED
  BY <1>2, <1>3, <1>4, <1>5, <1>6, <1>7, <1>8 DEF ReceiveEffect

-----------------------------------------------------------------------------
(* Every transaction has one place with a manager.                         *)

Placed == DealtInOrder /\ GotForNext /\ HandedOut /\ HandedOutOnce

\* Whoever has a transaction of a manager, the manager has dealt it.
LEMMA HandedOutDealt ==
  ASSUME LockInv, NEW n \in Nodes, NEW m \in Managers, NEW t \in Txns
  PROVE  /\ Waits(n, m, t) \/ InHand(n, m, t) =>
              t \in dealt[n][m] /\ t \in todo[n] /\ RowsOf(t, n, m) # {}
         /\ ~(Waits(n, m, t) /\ InHand(n, m, t))
<1>1. DealtInOrder /\ HandedOut /\ HandedOutOnce /\ NoTxn \notin Txns
  BY OrderAssumption DEF LockInv
<1>2. Waits(n, m, t) \/ InHand(n, m, t) => t \in dealt[n][m] /\ RowsOf(t, n, m) # {}
  BY <1>1 DEF HandedOut, Waits, InHand
<1>3. dealt[n][m] \subseteq todo[n]
  BY <1>1 DEF DealtInOrder
<1>4. ~(Waits(n, m, t) /\ InHand(n, m, t))
  BY <1>1 DEF HandedOutOnce, Waits, InHand
<1> QED
  BY <1>2, <1>3, <1>4

LEMMA AtHandKept ==
  ASSUME NEW n \in Nodes, NEW m \in Managers, dealt'[n][m] = dealt[n][m], todo' = todo
  PROVE  \A t : AtHand(n, m, t)' <=> AtHand(n, m, t)
  BY DEF AtHand, Earlier

LEMMA GrantPlaces ==
  ASSUME LockInv, UNCHANGED <<prog, todo>>,
         NEW n \in Nodes, NEW m \in Managers, NEW t \in Txns, NEW k \in Keys, Grant(n, m, t, k)
  PROVE  /\ Placed'
         /\ \A o, p, u : (Waits(o, p, u)' <=> Waits(o, p, u)) /\ (InHand(o, p, u)' <=> InHand(o, p, u))
<1>0. GrantEffect(n, m, t, k)
  BY GrantFacts
<1>1. /\ AtHand(n, m, t) /\ k \in RowsOf(t, n, m) \ got[n][m]
      /\ \A o \in Nodes, p \in Managers :
           got'[o][p] = IF o = n /\ p = m THEN got[n][m] \cup {k} ELSE got[o][p]
      /\ dealt' = dealt /\ queue' = queue /\ running' = running
  BY <1>0 DEF GrantEffect
<1>2. DealtInOrder' /\ HandedOut' /\ HandedOutOnce'
  BY <1>1 DEF LockInv, DealtInOrder, HandedOut, HandedOutOnce, RowsOf, RowsAt, Earlier
<1>3. ASSUME NEW o \in Nodes, NEW p \in Managers, got'[o][p] # {}
      PROVE  \E u \in Txns : AtHand(o, p, u)' /\ got'[o][p] \subseteq RowsOf(u, o, p)'
  <2>1. \A u : (AtHand(o, p, u)' <=> AtHand(o, p, u)) /\ RowsOf(u, o, p)' = RowsOf(u, o, p)
    BY <1>1, AtHandKept DEF RowsOf, RowsAt
  <2>2. got[o][p] # {} => \E u \in Txns : AtHand(o, p, u) /\ got[o][p] \subseteq RowsOf(u, o, p)
    BY DEF LockInv, GotForNext
  <2>3. CASE o = n /\ p = m
    <3>1. got[n][m] \subseteq RowsOf(t, n, m)
      BY <1>1, <2>2, <2>3, OneAtHand
    <3> QED
      BY <1>1, <2>1, <2>3, <3>1
  <2>4. CASE ~(o = n /\ p = m)
    BY <1>1, <1>3, <2>1, <2>2, <2>4
  <2> QED
    BY <2>3, <2>4
<1>4. GotForNext'
  BY <1>3 DEF GotForNext
<1>5. \A o, p, u : (Waits(o, p, u)' <=> Waits(o, p, u)) /\ (InHand(o, p, u)' <=> InHand(o, p, u))
  BY <1>1 DEF Waits, InHand
<1> QED
  BY <1>2, <1>4, <1>5 DEF Placed

LEMMA AssignPlaces ==
  ASSUME LockInv, ProgTypes, UNCHANGED <<prog, todo>>,
         NEW n \in Nodes, NEW m \in Managers, NEW t \in Txns, Assign(n, m, t)
  PROVE  /\ Placed'
         /\ \A o \in Nodes, p \in Managers, u \in Txns :
              /\ InHand(o, p, u)' <=> InHand(o, p, u)
              /\ Waits(o, p, u)' <=>
                   Waits(o, p, u) \/ (o = n /\ p = m /\ u = t /\ RowsOf(t, n, m) # {})
<1>0. AssignEffect(n, m, t)
  BY AssignFacts
<1>1. /\ AtHand(n, m, t) /\ got[n][m] = RowsOf(t, n, m)
      /\ \A o \in Nodes, p \in Managers :
              /\ dealt'[o][p] = IF o = n /\ p = m THEN dealt[n][m] \cup {t} ELSE dealt[o][p]
              /\ got'[o][p] = IF o = n /\ p = m THEN {} ELSE got[o][p]
      /\ running' = running
  BY <1>0 DEF AssignEffect
<1>2. PICK w \in Executors :
        /\ Serves(w) = m
        /\ \A o \in Nodes, v \in Executors :
             queue'[o][v] = IF got[n][m] # {} /\ o = n /\ v = w
                              THEN Append(queue[n][w], t) ELSE queue[o][v]
  BY <1>0 DEF AssignEffect
<1>3. /\ DealtInOrder /\ GotForNext /\ HandedOut /\ HandedOutOnce /\ ScheduleTypeOK
      /\ t \in todo[n] /\ t \notin dealt[n][m]
      /\ \A u \in todo[n] \ dealt[n][m] : u = t \/ Earlier(t, u)
  BY <1>1 DEF LockInv, AtHand
<1>4. DealtInOrder'
  <2>1. ASSUME NEW o \in Nodes, NEW p \in Managers
        PROVE  /\ dealt'[o][p] \subseteq todo[o]
               /\ \A x \in dealt'[o][p], u \in todo[o] :
                    u # x => Earlier(x, u) \/ (u \in dealt'[o][p] /\ Earlier(u, x))
    BY <1>1, <1>3 DEF DealtInOrder
  <2> QED
    BY <2>1 DEF DealtInOrder, Earlier
<1>5. GotForNext'
  <2>1. ASSUME NEW o \in Nodes, NEW p \in Managers, got'[o][p] # {}
        PROVE  \E u \in Txns : AtHand(o, p, u)' /\ got'[o][p] \subseteq RowsOf(u, o, p)'
    <3>1. dealt'[o][p] = dealt[o][p] /\ got'[o][p] = got[o][p]
      BY <1>1, <2>1
    <3>2. \A u : (AtHand(o, p, u)' <=> AtHand(o, p, u)) /\ RowsOf(u, o, p)' = RowsOf(u, o, p)
      BY <3>1, AtHandKept DEF RowsOf, RowsAt
    <3> QED
      BY <1>3, <2>1, <3>1, <3>2 DEF GotForNext
  <2> QED
    BY <2>1 DEF GotForNext
<1>6. \A o \in Nodes, v \in Executors :
        /\ queue[o][v] \in Seq(Txns)
        /\ DOMAIN queue'[o][v] = IF got[n][m] # {} /\ o = n /\ v = w
                                   THEN 1..Len(queue[n][w]) + 1 ELSE 1..Len(queue[o][v])
        /\ \A i \in DOMAIN queue'[o][v] :
             queue'[o][v][i] = IF got[n][m] # {} /\ o = n /\ v = w /\ i = Len(queue[n][w]) + 1
                                 THEN t ELSE queue[o][v][i]
        /\ Len(queue[o][v]) \in Nat /\ DOMAIN queue[o][v] = 1..Len(queue[o][v])
  <2>1. ASSUME NEW o \in Nodes, NEW v \in Executors
        PROVE  queue[o][v] \in Seq(Txns)
    BY <1>3, QueueFacts
  <2>2. \A s \in Seq(Txns) : /\ Len(s) \in Nat /\ DOMAIN s = 1..Len(s)
                             /\ DOMAIN Append(s, t) = 1..Len(s) + 1
                             /\ \A i \in 1..Len(s) + 1 :
                                  Append(s, t)[i] = IF i = Len(s) + 1 THEN t ELSE s[i]
    OBVIOUS
  <2>3. ASSUME NEW o \in Nodes, NEW v \in Executors
        PROVE  /\ DOMAIN queue'[o][v] = IF got[n][m] # {} /\ o = n /\ v = w
                                          THEN 1..Len(queue[n][w]) + 1 ELSE 1..Len(queue[o][v])
               /\ \A i \in DOMAIN queue'[o][v] :
                    queue'[o][v][i] = IF got[n][m] # {} /\ o = n /\ v = w /\ i = Len(queue[n][w]) + 1
                                        THEN t ELSE queue[o][v][i]
    <3>1. CASE got[n][m] # {} /\ o = n /\ v = w
      <4>1. queue'[o][v] = Append(queue[n][w], t)
        BY <1>2, <3>1
      <4> QED
        BY <2>1, <2>2, <3>1, <4>1
    <3>2. CASE ~(got[n][m] # {} /\ o = n /\ v = w)
      <4>1. queue'[o][v] = queue[o][v]
        BY <1>2, <3>2
      <4> QED
        BY <2>1, <2>2, <3>2, <4>1
    <3> QED
      BY <3>1, <3>2
  <2> QED
    BY <2>1, <2>2, <2>3
<1>7. \A o \in Nodes, v \in Executors : \A i \in DOMAIN queue[o][v] :
        i # Len(queue[o][v]) + 1 /\ i \in DOMAIN queue'[o][v] /\ queue'[o][v][i] = queue[o][v][i]
  BY <1>6
<1>8. HandedOut'
  <2>1. ASSUME NEW o \in Nodes, NEW v \in Executors
        PROVE  /\ running'[o][v] # NoTxn =>
                    /\ running'[o][v] \in dealt'[o][Serves(v)]
                    /\ RowsOf(running[o][v], o, Serves(v))' # {}
               /\ \A i \in DOMAIN queue'[o][v] :
                    /\ queue'[o][v][i] \in dealt'[o][Serves(v)]
                    /\ RowsOf(queue[o][v][i], o, Serves(v))' # {}
    <3>1. Serves(v) \in Managers
      BY WorkersServe
    <3>2. \A u : RowsOf(u, o, Serves(v))' = RowsOf(u, o, Serves(v))
      BY DEF RowsOf, RowsAt
    <3>3. dealt[o][Serves(v)] \subseteq dealt'[o][Serves(v)]
      BY <1>1, <3>1
    <3>4. ASSUME NEW i \in DOMAIN queue'[o][v]
          PROVE  /\ queue'[o][v][i] \in dealt'[o][Serves(v)]
                 /\ RowsOf(queue'[o][v][i], o, Serves(v)) # {}
      <4>1. CASE got[n][m] # {} /\ o = n /\ v = w /\ i = Len(queue[n][w]) + 1
        BY <1>1, <1>2, <1>6, <4>1
      <4>2. CASE ~(got[n][m] # {} /\ o = n /\ v = w /\ i = Len(queue[n][w]) + 1)
        <5>1. i \in DOMAIN queue[o][v] /\ queue'[o][v][i] = queue[o][v][i]
          BY <1>6, <4>2
        <5> QED
          BY <1>3, <3>3, <5>1 DEF HandedOut
      <4> QED
        BY <4>1, <4>2
    <3>5. running'[o][v] # NoTxn =>
            running'[o][v] \in dealt'[o][Serves(v)] /\ RowsOf(running'[o][v], o, Serves(v)) # {}
      BY <1>1, <1>3, <3>3 DEF HandedOut
    <3> QED
      BY <3>2, <3>4, <3>5
  <2> QED
    BY <2>1 DEF HandedOut
<1>9. HandedOutOnce'
  <2>1. ASSUME NEW o \in Nodes, NEW v \in Executors, NEW x \in Executors, Serves(v) = Serves(x)
        PROVE  /\ running'[o][v] # NoTxn /\ running'[o][v] = running'[o][x] => v = x
               /\ \A i \in DOMAIN queue'[o][v] : queue'[o][v][i] # running'[o][x]
               /\ \A i \in DOMAIN queue'[o][v], j \in DOMAIN queue'[o][x] :
                    queue'[o][v][i] = queue'[o][x][j] => v = x /\ i = j
    <3>1. /\ running[o][x] = t => t \in dealt[o][Serves(x)]
          /\ \A i \in DOMAIN queue[o][v] : queue[o][v][i] \in dealt[o][Serves(x)]
          /\ \A i \in DOMAIN queue[o][x] : queue[o][x][i] \in dealt[o][Serves(x)]
      BY <1>3, <2>1, OrderAssumption DEF HandedOut
    <3>2. ASSUME NEW i \in DOMAIN queue'[o][v] PROVE queue'[o][v][i] # running'[o][x]
      BY <1>1, <1>2, <1>3, <1>6, <2>1, <3>1 DEF HandedOutOnce
    <3>3. ASSUME NEW i \in DOMAIN queue'[o][v], NEW j \in DOMAIN queue'[o][x],
                 queue'[o][v][i] = queue'[o][x][j]
          PROVE  v = x /\ i = j
      <4>1. CASE got[n][m] # {} /\ o = n /\ v = w /\ i = Len(queue[n][w]) + 1
        BY <1>2, <1>3, <1>6, <2>1, <3>1, <3>3, <4>1
      <4>2. CASE got[n][m] # {} /\ o = n /\ x = w /\ j = Len(queue[n][w]) + 1
        BY <1>2, <1>3, <1>6, <2>1, <3>1, <3>3, <4>2
      <4>3. CASE /\ ~(got[n][m] # {} /\ o = n /\ v = w /\ i = Len(queue[n][w]) + 1)
                 /\ ~(got[n][m] # {} /\ o = n /\ x = w /\ j = Len(queue[n][w]) + 1)
        <5>1. /\ i \in DOMAIN queue[o][v] /\ queue'[o][v][i] = queue[o][v][i]
              /\ j \in DOMAIN queue[o][x] /\ queue'[o][x][j] = queue[o][x][j]
          BY <1>6, <4>3
        <5>2. queue[o][v][i] = queue[o][x][j]
          BY <3>3, <5>1
        <5> QED
          BY <1>3, <2>1, <5>1, <5>2 DEF HandedOutOnce
      <4> QED
        BY <4>1, <4>2, <4>3
    <3> QED
      BY <1>1, <1>3, <2>1, <3>2, <3>3 DEF HandedOutOnce
  <2> QED
    BY <2>1 DEF HandedOutOnce
<1>10. ASSUME NEW o \in Nodes, NEW p \in Managers, NEW u \in Txns
       PROVE  /\ InHand(o, p, u)' <=> InHand(o, p, u)
              /\ Waits(o, p, u)' <=>
                   Waits(o, p, u) \/ (o = n /\ p = m /\ u = t /\ RowsOf(t, n, m) # {})
  <2>1. InHand(o, p, u)' <=> InHand(o, p, u)
    BY <1>1 DEF InHand
  <2>2. Waits(o, p, u) => Waits(o, p, u)'
    BY <1>7 DEF Waits
  <2>3. o = n /\ p = m /\ u = t /\ RowsOf(t, n, m) # {} => Waits(o, p, u)'
    <3> SUFFICES ASSUME o = n, p = m, u = t, RowsOf(t, n, m) # {}
                 PROVE  Waits(o, p, u)'
      OBVIOUS
    <3>1. Len(queue[n][w]) + 1 \in DOMAIN queue'[n][w] /\ queue'[n][w][Len(queue[n][w]) + 1] = t
      BY <1>1, <1>6
    <3> QED
      BY <1>2, <3>1 DEF Waits
  <2>4. Waits(o, p, u)' => Waits(o, p, u) \/ (o = n /\ p = m /\ u = t /\ RowsOf(t, n, m) # {})
    <3> SUFFICES ASSUME NEW v \in Executors, Serves(v) = p,
                        NEW i \in DOMAIN queue'[o][v], queue'[o][v][i] = u
                 PROVE  Waits(o, p, u) \/ (o = n /\ p = m /\ u = t /\ RowsOf(t, n, m) # {})
      BY DEF Waits
    <3>1. CASE got[n][m] # {} /\ o = n /\ v = w /\ i = Len(queue[n][w]) + 1
      BY <1>1, <1>2, <1>6, <3>1
    <3>2. CASE ~(got[n][m] # {} /\ o = n /\ v = w /\ i = Len(queue[n][w]) + 1)
      <4>1. i \in DOMAIN queue[o][v] /\ queue'[o][v][i] = queue[o][v][i]
        BY <1>6, <3>2
      <4> QED
        BY <4>1 DEF Waits
    <3> QED
      BY <3>1, <3>2
  <2> QED
    BY <2>1, <2>2, <2>3, <2>4
<1> QED
  BY <1>4, <1>5, <1>8, <1>9, <1>10 DEF Placed

LEMMA BeginPlaces ==
  ASSUME LockInv, ProgTypes, UNCHANGED <<prog, todo>>,
         NEW n \in Nodes, NEW w \in Executors, NEW t, BeginEffect(n, w, t)
  PROVE  /\ Placed'
         /\ Waits(n, Serves(w), t)
         /\ \A o \in Nodes, p \in Managers, u \in Txns :
              /\ InHand(o, p, u)' <=> InHand(o, p, u) \/ (o = n /\ p = Serves(w) /\ u = t)
              /\ Waits(o, p, u)' <=> Waits(o, p, u) /\ ~(o = n /\ p = Serves(w) /\ u = t)
<1> DEFINE Shift(o, v, i) == IF o = n /\ v = w THEN i + 1 ELSE i
<1>1. /\ t \in Txns /\ running[n][w] = NoTxn /\ NoTxn \notin Txns
      /\ 1 \in DOMAIN queue[n][w] /\ queue[n][w][1] = t
      /\ dealt' = dealt /\ got' = got
      /\ DealtInOrder /\ GotForNext /\ HandedOut /\ HandedOutOnce /\ ScheduleTypeOK
  BY OrderAssumption DEF BeginEffect, LockInv
<1>2. \A o \in Nodes, v \in Executors :
        running'[o][v] = IF o = n /\ v = w THEN t ELSE running[o][v]
  BY DEF BeginEffect
<1>3. ASSUME NEW o \in Nodes, NEW v \in Executors
      PROVE  /\ \A i \in DOMAIN queue'[o][v] :
                  /\ Shift(o, v, i) \in DOMAIN queue[o][v]
                  /\ queue'[o][v][i] = queue[o][v][Shift(o, v, i)]
                  /\ ~(o = n /\ v = w /\ Shift(o, v, i) = 1)
             /\ \A i, j \in DOMAIN queue'[o][v] : Shift(o, v, i) = Shift(o, v, j) => i = j
             /\ \A j \in DOMAIN queue[o][v] : ~(o = n /\ v = w /\ j = 1) =>
                  \E i \in DOMAIN queue'[o][v] : queue'[o][v][i] = queue[o][v][j]
  <2>1. queue[o][v] \in Seq(Txns)
    BY <1>1, QueueFacts
  <2>2. CASE o = n /\ v = w
    <3>1. queue'[o][v] = Tail(queue[o][v]) /\ queue[o][v] # <<>>
      BY <2>2 DEF BeginEffect
    <3>2. /\ Len(queue[o][v]) \in Nat \ {0} /\ DOMAIN queue[o][v] = 1..Len(queue[o][v])
          /\ DOMAIN queue'[o][v] = 1..Len(queue[o][v]) - 1
          /\ \A i \in 1..Len(queue[o][v]) - 1 : queue'[o][v][i] = queue[o][v][i + 1]
      BY <2>1, <3>1
    <3>3. ASSUME NEW j \in DOMAIN queue[o][v], j # 1
          PROVE  \E i \in DOMAIN queue'[o][v] : queue'[o][v][i] = queue[o][v][j]
      <4>1. j - 1 \in DOMAIN queue'[o][v] /\ (j - 1) + 1 = j
        BY <3>2, <3>3
      <4> QED
        BY <3>2, <4>1
    <3> QED
      BY <2>2, <3>2, <3>3
  <2>3. CASE ~(o = n /\ v = w)
    <3>1. queue'[o][v] = queue[o][v]
      BY <2>3 DEF BeginEffect
    <3> QED
      BY <2>3, <3>1
  <2> QED
    BY <2>2, <2>3
<1> HIDE DEF Shift
<1>4. DealtInOrder'
  BY <1>1 DEF DealtInOrder, Earlier
<1>5. GotForNext'
  <2>1. \A o \in Nodes, p \in Managers : \A u :
          (AtHand(o, p, u)' <=> AtHand(o, p, u)) /\ RowsOf(u, o, p)' = RowsOf(u, o, p)
    BY <1>1, AtHandKept DEF RowsOf, RowsAt
  <2> QED
    BY <1>1, <2>1 DEF GotForNext
<1>6. HandedOut'
  <2>1. ASSUME NEW o \in Nodes, NEW v \in Executors
        PROVE  /\ running'[o][v] # NoTxn =>
                    /\ running'[o][v] \in dealt[o][Serves(v)]
                    /\ RowsOf(running'[o][v], o, Serves(v)) # {}
               /\ \A i \in DOMAIN queue'[o][v] :
                    /\ queue'[o][v][i] \in dealt[o][Serves(v)]
                    /\ RowsOf(queue'[o][v][i], o, Serves(v)) # {}
    BY <1>1, <1>2, <1>3 DEF HandedOut
  <2>2. \A u, o, p : RowsOf(u, o, p)' = RowsOf(u, o, p)
    BY DEF RowsOf, RowsAt
  <2>3. \A o \in Nodes, v \in Executors :
          /\ running'[o][v] # NoTxn =>
               /\ running'[o][v] \in dealt'[o][Serves(v)]
               /\ RowsOf(running[o][v], o, Serves(v))' # {}
          /\ \A i \in DOMAIN queue'[o][v] :
               /\ queue'[o][v][i] \in dealt'[o][Serves(v)]
               /\ RowsOf(queue[o][v][i], o, Serves(v))' # {}
    BY <1>1, <2>1 DEF RowsOf, RowsAt
  <2> QED
    BY <2>3 DEF HandedOut
<1>7. HandedOutOnce'
  <2>1. ASSUME NEW o \in Nodes, NEW v \in Executors, NEW x \in Executors, Serves(v) = Serves(x)
        PROVE  /\ running'[o][v] # NoTxn /\ running'[o][v] = running'[o][x] => v = x
               /\ \A i \in DOMAIN queue'[o][v] : queue'[o][v][i] # running'[o][x]
               /\ \A i \in DOMAIN queue'[o][v], j \in DOMAIN queue'[o][x] :
                    queue'[o][v][i] = queue'[o][x][j] => v = x /\ i = j
    <3>1. /\ running[o][v] # NoTxn /\ running[o][v] = running[o][x] => v = x
          /\ \A i \in DOMAIN queue[o][v] : queue[o][v][i] # running[o][x]
          /\ \A i \in DOMAIN queue[o][x] : queue[o][x][i] # running[o][v]
          /\ \A i \in DOMAIN queue[o][v], j \in DOMAIN queue[o][x] :
               queue[o][v][i] = queue[o][x][j] => v = x /\ i = j
      BY <1>1, <2>1 DEF HandedOutOnce
    <3>2. running'[o][v] # NoTxn /\ running'[o][v] = running'[o][x] => v = x
      BY <1>1, <1>2, <3>1
    <3>3. ASSUME NEW i \in DOMAIN queue'[o][v] PROVE queue'[o][v][i] # running'[o][x]
      <4>1. Shift(o, v, i) \in DOMAIN queue[o][v] /\ queue'[o][v][i] = queue[o][v][Shift(o, v, i)]
            /\ ~(o = n /\ v = w /\ Shift(o, v, i) = 1)
        BY <1>3, <3>3
      <4>2. CASE o = n /\ x = w
        BY <1>1, <1>2, <3>1, <4>1, <4>2
      <4>3. CASE ~(o = n /\ x = w)
        BY <1>2, <3>1, <4>1, <4>3
      <4> QED
        BY <4>2, <4>3
    <3>4. ASSUME NEW i \in DOMAIN queue'[o][v], NEW j \in DOMAIN queue'[o][x],
                 queue'[o][v][i] = queue'[o][x][j]
          PROVE  v = x /\ i = j
      <4>1. /\ Shift(o, v, i) \in DOMAIN queue[o][v] /\ Shift(o, x, j) \in DOMAIN queue[o][x]
            /\ queue[o][v][Shift(o, v, i)] = queue[o][x][Shift(o, x, j)]
        BY <1>3, <3>4
      <4>2. v = x /\ Shift(o, v, i) = Shift(o, x, j)
        BY <3>1, <4>1
      <4> QED
        BY <1>3, <4>2
    <3> QED
      BY <3>2, <3>3, <3>4
  <2> QED
    BY <2>1 DEF HandedOutOnce
<1>8. Waits(n, Serves(w), t)
  BY <1>1 DEF Waits
<1>9. ASSUME NEW o \in Nodes, NEW p \in Managers, NEW u \in Txns
      PROVE  InHand(o, p, u)' <=> InHand(o, p, u) \/ (o = n /\ p = Serves(w) /\ u = t)
  <2>1. InHand(o, p, u)' <=> \E v \in Executors : Serves(v) = p /\ running'[o][v] = u
    BY DEF InHand, Serves
  <2>2. InHand(o, p, u) <=> \E v \in Executors : Serves(v) = p /\ running[o][v] = u
    BY DEF InHand
  <2> QED
    BY <1>1, <1>2, <2>1, <2>2
<1>10. ASSUME NEW o \in Nodes, NEW p \in Managers, NEW u \in Txns
       PROVE  Waits(o, p, u)' <=> Waits(o, p, u) /\ ~(o = n /\ p = Serves(w) /\ u = t)
  <2>1. Waits(o, p, u)' <=>
          \E v \in Executors : Serves(v) = p /\ \E i \in DOMAIN queue'[o][v] : queue'[o][v][i] = u
    BY DEF Waits, Serves
  <2>2. Waits(o, p, u) <=>
          \E v \in Executors : Serves(v) = p /\ \E i \in DOMAIN queue[o][v] : queue[o][v][i] = u
    BY DEF Waits
  <2>3. ASSUME NEW v \in Executors, Serves(v) = p, NEW i \in DOMAIN queue'[o][v], queue'[o][v][i] = u
        PROVE  Waits(o, p, u) /\ ~(o = n /\ p = Serves(w) /\ u = t)
    <3>1. /\ Shift(o, v, i) \in DOMAIN queue[o][v] /\ queue[o][v][Shift(o, v, i)] = u
          /\ ~(o = n /\ v = w /\ Shift(o, v, i) = 1)
      BY <1>3, <2>3
    <3>2. Waits(o, p, u)
      BY <2>2, <2>3, <3>1
    <3>3. CASE o = n /\ p = Serves(w) /\ u = t
      <4>1. v = w /\ Shift(o, v, i) = 1
        BY <1>1, <2>3, <3>1, <3>3 DEF HandedOutOnce
      <4> QED
        BY <3>1, <3>3, <4>1
    <3> QED
      BY <3>2, <3>3
  <2>4. ASSUME NEW v \in Executors, Serves(v) = p, NEW j \in DOMAIN queue[o][v], queue[o][v][j] = u,
               ~(o = n /\ p = Serves(w) /\ u = t)
        PROVE  Waits(o, p, u)'
    <3>1. ~(o = n /\ v = w /\ j = 1)
      BY <1>1, <2>4
    <3>2. PICK i \in DOMAIN queue'[o][v] : queue'[o][v][i] = queue[o][v][j]
      BY <1>3, <3>1
    <3> QED
      BY <2>1, <2>4, <3>2
  <2> QED
    BY <2>1, <2>2, <2>3, <2>4
<1> QED
  BY <1>4, <1>5, <1>6, <1>7, <1>8, <1>9, <1>10 DEF Placed

LEMMA FinishPlaces ==
  ASSUME LockInv, UNCHANGED <<prog, todo>>,
         NEW n \in Nodes, NEW w \in Executors, NEW t, t = running[n][w], FinishEffect(n, w, t)
  PROVE  /\ Placed'
         /\ InHand(n, Serves(w), t)
         /\ \A o \in Nodes, p \in Managers, u \in Txns :
              /\ InHand(o, p, u)' <=> InHand(o, p, u) /\ ~(o = n /\ p = Serves(w) /\ u = t)
              /\ Waits(o, p, u)' <=> Waits(o, p, u)
<1>1. /\ t \in Txns /\ NoTxn \notin Txns
      /\ \A o \in Nodes, v \in Executors :
           running'[o][v] = IF o = n /\ v = w THEN NoTxn ELSE running[o][v]
      /\ dealt' = dealt /\ got' = got /\ queue' = queue
      /\ DealtInOrder /\ GotForNext /\ HandedOut /\ HandedOutOnce /\ ScheduleTypeOK
  BY OrderAssumption DEF FinishEffect, LockInv
<1>2. DealtInOrder'
  BY <1>1 DEF DealtInOrder, Earlier
<1>3. GotForNext'
  <2>1. \A o \in Nodes, p \in Managers : \A u :
          (AtHand(o, p, u)' <=> AtHand(o, p, u)) /\ RowsOf(u, o, p)' = RowsOf(u, o, p)
    BY <1>1, AtHandKept DEF RowsOf, RowsAt
  <2> QED
    BY <1>1, <2>1 DEF GotForNext
<1>4. HandedOut'
  BY <1>1 DEF HandedOut, RowsOf, RowsAt
<1>5. HandedOutOnce'
  <2>1. ASSUME NEW o \in Nodes, NEW v \in Executors, NEW x \in Executors, Serves(v) = Serves(x)
        PROVE  /\ running'[o][v] # NoTxn /\ running'[o][v] = running'[o][x] => v = x
               /\ \A i \in DOMAIN queue[o][v] : queue[o][v][i] # running'[o][x]
               /\ \A i \in DOMAIN queue[o][v], j \in DOMAIN queue[o][x] :
                    queue[o][v][i] = queue[o][x][j] => v = x /\ i = j
    <3>1. \A i \in DOMAIN queue[o][v] : queue[o][v][i] # NoTxn
      BY <1>1, QueueFacts
    <3> QED
      BY <1>1, <2>1, <3>1 DEF HandedOutOnce
  <2> QED
    BY <1>1, <2>1 DEF HandedOutOnce
<1>6. InHand(n, Serves(w), t)
  BY DEF InHand
<1>7. ASSUME NEW o \in Nodes, NEW p \in Managers, NEW u \in Txns
      PROVE  /\ InHand(o, p, u)' <=> InHand(o, p, u) /\ ~(o = n /\ p = Serves(w) /\ u = t)
             /\ Waits(o, p, u)' <=> Waits(o, p, u)
  <2>1. InHand(o, p, u)' <=> \E v \in Executors : Serves(v) = p /\ running'[o][v] = u
    BY DEF InHand, Serves
  <2>2. InHand(o, p, u) <=> \E v \in Executors : Serves(v) = p /\ running[o][v] = u
    BY DEF InHand
  <2>3. \A v \in Executors : Serves(v) = Serves(w) /\ running[n][v] = t => v = w
    BY <1>1 DEF HandedOutOnce
  <2>4. Waits(o, p, u)' <=> Waits(o, p, u)
    BY <1>1 DEF Waits
  <2> QED
    BY <1>1, <2>1, <2>2, <2>3, <2>4
<1> QED
  BY <1>2, <1>3, <1>4, <1>5, <1>6, <1>7 DEF Placed

LEMMA ReceivePlaces ==
  ASSUME LockInv, UNCHANGED <<prog, todo>>, NEW c, NEW msg, ReceiveEffect(c, msg)
  PROVE  /\ Placed'
         /\ \A o, p, u : (Waits(o, p, u)' <=> Waits(o, p, u)) /\ (InHand(o, p, u)' <=> InHand(o, p, u))
<1>1. /\ dealt' = dealt /\ got' = got /\ queue' = queue /\ running' = running
      /\ DealtInOrder /\ GotForNext /\ HandedOut /\ HandedOutOnce
  BY DEF ReceiveEffect, LockInv
<1>2. DealtInOrder' /\ HandedOut' /\ HandedOutOnce'
  BY <1>1 DEF DealtInOrder, Earlier, HandedOut, HandedOutOnce, RowsOf, RowsAt
<1>3. GotForNext'
  <2>1. \A o \in Nodes, p \in Managers : \A u :
          (AtHand(o, p, u)' <=> AtHand(o, p, u)) /\ RowsOf(u, o, p)' = RowsOf(u, o, p)
    BY <1>1, AtHandKept DEF RowsOf, RowsAt
  <2> QED
    BY <1>1, <2>1 DEF GotForNext
<1> QED
  BY <1>1, <1>2, <1>3 DEF Placed, Waits, InHand

-----------------------------------------------------------------------------
(* Who holds a row after each step.                                        *)

LEMMA HoldsIff ==
  ASSUME NEW t, NEW k
  PROVE  Holds(t, k) <=>
           /\ k \in prog[t].reads
           /\ \/ AtHand(Owner[k], ManagerOf[k], t) /\ k \in got[Owner[k]][ManagerOf[k]]
              \/ InHand(Owner[k], ManagerOf[k], t)
              \/ Waits(Owner[k], ManagerOf[k], t)
  BY DEF Holds, InHand, Waits

LEMMA HoldsIffNext ==
  ASSUME NEW t, NEW k
  PROVE  Holds(t, k)' <=>
           /\ k \in prog'[t].reads
           /\ \/ AtHand(Owner[k], ManagerOf[k], t)' /\ k \in got'[Owner[k]][ManagerOf[k]]
              \/ InHand(Owner[k], ManagerOf[k], t)'
              \/ Waits(Owner[k], ManagerOf[k], t)'
  BY DEF Holds, InHand, Waits, AtHand, Serves

LEMMA RowPlace ==
  ASSUME NEW k \in Keys
  PROVE  Owner[k] \in Nodes /\ ManagerOf[k] \in Managers
  BY LayoutAssumption

LEMMA GrantHolds ==
  ASSUME LockInv, ProgTypes, UNCHANGED <<prog, todo>>,
         NEW n \in Nodes, NEW m \in Managers, NEW t \in Txns, NEW k \in Keys, Grant(n, m, t, k)
  PROVE  /\ ~Holds(t, k) /\ k \in prog[t].reads
         /\ \A u \in Txns, j \in Keys : Holds(u, j)' <=> Holds(u, j) \/ (u = t /\ j = k)
<1>0. GrantEffect(n, m, t, k)
  BY GrantFacts
<1>1. /\ AtHand(n, m, t) /\ k \in RowsOf(t, n, m) \ got[n][m]
      /\ \A o \in Nodes, p \in Managers :
           got'[o][p] = IF o = n /\ p = m THEN got[n][m] \cup {k} ELSE got[o][p]
      /\ dealt' = dealt
  BY <1>0 DEF GrantEffect
<1>2. Owner[k] = n /\ ManagerOf[k] = m /\ k \in prog[t].reads /\ t \notin dealt[n][m]
  BY <1>1 DEF RowsOf, RowsAt, AtHand
<1>3. ~Holds(t, k)
  BY <1>1, <1>2, HoldsIff, HandedOutDealt
<1>4. ASSUME NEW u \in Txns, NEW j \in Keys
      PROVE  Holds(u, j)' <=> Holds(u, j) \/ (u = t /\ j = k)
  <2> DEFINE o == Owner[j]
             p == ManagerOf[j]
  <2>1. o \in Nodes /\ p \in Managers
    BY RowPlace
  <2>2. /\ Waits(o, p, u)' <=> Waits(o, p, u)
        /\ InHand(o, p, u)' <=> InHand(o, p, u)
        /\ AtHand(o, p, u)' <=> AtHand(o, p, u)
    BY <1>1, <2>1, AtHandKept, GrantPlaces
  <2>3. j \in got'[o][p] <=> j \in got[o][p] \/ j = k
    BY <1>1, <1>2, <2>1
  <2>4. j = k /\ AtHand(o, p, u) => u = t
    BY <1>1, <1>2, OneAtHand
  <2> QED
    BY <1>1, <1>2, <2>2, <2>3, <2>4, HoldsIff, HoldsIffNext
<1> QED
  BY <1>2, <1>3, <1>4

LEMMA AssignHolds ==
  ASSUME LockInv, ProgTypes, UNCHANGED <<prog, todo>>,
         NEW n \in Nodes, NEW m \in Managers, NEW t \in Txns, Assign(n, m, t)
  PROVE  \A u \in Txns, j \in Keys : Holds(u, j)' <=> Holds(u, j)
<1>0. AssignEffect(n, m, t)
  BY AssignFacts
<1>1. /\ AtHand(n, m, t) /\ got[n][m] = RowsOf(t, n, m)
      /\ \A o \in Nodes, p \in Managers :
              /\ dealt'[o][p] = IF o = n /\ p = m THEN dealt[n][m] \cup {t} ELSE dealt[o][p]
              /\ got'[o][p] = IF o = n /\ p = m THEN {} ELSE got[o][p]
  BY <1>0 DEF AssignEffect
<1>2. ASSUME NEW u \in Txns, NEW j \in Keys
      PROVE  Holds(u, j)' <=> Holds(u, j)
  <2> DEFINE o == Owner[j]
             p == ManagerOf[j]
  <2>1. o \in Nodes /\ p \in Managers
    BY RowPlace
  <2>2. /\ InHand(o, p, u)' <=> InHand(o, p, u)
        /\ Waits(o, p, u)' <=> Waits(o, p, u) \/ (o = n /\ p = m /\ u = t /\ RowsOf(t, n, m) # {})
    BY <2>1, AssignPlaces
  <2>3. CASE o = n /\ p = m
    <3>1. j \notin got'[o][p]
      BY <1>1, <2>1, <2>3
    <3>2. j \in prog[u].reads /\ u = t <=> j \in RowsOf(t, n, m) /\ u = t
      BY <2>3 DEF RowsOf, RowsAt
    <3>3. AtHand(o, p, u) => u = t
      BY <1>1, <2>3, OneAtHand
    <3> QED
      BY <1>1, <2>2, <2>3, <3>1, <3>2, <3>3, HoldsIff, HoldsIffNext
  <2>4. CASE ~(o = n /\ p = m)
    <3>1. dealt'[o][p] = dealt[o][p] /\ got'[o][p] = got[o][p]
      BY <1>1, <2>1, <2>4
    <3>2. AtHand(o, p, u)' <=> AtHand(o, p, u)
      BY <2>1, <3>1, AtHandKept
    <3> QED
      BY <2>2, <2>4, <3>1, <3>2, HoldsIff, HoldsIffNext
  <2> QED
    BY <2>3, <2>4
<1> QED
  BY <1>2

LEMMA BeginHolds ==
  ASSUME LockInv, ProgTypes, UNCHANGED <<prog, todo>>,
         NEW n \in Nodes, NEW w \in Executors, NEW t, BeginEffect(n, w, t)
  PROVE  /\ \A u \in Txns, j \in Keys : Holds(u, j)' <=> Holds(u, j)
         /\ \A k \in RowsOf(t, n, Serves(w)) : Holds(t, k)
<1>1. dealt' = dealt /\ got' = got /\ Serves(w) \in Managers
  BY WorkersServe DEF BeginEffect
<1>2. ASSUME NEW u \in Txns, NEW j \in Keys
      PROVE  Holds(u, j)' <=> Holds(u, j)
  <2> DEFINE o == Owner[j]
             p == ManagerOf[j]
  <2>1. o \in Nodes /\ p \in Managers
    BY RowPlace
  <2>2. /\ InHand(o, p, u)' <=> InHand(o, p, u) \/ (o = n /\ p = Serves(w) /\ u = t)
        /\ Waits(o, p, u)' <=> Waits(o, p, u) /\ ~(o = n /\ p = Serves(w) /\ u = t)
        /\ Waits(n, Serves(w), t)
    BY <2>1, BeginPlaces
  <2>3. AtHand(o, p, u)' <=> AtHand(o, p, u)
    BY <1>1, <2>1, AtHandKept
  <2> QED
    BY <1>1, <2>2, <2>3, HoldsIff, HoldsIffNext
<1>3. ASSUME NEW k \in RowsOf(t, n, Serves(w)) PROVE Holds(t, k)
  <2>1. Owner[k] = n /\ ManagerOf[k] = Serves(w) /\ k \in prog[t].reads
    BY <1>3 DEF RowsOf, RowsAt
  <2>2. Waits(n, Serves(w), t)
    BY BeginPlaces
  <2> QED
    BY <2>1, <2>2, HoldsIff
<1> QED
  BY <1>2, <1>3

LEMMA FinishHolds ==
  ASSUME LockInv, ProgTypes, UNCHANGED <<prog, todo>>,
         NEW n \in Nodes, NEW w \in Executors, NEW t, t = running[n][w], FinishEffect(n, w, t)
  PROVE  /\ \A u \in Txns, j \in Keys :
              Holds(u, j)' <=>
                Holds(u, j) /\ ~(u = t /\ Owner[j] = n /\ ManagerOf[j] = Serves(w))
         /\ \A k \in RowsOf(t, n, Serves(w)) : Holds(t, k)
<1>1. dealt' = dealt /\ got' = got /\ Serves(w) \in Managers /\ t \in Txns
  BY WorkersServe DEF FinishEffect
<1>2. InHand(n, Serves(w), t)
  BY FinishPlaces
<1>3. t \in dealt[n][Serves(w)] /\ ~Waits(n, Serves(w), t)
  BY <1>1, <1>2, HandedOutDealt
<1>4. ASSUME NEW u \in Txns, NEW j \in Keys
      PROVE  Holds(u, j)' <=> Holds(u, j) /\ ~(u = t /\ Owner[j] = n /\ ManagerOf[j] = Serves(w))
  <2> DEFINE o == Owner[j]
             p == ManagerOf[j]
  <2>1. o \in Nodes /\ p \in Managers
    BY RowPlace
  <2>2. /\ InHand(o, p, u)' <=> InHand(o, p, u) /\ ~(o = n /\ p = Serves(w) /\ u = t)
        /\ Waits(o, p, u)' <=> Waits(o, p, u)
    BY <2>1, FinishPlaces
  <2>3. AtHand(o, p, u)' <=> AtHand(o, p, u)
    BY <1>1, <2>1, AtHandKept
  <2>4. ~AtHand(n, Serves(w), t)
    BY <1>3 DEF AtHand
  <2> QED
    BY <1>1, <1>3, <2>2, <2>3, <2>4, HoldsIff, HoldsIffNext
<1>5. ASSUME NEW k \in RowsOf(t, n, Serves(w)) PROVE Holds(t, k)
  <2>1. Owner[k] = n /\ ManagerOf[k] = Serves(w) /\ k \in prog[t].reads
    BY <1>5 DEF RowsOf, RowsAt
  <2> QED
    BY <1>2, <2>1, HoldsIff
<1> QED
  BY <1>4, <1>5

LEMMA ReceiveHolds ==
  ASSUME LockInv, UNCHANGED <<prog, todo>>, NEW c, NEW msg, ReceiveEffect(c, msg)
  PROVE  \A u \in Txns, j \in Keys : Holds(u, j)' <=> Holds(u, j)
<1>1. dealt' = dealt /\ got' = got
  BY DEF ReceiveEffect
<1>2. ASSUME NEW u \in Txns, NEW j \in Keys
      PROVE  Holds(u, j)' <=> Holds(u, j)
  <2>1. AtHand(Owner[j], ManagerOf[j], u)' <=> AtHand(Owner[j], ManagerOf[j], u)
    BY <1>1, RowPlace, AtHandKept
  <2>2. \A o, p : (Waits(o, p, u)' <=> Waits(o, p, u)) /\ (InHand(o, p, u)' <=> InHand(o, p, u))
    BY ReceivePlaces
  <2> QED
    BY <1>1, <2>1, <2>2, HoldsIff, HoldsIffNext
<1> QED
  BY <1>2

-----------------------------------------------------------------------------
(* The lock bits follow the holders.                                       *)

Sharers(k) == {t \in Txns : Holds(t, k) /\ k \in Shares(t)}
Updaters(k) == {t \in Txns : Holds(t, k) /\ k \in Updates(t)}

RowExact(k) ==
  /\ lock[k] = [readers |-> Cardinality(Sharers(k)), writer |-> Cardinality(Updaters(k))]
  /\ Updaters(k) # {} => Sharers(k) = {}

LEMMA RowsExact == RowLocksExact <=> \A k \in Keys : BlindRow(k) \/ RowExact(k)
  BY DEF RowLocksExact, RowExact, Sharers, Updaters

LEMMA RowsExactNext == RowLocksExact' <=> \A k \in Keys : BlindRow(k)' \/ RowExact(k)'
  BY DEF RowLocksExact, RowExact, Sharers, Updaters, Holds, AtHand, Serves

LEMMA HoldersFinite ==
  ASSUME NEW k
  PROVE  /\ IsFiniteSet(Sharers(k)) /\ Cardinality(Sharers(k)) \in Nat
         /\ IsFiniteSet(Updaters(k)) /\ Cardinality(Updaters(k)) \in Nat
         /\ Cardinality(Sharers(k)) = 0 <=> Sharers(k) = {}
         /\ Cardinality(Updaters(k)) = 0 <=> Updaters(k) = {}
<1>1. Sharers(k) \subseteq Txns /\ Updaters(k) \subseteq Txns
  BY DEF Sharers, Updaters
<1> QED
  BY <1>1, OrderAssumption, FS_Subset, FS_CardinalityType, FS_EmptySet

LEMMA SameProgram ==
  ASSUME UNCHANGED <<prog, todo>>
  PROVE  \A t, k : /\ Shares(t)' = Shares(t) /\ Updates(t)' = Updates(t)
                   /\ BlindRow(k)' <=> BlindRow(k)
  BY DEF Shares, Updates, BlindRow, Blinds

LEMMA RowKept ==
  ASSUME UNCHANGED <<prog, todo>>, NEW k \in Keys, RowExact(k), lock'[k] = lock[k],
         \A u \in Txns : Holds(u, k)' <=> Holds(u, k)
  PROVE  RowExact(k)'
<1>1. Sharers(k)' = Sharers(k) /\ Updaters(k)' = Updaters(k)
  BY SameProgram DEF Sharers, Updaters
<1> QED
  BY <1>1 DEF RowExact

LEMMA RowTaken ==
  ASSUME UNCHANGED <<prog, todo>>, NEW k \in Keys, RowExact(k),
         NEW t \in Txns, k \in prog[t].reads, ~Holds(t, k),
         \A u \in Txns : Holds(u, k)' <=> Holds(u, k) \/ u = t,
         IF k \in Updates(t)
           THEN MayWrite(lock[k]) /\ lock'[k] = [lock[k] EXCEPT !.writer = 1]
           ELSE MayRead(lock[k]) /\ lock'[k] = [lock[k] EXCEPT !.readers = @ + 1]
  PROVE  RowExact(k)'
<1> DEFINE S == Sharers(k)
           U == Updaters(k)
<1>1. /\ lock[k] = [readers |-> Cardinality(S), writer |-> Cardinality(U)]
      /\ Cardinality(S) \in Nat /\ Cardinality(U) \in Nat
      /\ IsFiniteSet(S) /\ IsFiniteSet(U) /\ t \notin S /\ t \notin U
  BY HoldersFinite DEF RowExact, Sharers, Updaters
<1>2. CASE k \in Updates(t)
  <2>1. k \notin Shares(t)
    BY <1>2 DEF Shares, Updates
  <2>2. Sharers(k)' = S /\ Updaters(k)' = U \cup {t}
    BY <1>2, <2>1, SameProgram DEF Sharers, Updaters
  <2>3. MayWrite(lock[k]) /\ lock'[k] = [lock[k] EXCEPT !.writer = 1]
    BY <1>2
  <2>4. S = {} /\ U = {} /\ Cardinality(S) = 0
    BY <1>1, <2>3, HoldersFinite DEF MayWrite
  <2>5. Cardinality(U \cup {t}) = 1
    BY <2>4, FS_Singleton
  <2>6. lock'[k] = [readers |-> Cardinality(S), writer |-> 1]
    BY <1>1, <2>3
  <2> QED
    BY <2>2, <2>4, <2>5, <2>6 DEF RowExact
<1>3. CASE k \notin Updates(t)
  <2>1. k \in Shares(t)
    BY <1>3 DEF Shares, Updates
  <2>2. Sharers(k)' = S \cup {t} /\ Updaters(k)' = U
    BY <1>3, <2>1, SameProgram DEF Sharers, Updaters
  <2>3. MayRead(lock[k]) /\ lock'[k] = [lock[k] EXCEPT !.readers = @ + 1]
    BY <1>3
  <2>4. U = {}
    BY <1>1, <2>3, HoldersFinite DEF MayRead
  <2>5. Cardinality(S \cup {t}) = Cardinality(S) + 1
    BY <1>1, FS_AddElement
  <2>6. lock'[k] = [readers |-> Cardinality(S) + 1, writer |-> Cardinality(U)]
    BY <1>1, <2>3
  <2> QED
    BY <2>2, <2>4, <2>5, <2>6 DEF RowExact
<1> QED
  BY <1>2, <1>3

LEMMA RowGiven ==
  ASSUME UNCHANGED <<prog, todo>>, NEW k \in Keys, RowExact(k),
         NEW t \in Txns, k \in prog[t].reads, Holds(t, k), lock[k].writer \in {0, 1},
         \A u \in Txns : Holds(u, k)' <=> Holds(u, k) /\ u # t,
         lock'[k] = IF k \in Shares(t) THEN ReleaseRead(lock[k]) ELSE ReleaseWrite(lock[k])
  PROVE  RowExact(k)'
<1> DEFINE S == Sharers(k)
           U == Updaters(k)
<1>1. /\ lock[k] = [readers |-> Cardinality(S), writer |-> Cardinality(U)]
      /\ Cardinality(S) \in Nat /\ Cardinality(U) \in Nat
      /\ IsFiniteSet(S) /\ IsFiniteSet(U)
      /\ U # {} => S = {}
  BY HoldersFinite DEF RowExact
<1>2. CASE k \in Shares(t)
  <2>1. k \notin Updates(t) /\ t \in S
    BY <1>2 DEF Shares, Updates, Sharers
  <2>2. Sharers(k)' = S \ {t} /\ Updaters(k)' = U
    BY <1>2, <2>1, SameProgram DEF Sharers, Updaters
  <2>3. U = {} /\ Cardinality(S \ {t}) = Cardinality(S) - 1
    BY <1>1, <2>1, FS_RemoveElement
  <2>4. lock'[k] = [readers |-> Cardinality(S) - 1, writer |-> Cardinality(U)]
    BY <1>1, <1>2 DEF ReleaseRead
  <2> QED
    BY <2>2, <2>3, <2>4 DEF RowExact
<1>3. CASE k \notin Shares(t)
  <2>1. k \in Updates(t) /\ t \in U
    BY <1>3 DEF Shares, Updates, Updaters
  <2>2. Sharers(k)' = S /\ Updaters(k)' = U \ {t}
    BY <1>3, <2>1, SameProgram DEF Sharers, Updaters
  <2>3. Cardinality(U \ {t}) = Cardinality(U) - 1 /\ S = {}
    BY <1>1, <2>1, FS_RemoveElement
  <2>4. Cardinality(U) = 1
    BY <1>1, <2>1, HoldersFinite
  <2>5. lock'[k] = [readers |-> Cardinality(S), writer |-> 1 - Cardinality(U)]
    BY <1>1, <1>3 DEF ReleaseWrite
  <2> QED
    BY <2>2, <2>3, <2>4, <2>5 DEF RowExact
<1> QED
  BY <1>2, <1>3

\* Every step keeps the locks exact.
LEMMA LockInvStep ==
  ASSUME ProgTypes, LockInv, ScheduleStep
  PROVE  LockInv'
<1>0. /\ ScheduleTypeOK /\ TodoAgreed /\ RowLocksExact /\ UNCHANGED <<prog, todo>>
      /\ ScheduleTypeOK'
  BY TypeStep DEF LockInv, ScheduleStep
<1>1. TodoAgreed'
  BY <1>0 DEF TodoAgreed, RowsAt
<1>2. \A k \in Keys : BlindRow(k) \/ RowExact(k)
  BY <1>0, RowsExact
<1>3. SUFFICES Placed' /\ \A k \in Keys : BlindRow(k) \/ RowExact(k)'
  <2>1. \A k : BlindRow(k)' <=> BlindRow(k)
    BY <1>0, SameProgram
  <2> QED
    BY <1>0, <1>1, <1>3, <2>1, RowsExactNext DEF LockInv, Placed
<1>4. ASSUME NEW n \in Nodes, NEW m \in Managers, NEW t \in Txns, Assign(n, m, t)
      PROVE  Placed' /\ \A k \in Keys : BlindRow(k) \/ RowExact(k)'
  <2>1. lock' = lock
    BY <1>4, AssignFacts DEF AssignEffect
  <2> QED
    BY <1>0, <1>2, <1>4, <2>1, AssignPlaces, AssignHolds, RowKept
<1>5. ASSUME NEW n \in Nodes, NEW m \in Managers, NEW t \in Txns, NEW k \in Keys,
             Grant(n, m, t, k)
      PROVE  Placed' /\ \A j \in Keys : BlindRow(j) \/ RowExact(j)'
  <2>0. GrantEffect(n, m, t, k)
    BY <1>5, GrantFacts
  <2>1. /\ ~Holds(t, k) /\ k \in prog[t].reads
        /\ \A u \in Txns, j \in Keys : Holds(u, j)' <=> Holds(u, j) \/ (u = t /\ j = k)
    BY <1>0, <1>5, GrantHolds
  <2>2. ASSUME NEW j \in Keys, ~BlindRow(j) PROVE RowExact(j)'
    <3>1. RowExact(j)
      BY <1>2, <2>2
    <3>2. CASE j = k
      <4>1. IF k \in Updates(t)
              THEN MayWrite(lock[k]) /\ lock'[k] = [lock[k] EXCEPT !.writer = 1]
              ELSE MayRead(lock[k]) /\ lock'[k] = [lock[k] EXCEPT !.readers = @ + 1]
        BY <2>0 DEF GrantEffect
      <4>2. \A u \in Txns : Holds(u, k)' <=> Holds(u, k) \/ u = t
        BY <2>1
      <4> QED
        BY <1>0, <2>1, <3>1, <3>2, <4>1, <4>2, RowTaken
    <3>3. CASE j # k
      <4>1. lock'[j] = lock[j]
        BY <2>0, <3>3 DEF GrantEffect
      <4>2. \A u \in Txns : Holds(u, j)' <=> Holds(u, j)
        BY <2>1, <3>3
      <4> QED
        BY <1>0, <3>1, <4>1, <4>2, RowKept
    <3> QED
      BY <3>2, <3>3
  <2> QED
    BY <1>0, <1>5, <2>2, GrantPlaces
<1>6. ASSUME NEW n \in Nodes, NEW w \in Executors, Begin(n, w)
      PROVE  Placed' /\ \A k \in Keys : BlindRow(k) \/ RowExact(k)'
  <2> DEFINE t == Head(queue[n][w])
  <2>0. BeginEffect(n, w, t)
    BY <1>6, BeginFacts
  <2> HIDE DEF t
  <2>1. lock' = lock
    BY <2>0 DEF BeginEffect
  <2> QED
    BY <1>0, <1>2, <2>0, <2>1, BeginPlaces, BeginHolds, RowKept
<1>7. ASSUME NEW n \in Nodes, NEW w \in Executors, Commit(n, w) \/ Abort(n, w)
      PROVE  Placed' /\ \A k \in Keys : BlindRow(k) \/ RowExact(k)'
  <2> DEFINE t == running[n][w]
  <2>0. FinishEffect(n, w, t)
    BY <1>7, FinishFacts
  <2>1. Placed'
    BY <1>0, <2>0, FinishPlaces
  <2>2. /\ \A u \in Txns, j \in Keys :
              Holds(u, j)' <=>
                Holds(u, j) /\ ~(u = t /\ Owner[j] = n /\ ManagerOf[j] = Serves(w))
        /\ \A k \in RowsOf(t, n, Serves(w)) : Holds(t, k)
    BY <1>0, <2>0, FinishHolds
  <2>3. /\ t \in Txns
        /\ \A k \in Keys :
              lock'[k] = IF Owner[k] # n \/ ManagerOf[k] # Serves(w) THEN lock[k]
                         ELSE IF k \in Shares(t) THEN ReleaseRead(lock[k])
                         ELSE IF k \in prog[t].writes /\ n \in Active(t)
                                THEN ReleaseWrite(lock[k]) ELSE lock[k]
    BY <2>0 DEF FinishEffect
  <2> HIDE DEF t
  <2>4. ASSUME NEW k \in Keys, ~BlindRow(k) PROVE RowExact(k)'
    <3>1. RowExact(k)
      BY <1>2, <2>4
    <3>2. CASE Owner[k] # n \/ ManagerOf[k] # Serves(w)
      <4>1. lock'[k] = lock[k] /\ \A u \in Txns : Holds(u, k)' <=> Holds(u, k)
        BY <2>2, <2>3, <3>2
      <4> QED
        BY <1>0, <3>1, <4>1, RowKept
    <3>3. CASE Owner[k] = n /\ ManagerOf[k] = Serves(w) /\ k \in prog[t].reads
      <4>1. Holds(t, k)
        BY <2>2, <3>3 DEF RowsOf, RowsAt
      <4>2. k \notin Shares(t) => k \in prog[t].writes /\ n \in Active(t)
        BY <3>3 DEF Shares, Active, Updates
      <4>3. lock'[k] = IF k \in Shares(t) THEN ReleaseRead(lock[k]) ELSE ReleaseWrite(lock[k])
        BY <2>3, <3>3, <4>2
      <4>4. \A u \in Txns : Holds(u, k)' <=> Holds(u, k) /\ u # t
        BY <2>2, <3>3
      <4>5. lock[k].writer \in {0, 1}
        BY <1>0 DEF ScheduleTypeOK
      <4> QED
        BY <1>0, <2>3, <3>1, <3>3, <4>1, <4>3, <4>4, <4>5, RowGiven
    <3>4. CASE Owner[k] = n /\ ManagerOf[k] = Serves(w) /\ k \notin prog[t].reads
      <4>1. k \notin prog[t].writes
        BY <2>3, <2>4, <3>4 DEF BlindRow, Blinds
      <4>2. k \notin Shares(t)
        BY <3>4 DEF Shares
      <4>3. lock'[k] = lock[k]
        BY <2>3, <4>1, <4>2
      <4>4. ~Holds(t, k)
        BY <3>4 DEF Holds
      <4>5. \A u \in Txns : Holds(u, k)' <=> Holds(u, k)
        BY <2>2, <4>4
      <4> QED
        BY <1>0, <3>1, <4>3, <4>5, RowKept
    <3> QED
      BY <3>2, <3>3, <3>4
  <2> QED
    BY <2>1, <2>4
<1>8. ASSUME NEW c \in Lanes, ReadRequest(c)
      PROVE  Placed' /\ \A k \in Keys : BlindRow(k) \/ RowExact(k)'
  <2> DEFINE msg == Head(reads[c])
  <2>0. ReceiveEffect(c, msg)
    BY <1>8, ReceiveFacts
  <2> HIDE DEF msg
  <2>1. lock' = lock
    BY <2>0 DEF ReceiveEffect
  <2> QED
    BY <1>0, <1>2, <2>0, <2>1, ReceivePlaces, ReceiveHolds, RowKept
<1> QED
  BY <1>4, <1>5, <1>6, <1>7, <1>8 DEF ScheduleStep, ScheduleNext, Manage, Execute

-----------------------------------------------------------------------------
(* What is lacking, and what is on its way.                                *)

\* The owner of row k has not read it for u yet.
Lacks(u, k) == Unread(Owner[k], ManagerOf[k], u)

LEMMA GapsKept ==
  ASSUME UNCHANGED <<prog, todo>>, reads' = reads, NEW u,
         \A k \in prog[u].reads : Lacks(u, k)' <=> Lacks(u, k)
  PROVE  \A o : LocalGap(u, o)' = LocalGap(u, o) /\ RemoteGap(u, o)' = RemoteGap(u, o)
<1>1. ASSUME NEW o PROVE LocalGap(u, o)' = LocalGap(u, o)
  <2>1. LocalGap(u, o) = {k \in prog[u].reads : Owner[k] = o /\ Lacks(u, k)}
    BY DEF LocalGap, RowsAt, Lacks
  <2>2. LocalGap(u, o)' = {k \in prog[u].reads : Owner[k] = o /\ Lacks(u, k)'}
    BY DEF LocalGap, RowsAt, Lacks, Unread, Waits, Serves
  <2> QED
    BY <2>1, <2>2
<1>2. ASSUME NEW o PROVE RemoteGap(u, o)' = RemoteGap(u, o)
  <2>1. RemoteGap(u, o) = {k \in prog[u].reads : Owner[k] # o /\ (Lacks(u, k) \/ OnItsWay(u, k, o))}
    BY DEF RemoteGap, RowsAt, Lacks
  <2>2. RemoteGap(u, o)' = {k \in prog[u].reads : Owner[k] # o /\ (Lacks(u, k)' \/ OnItsWay(u, k, o)')}
    BY DEF RemoteGap, RowsAt, Lacks, Unread, Waits, Serves
  <2>3. \A k : OnItsWay(u, k, o)' <=> OnItsWay(u, k, o)
    BY DEF OnItsWay
  <2> QED
    BY <2>1, <2>2, <2>3
<1> QED
  BY <1>1, <1>2

LEMMA GapsFinite ==
  ASSUME ProgTypes, NEW u \in Txns, NEW o
  PROVE  /\ IsFiniteSet(LocalGap(u, o)) /\ Cardinality(LocalGap(u, o)) \in Nat
         /\ IsFiniteSet(RemoteGap(u, o)) /\ Cardinality(RemoteGap(u, o)) \in Nat
         /\ Cardinality(LocalGap(u, o)) = 0 => LocalGap(u, o) = {}
         /\ Cardinality(RemoteGap(u, o)) = 0 => RemoteGap(u, o) = {}
<1>1. LocalGap(u, o) \subseteq prog[u].reads /\ RemoteGap(u, o) \subseteq prog[u].reads
  BY DEF LocalGap, RemoteGap, RowsAt
<1>2. IsFiniteSet(prog[u].reads)
  BY RowFacts
<1> QED
  BY <1>1, <1>2, FS_Subset, FS_CardinalityType, FS_EmptySet

\* The row of a message is one that its sender has read.
LEMMA MessageRow ==
  ASSUME ReadsInOrder, NEW c \in Lanes, NEW i \in DOMAIN reads[c]
  PROVE  /\ reads[c][i].txn \in todo[c[1]] /\ c[2] \in Active(reads[c][i].txn)
         /\ reads[c][i].key \in prog[reads[c][i].txn].reads
         /\ Owner[reads[c][i].key] = c[1] /\ ManagerOf[reads[c][i].key] = Serves(c[3])
         /\ ~Lacks(reads[c][i].txn, reads[c][i].key)
  BY DEF ReadsInOrder, RowsOf, RowsAt, Lacks

LEMMA LaneFacts ==
  /\ \A c \in Lanes : /\ c[1] \in Nodes /\ c[2] \in Nodes /\ c[3] \in Executors
                      /\ c[1] # c[2]
  /\ \A c, d \in Lanes : c[1] = d[1] /\ c[2] = d[2] /\ c[3] = d[3] => c = d
  /\ \A n, o \in Nodes, w \in Executors : n # o => <<n, o, w>> \in Lanes
  BY DEF Lanes

Counted == ReadsInOrder /\ CountersExact /\ RunsCounted

\* A step that reads nothing, sends nothing and runs nothing keeps the count.
LEMMA CountKept ==
  ASSUME LockInv, Counted, UNCHANGED <<prog, todo>>,
         reads' = reads, local' = local, remote' = remote, ran' = ran,
         \A u \in Txns : \A k \in prog[u].reads :
           /\ Lacks(u, k)' <=> Lacks(u, k)
           /\ InHand(Owner[k], ManagerOf[k], u)' <=> InHand(Owner[k], ManagerOf[k], u)
  PROVE  Counted'
<1>0. \A n \in Nodes : todo[n] \subseteq Txns
  BY DEF LockInv, ScheduleTypeOK
<1>1. \A u \in Txns : \A o : LocalGap(u, o)' = LocalGap(u, o) /\ RemoteGap(u, o)' = RemoteGap(u, o)
  BY GapsKept
<1>2. \A t, o, p : /\ RowsOf(t, o, p)' = RowsOf(t, o, p) /\ RowsAt(t, o)' = RowsAt(t, o)
                   /\ Active(t)' = Active(t) /\ (Split(t, o)' <=> Split(t, o))
  BY DEF RowsOf, RowsAt, Active, Updates, Split
<1>3. ReadsInOrder'
  <2>1. ASSUME NEW c \in Lanes, NEW i \in DOMAIN reads[c]
        PROVE  ~Unread(c[1], Serves(c[3]), reads[c][i].txn)'
    <3>1. reads[c][i].txn \in Txns
      BY <1>0, LaneFacts, MessageRow DEF Counted
    <3> QED
      BY <3>1, MessageRow DEF Lacks, Counted
  <2>2. \A c \in Lanes : \A i \in DOMAIN reads[c] :
          /\ reads[c][i].txn \in todo[c[1]] /\ c[2] \in Active(reads[c][i].txn)
          /\ reads[c][i].key \in RowsOf(reads[c][i].txn, c[1], Serves(c[3]))
    BY DEF ReadsInOrder, Counted
  <2>3. \A c, d \in Lanes : c[1] = d[1] /\ c[2] = d[2] =>
          \A i \in DOMAIN reads[c], j \in DOMAIN reads[d] :
            reads[c][i].txn = reads[d][j].txn /\ reads[c][i].key = reads[d][j].key =>
              c = d /\ i = j
    BY DEF ReadsInOrder, Counted
  <2>4. \A c \in Lanes : \A i \in DOMAIN reads'[c] :
          /\ reads'[c][i].txn \in todo'[c[1]] /\ c[2] \in Active(reads[c][i].txn)'
          /\ reads'[c][i].key \in RowsOf(reads[c][i].txn, c[1], Serves(c[3]))'
          /\ ~Unread(c[1], Serves(c[3]), reads[c][i].txn)'
    BY <1>2, <2>1, <2>2 DEF Active, Updates, RowsOf, RowsAt
  <2> QED
    BY <2>3, <2>4 DEF ReadsInOrder
<1>4. CountersExact'
  BY <1>0, <1>1, <1>2 DEF CountersExact, Counted
<1>5. RunsCounted'
  <2>1. ASSUME NEW n \in Nodes, NEW t \in todo[n]
        PROVE  /\ ran[n][t] > 0 => n \in Active(t) /\ LocalGap(t, n)' = {} /\ RemoteGap(t, n)' = {}
               /\ n \in Active(t) => \A k \in RowsAt(t, n) :
                    /\ ran[n][t] = 0 => Unread(n, ManagerOf[k], t)' \/ InHand(n, ManagerOf[k], t)'
                    /\ ~Split(t, n) =>
                         /\ ran[n][t] <= 1
                         /\ Unread(n, ManagerOf[k], t)' \/ InHand(n, ManagerOf[k], t)' => ran[n][t] = 0
    <3>1. \A k \in RowsAt(t, n) :
            /\ Unread(n, ManagerOf[k], t)' <=> Unread(n, ManagerOf[k], t)
            /\ InHand(n, ManagerOf[k], t)' <=> InHand(n, ManagerOf[k], t)
      BY <1>0 DEF RowsAt, Lacks
    <3> QED
      BY <1>0, <1>1, <3>1 DEF RunsCounted, Counted
  <2> QED
    BY <1>2, <2>1 DEF RunsCounted, Unread, Waits, InHand, Serves
<1> QED
  BY <1>3, <1>4, <1>5 DEF Counted


LEMMA GapsIff ==
  ASSUME NEW u, NEW o
  PROVE  /\ LocalGap(u, o) = {k \in prog[u].reads : Owner[k] = o /\ Lacks(u, k)}
         /\ RemoteGap(u, o) =
              {k \in prog[u].reads : Owner[k] # o /\ (Lacks(u, k) \/ OnItsWay(u, k, o))}
  BY DEF LocalGap, RemoteGap, RowsAt, Lacks

LEMMA GapsIffNext ==
  ASSUME UNCHANGED <<prog, todo>>, NEW u, NEW o
  PROVE  /\ LocalGap(u, o)' = {k \in prog[u].reads : Owner[k] = o /\ Lacks(u, k)'}
         /\ RemoteGap(u, o)' =
              {k \in prog[u].reads : Owner[k] # o /\ (Lacks(u, k)' \/ OnItsWay(u, k, o)')}
  BY DEF LocalGap, RemoteGap, RowsAt, Lacks, Unread, Waits, Serves, OnItsWay

LEMMA RemoteSame ==
  ASSUME UNCHANGED <<prog, todo>>, NEW u, NEW o,
         \A k \in prog[u].reads : Owner[k] # o =>
           (Lacks(u, k)' \/ OnItsWay(u, k, o)' <=> Lacks(u, k) \/ OnItsWay(u, k, o))
  PROVE  RemoteGap(u, o)' = RemoteGap(u, o)
<1>1. {k \in prog[u].reads : Owner[k] # o /\ (Lacks(u, k)' \/ OnItsWay(u, k, o)')} =
        {k \in prog[u].reads : Owner[k] # o /\ (Lacks(u, k) \/ OnItsWay(u, k, o))}
  OBVIOUS
<1>2. RemoteGap(u, o) =
        {k \in prog[u].reads : Owner[k] # o /\ (Lacks(u, k) \/ OnItsWay(u, k, o))}
  BY GapsIff
<1>3. RemoteGap(u, o)' =
        {k \in prog[u].reads : Owner[k] # o /\ (Lacks(u, k)' \/ OnItsWay(u, k, o)')}
  BY GapsIffNext
<1> QED
  BY <1>1, <1>2, <1>3

LEMMA LocalSame ==
  ASSUME UNCHANGED <<prog, todo>>, NEW u, NEW o,
         \A k \in prog[u].reads : Owner[k] = o => (Lacks(u, k)' <=> Lacks(u, k))
  PROVE  LocalGap(u, o)' = LocalGap(u, o)
<1>1. {k \in prog[u].reads : Owner[k] = o /\ Lacks(u, k)'} =
        {k \in prog[u].reads : Owner[k] = o /\ Lacks(u, k)}
  OBVIOUS
<1>2. LocalGap(u, o) = {k \in prog[u].reads : Owner[k] = o /\ Lacks(u, k)}
  BY GapsIff
<1>3. LocalGap(u, o)' = {k \in prog[u].reads : Owner[k] = o /\ Lacks(u, k)'}
  BY GapsIffNext
<1> QED
  BY <1>1, <1>2, <1>3

\* The counters and the runs of one transaction on one node.
CountExact(t, n) ==
  n \in Active(t) =>
    /\ local[n][t] = Cardinality(LocalGap(t, n))
    /\ remote[n][t] = Cardinality(RemoteGap(t, n))

RunExact(t, n) ==
  /\ ran[n][t] > 0 => n \in Active(t) /\ LocalGap(t, n) = {} /\ RemoteGap(t, n) = {}
  /\ n \in Active(t) => \A k \in RowsAt(t, n) :
       /\ ran[n][t] = 0 => Lacks(t, k) \/ InHand(n, ManagerOf[k], t)
       /\ ~Split(t, n) =>
            /\ ran[n][t] <= 1
            /\ Lacks(t, k) \/ InHand(n, ManagerOf[k], t) => ran[n][t] = 0

LEMMA CountedIff ==
  Counted <=> /\ ReadsInOrder
              /\ \A n \in Nodes : \A t \in todo[n] : CountExact(t, n) /\ RunExact(t, n)
<1>1. \A t, n : \A k \in RowsAt(t, n) : Unread(n, ManagerOf[k], t) <=> Lacks(t, k)
  BY DEF RowsAt, Lacks
<1>2. RunsCounted <=> \A n \in Nodes : \A t \in todo[n] : RunExact(t, n)
  BY <1>1 DEF RunsCounted, RunExact
<1>3. CountersExact <=> \A n \in Nodes : \A t \in todo[n] : CountExact(t, n)
  BY DEF CountersExact, CountExact
<1> QED
  BY <1>2, <1>3 DEF Counted

LEMMA CountedNext ==
  /\ ReadsInOrder' /\ (\A n \in Nodes : \A t \in todo[n] : CountExact(t, n) /\ RunExact(t, n))'
  => Counted'
<1> DEFINE Exact == \A n \in Nodes : \A t \in todo[n] : CountExact(t, n) /\ RunExact(t, n)
<1>1. ReadsInOrder /\ Exact => Counted
  BY CountedIff
<1> HIDE DEF Exact
<1>2. ReadsInOrder' /\ Exact' => Counted'
  BY <1>1, PTL
<1> QED
  BY <1>2 DEF Exact


\* Where nothing is done that counts, or nothing is executed.
LEMMA ExactKept ==
  ASSUME UNCHANGED <<prog, todo>>, NEW u, NEW o, CountExact(u, o), RunExact(u, o),
         LocalGap(u, o)' = LocalGap(u, o), RemoteGap(u, o)' = RemoteGap(u, o),
         local'[o][u] = local[o][u], remote'[o][u] = remote[o][u], ran'[o][u] = ran[o][u],
         \A k \in RowsAt(u, o) :
           /\ Lacks(u, k)' <=> Lacks(u, k)
           /\ InHand(o, ManagerOf[k], u)' <=> InHand(o, ManagerOf[k], u)
  PROVE  CountExact(u, o)' /\ RunExact(u, o)'
<1>1. CountExact(u, o)'
  BY DEF CountExact, Active, Updates
<1>2. /\ ran'[o][u] > 0 => o \in Active(u) /\ LocalGap(u, o)' = {} /\ RemoteGap(u, o)' = {}
      /\ o \in Active(u) => \A k \in RowsAt(u, o) :
           /\ ran'[o][u] = 0 => Lacks(u, k)' \/ InHand(o, ManagerOf[k], u)'
           /\ ~Split(u, o) =>
                /\ ran'[o][u] <= 1
                /\ Lacks(u, k)' \/ InHand(o, ManagerOf[k], u)' => ran'[o][u] = 0
  BY DEF RunExact
<1>3. /\ RowsAt(u, o)' = RowsAt(u, o) /\ (Split(u, o)' <=> Split(u, o))
      /\ Active(u)' = Active(u)
  BY DEF RowsAt, Split, Active, Updates
<1> QED
  BY <1>1, <1>2, <1>3 DEF RunExact, Lacks, Unread, Waits, InHand, Serves

LEMMA ExactIdle ==
  ASSUME UNCHANGED <<prog, todo>>, NEW u, NEW o, RunExact(u, o), o \notin Active(u),
         ran'[o][u] = ran[o][u]
  PROVE  CountExact(u, o)' /\ RunExact(u, o)'
<1>1. Active(u)' = Active(u)
  BY DEF Active, Updates
<1> QED
  BY <1>1 DEF CountExact, RunExact

\* What remains to be shown of a step.
LEMMA ExactNext ==
  ASSUME UNCHANGED <<prog, todo>>, NEW u, NEW o,
         o \in Active(u) =>
           /\ local'[o][u] = Cardinality(LocalGap(u, o)')
           /\ remote'[o][u] = Cardinality(RemoteGap(u, o)'),
         ran'[o][u] > 0 => o \in Active(u) /\ LocalGap(u, o)' = {} /\ RemoteGap(u, o)' = {},
         o \in Active(u) => \A k \in RowsAt(u, o) :
           /\ ran'[o][u] = 0 => Lacks(u, k)' \/ InHand(o, ManagerOf[k], u)'
           /\ ~Split(u, o) =>
                /\ ran'[o][u] <= 1
                /\ Lacks(u, k)' \/ InHand(o, ManagerOf[k], u)' => ran'[o][u] = 0
  PROVE  CountExact(u, o)' /\ RunExact(u, o)'
<1>1. /\ RowsAt(u, o)' = RowsAt(u, o) /\ (Split(u, o)' <=> Split(u, o))
      /\ Active(u)' = Active(u)
  BY DEF RowsAt, Split, Active, Updates
<1>2. CountExact(u, o)'
  BY <1>1 DEF CountExact
<1>3. RunExact(u, o)'
  BY <1>1 DEF RunExact, Lacks, Unread, Waits, InHand, Serves
<1> QED
  BY <1>2, <1>3

LEMMA GrantCounts ==
  ASSUME LockInv, ProgTypes, Counted, UNCHANGED <<prog, todo>>,
         NEW n \in Nodes, NEW m \in Managers, NEW t \in Txns, NEW k \in Keys, Grant(n, m, t, k)
  PROVE  Counted'
<1>0. GrantEffect(n, m, t, k)
  BY GrantFacts
<1>1. /\ reads' = reads /\ local' = local /\ remote' = remote /\ ran' = ran /\ dealt' = dealt
  BY <1>0 DEF GrantEffect
<1>2. \A o, p, u : (Waits(o, p, u)' <=> Waits(o, p, u)) /\ (InHand(o, p, u)' <=> InHand(o, p, u))
  BY GrantPlaces
<1>3. \A u, j : Lacks(u, j)' <=> Lacks(u, j)
  BY <1>1, <1>2 DEF Lacks, Unread
<1> QED
  BY <1>1, <1>2, <1>3, CountKept

LEMMA AssignCounts ==
  ASSUME LockInv, ProgTypes, Counted, UNCHANGED <<prog, todo>>,
         NEW n \in Nodes, NEW m \in Managers, NEW t \in Txns, Assign(n, m, t)
  PROVE  /\ Counted'
         /\ \A u \in Txns : \A k \in prog[u].reads : Lacks(u, k)' <=> Lacks(u, k)
<1>0. AssignEffect(n, m, t)
  BY AssignFacts
<1>1. /\ reads' = reads /\ local' = local /\ remote' = remote /\ ran' = ran
      /\ AtHand(n, m, t)
      /\ \A o \in Nodes, p \in Managers :
           dealt'[o][p] = IF o = n /\ p = m THEN dealt[n][m] \cup {t} ELSE dealt[o][p]
  BY <1>0 DEF AssignEffect
<1>2. ASSUME NEW u \in Txns, NEW k \in prog[u].reads
      PROVE  /\ Lacks(u, k)' <=> Lacks(u, k)
             /\ InHand(Owner[k], ManagerOf[k], u)' <=> InHand(Owner[k], ManagerOf[k], u)
  <2> DEFINE o == Owner[k]
             p == ManagerOf[k]
  <2>1. k \in Keys /\ o \in Nodes /\ p \in Managers
    BY RowPlace DEF ProgTypes
  <2>2. /\ InHand(o, p, u)' <=> InHand(o, p, u)
        /\ Waits(o, p, u)' <=> Waits(o, p, u) \/ (o = n /\ p = m /\ u = t /\ RowsOf(t, n, m) # {})
    BY <2>1, AssignPlaces
  <2>3. o = n /\ p = m /\ u = t => RowsOf(t, n, m) # {} /\ t \notin dealt[n][m]
    BY <1>1 DEF RowsOf, RowsAt, AtHand
  <2>4. u \in dealt'[o][p] <=> u \in dealt[o][p] \/ (o = n /\ p = m /\ u = t)
    BY <1>1, <2>1
  <2>5. Lacks(u, k)' <=> u \notin dealt'[o][p] \/ Waits(o, p, u)'
    BY DEF Lacks, Unread, Waits, Serves
  <2>6. Lacks(u, k) <=> u \notin dealt[o][p] \/ Waits(o, p, u)
    BY DEF Lacks, Unread
  <2> QED
    BY <2>2, <2>3, <2>4, <2>5, <2>6
<1> QED
  BY <1>1, <1>2, CountKept


\* The messages after Begin: the old ones, and behind them those of t.
LEMMA BeginSends ==
  ASSUME LockInv, ProgTypes, UNCHANGED <<prog, todo>>,
         NEW n \in Nodes, NEW w \in Executors, NEW t, BeginEffect(n, w, t)
  PROVE  /\ \A c \in Lanes : \A i \in DOMAIN reads[c] :
              i \in DOMAIN reads'[c] /\ reads'[c][i] = reads[c][i]
         /\ \A c \in Lanes : \A i \in DOMAIN reads'[c] :
              \/ i \in DOMAIN reads[c] /\ reads'[c][i] = reads[c][i]
              \/ /\ c[1] = n /\ c[3] = w /\ c[2] \in Active(t) /\ i \notin DOMAIN reads[c]
                 /\ reads'[c][i].key \in RowsOf(t, n, Serves(w))
                 /\ reads'[c][i] = Carries(t, reads'[c][i].key)
                 /\ \A j \in DOMAIN reads'[c] :
                      j \notin DOMAIN reads[c] /\ reads'[c][j].key = reads'[c][i].key => j = i
         /\ \A c \in Lanes : c[1] = n /\ c[3] = w /\ c[2] \in Active(t) =>
              \A k \in RowsOf(t, n, Serves(w)) :
                \E i \in DOMAIN reads'[c] : reads'[c][i] = Carries(t, k)
<1> DEFINE rows == RowsOf(t, n, Serves(w))
<1>1. PICK msgs \in Seq(ReadMsg) :
        /\ Len(msgs) \in Nat
        /\ \A i \in 1..Len(msgs) : msgs[i].key \in rows /\ msgs[i] = Carries(t, msgs[i].key)
        /\ \A k \in rows : \E i \in 1..Len(msgs) : msgs[i].key = k
        /\ \A i, j \in 1..Len(msgs) : msgs[i].key = msgs[j].key => i = j
        /\ \A c \in Lanes :
             reads'[c] = IF c[1] = n /\ c[3] = w /\ c[2] \in Active(t)
                           THEN reads[c] \o msgs ELSE reads[c]
  BY DEF BeginEffect
<1> HIDE DEF rows
<1>2. ASSUME NEW c \in Lanes, c[1] = n, c[3] = w, c[2] \in Active(t)
      PROVE  /\ Len(reads[c]) \in Nat /\ DOMAIN reads[c] = 1..Len(reads[c])
             /\ DOMAIN reads'[c] = 1..Len(reads[c]) + Len(msgs)
             /\ \A i \in 1..Len(reads[c]) : reads'[c][i] = reads[c][i]
             /\ \A i \in 1..Len(reads[c]) + Len(msgs) :
                  i > Len(reads[c]) => /\ i - Len(reads[c]) \in 1..Len(msgs)
                                       /\ reads'[c][i] = msgs[i - Len(reads[c])]
             /\ \A i \in 1..Len(msgs) : /\ i + Len(reads[c]) \in DOMAIN reads'[c]
                                        /\ reads'[c][i + Len(reads[c])] = msgs[i]
  <2>1. reads[c] \in Seq(ReadMsg)
    BY DEF LockInv, ScheduleTypeOK, ReadMsg
  <2>2. reads'[c] = reads[c] \o msgs
    BY <1>1, <1>2
  <2> QED
    BY <1>1, <2>1, <2>2
<1>3. ASSUME NEW c \in Lanes, NEW i \in DOMAIN reads[c]
      PROVE  i \in DOMAIN reads'[c] /\ reads'[c][i] = reads[c][i]
  <2>1. CASE c[1] = n /\ c[3] = w /\ c[2] \in Active(t)
    <3>1. /\ Len(reads[c]) \in Nat /\ DOMAIN reads[c] = 1..Len(reads[c])
          /\ DOMAIN reads'[c] = 1..Len(reads[c]) + Len(msgs)
          /\ \A j \in 1..Len(reads[c]) : reads'[c][j] = reads[c][j]
      BY <1>2, <2>1
    <3>2. i \in 1..Len(reads[c]) /\ i \in 1..Len(reads[c]) + Len(msgs)
      BY <1>1, <1>3, <3>1
    <3> QED
      BY <3>1, <3>2
  <2>2. CASE ~(c[1] = n /\ c[3] = w /\ c[2] \in Active(t))
    BY <1>1, <1>3, <2>2
  <2> QED
    BY <2>1, <2>2
<1>4. ASSUME NEW c \in Lanes, NEW i \in DOMAIN reads'[c], i \notin DOMAIN reads[c]
      PROVE  /\ c[1] = n /\ c[3] = w /\ c[2] \in Active(t)
             /\ i - Len(reads[c]) \in 1..Len(msgs) /\ i \in Int /\ Len(reads[c]) \in Nat
             /\ reads'[c][i] = msgs[i - Len(reads[c])]
             /\ reads'[c][i].key \in rows
             /\ reads'[c][i] = Carries(t, reads'[c][i].key)
  <2>1. c[1] = n /\ c[3] = w /\ c[2] \in Active(t)
    BY <1>1, <1>4
  <2>2. i - Len(reads[c]) \in 1..Len(msgs) /\ i \in Int /\ Len(reads[c]) \in Nat
        /\ reads'[c][i] = msgs[i - Len(reads[c])]
    <3>1. /\ Len(reads[c]) \in Nat /\ DOMAIN reads[c] = 1..Len(reads[c])
          /\ DOMAIN reads'[c] = 1..Len(reads[c]) + Len(msgs)
          /\ \A j \in 1..Len(reads[c]) + Len(msgs) :
               j > Len(reads[c]) => /\ j - Len(reads[c]) \in 1..Len(msgs)
                                    /\ reads'[c][j] = msgs[j - Len(reads[c])]
      BY <1>2, <2>1
    <3>2. i \in 1..Len(reads[c]) + Len(msgs) /\ i \in Int /\ i > Len(reads[c])
      BY <1>1, <1>4, <3>1
    <3> QED
      BY <3>1, <3>2
  <2> QED
    BY <1>1, <2>1, <2>2
<1>5. ASSUME NEW c \in Lanes, NEW i \in DOMAIN reads'[c], i \notin DOMAIN reads[c],
             NEW j \in DOMAIN reads'[c], j \notin DOMAIN reads[c],
             reads'[c][j].key = reads'[c][i].key
      PROVE  j = i
  <2>1. /\ i - Len(reads[c]) \in 1..Len(msgs) /\ i \in Int /\ Len(reads[c]) \in Nat
        /\ reads'[c][i] = msgs[i - Len(reads[c])]
        /\ j - Len(reads[c]) \in 1..Len(msgs) /\ j \in Int
        /\ reads'[c][j] = msgs[j - Len(reads[c])]
    BY <1>4, <1>5
  <2> DEFINE x == i - Len(reads[c])
             y == j - Len(reads[c])
  <2>2. x \in 1..Len(msgs) /\ y \in 1..Len(msgs) /\ msgs[x].key = msgs[y].key
    BY <1>5, <2>1
  <2> HIDE DEF x, y
  <2>3. x = y
    BY <1>1, <2>2
  <2> QED
    BY <2>1, <2>3 DEF x, y
<1>6. ASSUME NEW c \in Lanes, c[1] = n, c[3] = w, c[2] \in Active(t), NEW k \in rows
      PROVE  \E i \in DOMAIN reads'[c] : reads'[c][i] = Carries(t, k)
  <2>1. PICK i \in 1..Len(msgs) : msgs[i].key = k
    BY <1>1
  <2>2. msgs[i] = Carries(t, k)
    BY <1>1, <2>1
  <2> QED
    BY <1>2, <1>6, <2>2
<1> QED
  BY <1>3, <1>4, <1>5, <1>6 DEF rows

LEMMA BeginLacks ==
  ASSUME LockInv, ProgTypes, UNCHANGED <<prog, todo>>,
         NEW n \in Nodes, NEW w \in Executors, NEW t, BeginEffect(n, w, t)
  PROVE  /\ t \in Txns /\ t \in todo[n]
         /\ \A k \in RowsOf(t, n, Serves(w)) : Lacks(t, k)
         /\ \A u \in Txns : \A k \in prog[u].reads :
              Lacks(u, k)' <=> Lacks(u, k) /\ ~(u = t /\ k \in RowsOf(t, n, Serves(w)))
<1>1. t \in Txns /\ dealt' = dealt /\ Serves(w) \in Managers
  BY WorkersServe DEF BeginEffect
<1>2. Waits(n, Serves(w), t)
  BY BeginPlaces
<1>3. t \in todo[n] /\ t \in dealt[n][Serves(w)]
  BY <1>1, <1>2, HandedOutDealt
<1>4. ASSUME NEW u \in Txns, NEW k \in prog[u].reads
      PROVE  Lacks(u, k)' <=> Lacks(u, k) /\ ~(u = t /\ k \in RowsOf(t, n, Serves(w)))
  <2> DEFINE o == Owner[k]
             p == ManagerOf[k]
  <2>1. k \in Keys /\ o \in Nodes /\ p \in Managers
    BY RowPlace DEF ProgTypes
  <2>2. Waits(o, p, u)' <=> Waits(o, p, u) /\ ~(o = n /\ p = Serves(w) /\ u = t)
    BY <2>1, BeginPlaces
  <2>3. Lacks(u, k)' <=> u \notin dealt[o][p] \/ Waits(o, p, u)'
    BY <1>1 DEF Lacks, Unread, Waits, Serves
  <2>4. Lacks(u, k) <=> u \notin dealt[o][p] \/ Waits(o, p, u)
    BY DEF Lacks, Unread
  <2>5. u = t /\ k \in RowsOf(t, n, Serves(w)) <=> o = n /\ p = Serves(w) /\ u = t
    BY DEF RowsOf, RowsAt
  <2> QED
    BY <1>3, <2>2, <2>3, <2>4, <2>5
<1>5. \A k \in RowsOf(t, n, Serves(w)) : Lacks(t, k)
  BY <1>2 DEF Lacks, Unread, RowsOf, RowsAt
<1> QED
  BY <1>1, <1>3, <1>4, <1>5


\* The same after a step.
LacksAfter(u, k) ==
  \/ u \notin dealt'[Owner[k]][ManagerOf[k]]
  \/ \E w \in Executors :
       /\ Serves(w) = ManagerOf[k]
       /\ \E i \in DOMAIN queue'[Owner[k]][w] : queue'[Owner[k]][w][i] = u

LEMMA LacksNext ==
  /\ \A u, k : Lacks(u, k)' <=> LacksAfter(u, k)
  /\ \A c, i : Lacks(reads[c][i].txn, reads[c][i].key)' <=>
              LacksAfter(reads'[c][i].txn, reads'[c][i].key)
  BY DEF Lacks, LacksAfter, Unread, Waits, Serves

\* What a step has to keep of the messages.
LEMMA ReadsNext ==
  ASSUME UNCHANGED <<prog, todo>>,
         \A c \in Lanes : \A i \in DOMAIN reads'[c] :
           /\ reads'[c][i].txn \in todo[c[1]] /\ c[2] \in Active(reads'[c][i].txn)
           /\ reads'[c][i].key \in prog[reads'[c][i].txn].reads
           /\ Owner[reads'[c][i].key] = c[1] /\ ManagerOf[reads'[c][i].key] = Serves(c[3])
           /\ ~LacksAfter(reads'[c][i].txn, reads'[c][i].key),
         \A c, d \in Lanes : c[1] = d[1] /\ c[2] = d[2] =>
           \A i \in DOMAIN reads'[c], j \in DOMAIN reads'[d] :
             reads'[c][i].txn = reads'[d][j].txn /\ reads'[c][i].key = reads'[d][j].key =>
               c = d /\ i = j
  PROVE  ReadsInOrder'
<1>1. ASSUME NEW c \in Lanes, NEW i \in DOMAIN reads'[c]
      PROVE  /\ reads'[c][i].txn \in todo'[c[1]] /\ c[2] \in Active(reads[c][i].txn)'
             /\ reads'[c][i].key \in RowsOf(reads[c][i].txn, c[1], Serves(c[3]))'
             /\ ~Unread(c[1], Serves(c[3]), reads[c][i].txn)'
  <2>1. /\ reads'[c][i].txn \in todo[c[1]] /\ c[2] \in Active(reads'[c][i].txn)
        /\ reads'[c][i].key \in prog[reads'[c][i].txn].reads
        /\ Owner[reads'[c][i].key] = c[1] /\ ManagerOf[reads'[c][i].key] = Serves(c[3])
        /\ ~LacksAfter(reads'[c][i].txn, reads'[c][i].key)
    BY <1>1
  <2>2. Active(reads[c][i].txn)' = Active(reads'[c][i].txn)
    BY DEF Active, Updates
  <2>3. reads'[c][i].key \in RowsOf(reads[c][i].txn, c[1], Serves(c[3]))'
    BY <2>1 DEF RowsOf, RowsAt, Serves
  <2>4. ~Unread(c[1], Serves(c[3]), reads[c][i].txn)'
    BY <2>1, SMTT(30) DEF LacksAfter, Unread, Waits, Serves
  <2> QED
    BY <2>1, <2>2, <2>3, <2>4
<1> QED
  BY <1>1 DEF ReadsInOrder

LEMMA BeginReads ==
  ASSUME LockInv, ProgTypes, ReadsInOrder, UNCHANGED <<prog, todo>>,
         NEW n \in Nodes, NEW w \in Executors, NEW t, BeginEffect(n, w, t)
  PROVE  ReadsInOrder'
<1> DEFINE rows == RowsOf(t, n, Serves(w))
<1>1. /\ t \in Txns /\ t \in todo[n] /\ rows \subseteq prog[t].reads
      /\ \A k \in rows : Lacks(t, k) /\ Owner[k] = n /\ ManagerOf[k] = Serves(w)
      /\ \A u \in Txns : \A k \in prog[u].reads :
           Lacks(u, k)' <=> Lacks(u, k) /\ ~(u = t /\ k \in rows)
  <2>1. rows \subseteq prog[t].reads /\ \A k \in rows : Owner[k] = n /\ ManagerOf[k] = Serves(w)
    BY DEF RowsOf, RowsAt
  <2> QED
    BY <2>1, BeginLacks
<1>2. ASSUME NEW c \in Lanes, NEW i \in DOMAIN reads[c]
      PROVE  /\ reads[c][i].txn \in Txns
             /\ reads[c][i].txn \in todo[c[1]] /\ c[2] \in Active(reads[c][i].txn)
             /\ reads[c][i].key \in prog[reads[c][i].txn].reads
             /\ Owner[reads[c][i].key] = c[1] /\ ManagerOf[reads[c][i].key] = Serves(c[3])
             /\ ~Lacks(reads[c][i].txn, reads[c][i].key)
             /\ ~(reads[c][i].txn = t /\ reads[c][i].key \in rows)
  <2>1. /\ reads[c][i].txn \in todo[c[1]] /\ c[2] \in Active(reads[c][i].txn)
        /\ reads[c][i].key \in prog[reads[c][i].txn].reads
        /\ Owner[reads[c][i].key] = c[1] /\ ManagerOf[reads[c][i].key] = Serves(c[3])
        /\ ~Lacks(reads[c][i].txn, reads[c][i].key)
    BY <1>2, MessageRow
  <2>2. todo[c[1]] \subseteq Txns
    BY LaneFacts DEF LockInv, ScheduleTypeOK
  <2> QED
    BY <1>1, <2>1, <2>2
<1>3. \A k : Carries(t, k).txn = t /\ Carries(t, k).key = k
  BY DEF Carries
<1>4. ASSUME NEW c \in Lanes, NEW i \in DOMAIN reads'[c]
      PROVE  \/ i \in DOMAIN reads[c] /\ reads'[c][i] = reads[c][i]
             \/ /\ c[1] = n /\ c[3] = w /\ c[2] \in Active(t) /\ i \notin DOMAIN reads[c]
                /\ reads'[c][i].txn = t /\ reads'[c][i].key \in rows
                /\ \A j \in DOMAIN reads'[c] :
                     j \notin DOMAIN reads[c] /\ reads'[c][j].key = reads'[c][i].key => j = i
  <2>1. \/ i \in DOMAIN reads[c] /\ reads'[c][i] = reads[c][i]
        \/ /\ c[1] = n /\ c[3] = w /\ c[2] \in Active(t) /\ i \notin DOMAIN reads[c]
           /\ reads'[c][i].key \in RowsOf(t, n, Serves(w))
           /\ reads'[c][i] = Carries(t, reads'[c][i].key)
           /\ \A j \in DOMAIN reads'[c] :
                j \notin DOMAIN reads[c] /\ reads'[c][j].key = reads'[c][i].key => j = i
    BY BeginSends
  <2> QED
    BY <1>3, <2>1
<1> HIDE DEF rows
<1>5. ASSUME NEW c \in Lanes, NEW i \in DOMAIN reads'[c]
      PROVE  /\ reads'[c][i].txn \in todo[c[1]] /\ c[2] \in Active(reads'[c][i].txn)
             /\ reads'[c][i].key \in prog[reads'[c][i].txn].reads
             /\ Owner[reads'[c][i].key] = c[1] /\ ManagerOf[reads'[c][i].key] = Serves(c[3])
             /\ ~LacksAfter(reads'[c][i].txn, reads'[c][i].key)
  <2>1. CASE i \in DOMAIN reads[c] /\ reads'[c][i] = reads[c][i]
    <3> DEFINE u == reads[c][i].txn
               k == reads[c][i].key
    <3>1. /\ u \in Txns /\ u \in todo[c[1]] /\ c[2] \in Active(u) /\ k \in prog[u].reads
          /\ Owner[k] = c[1] /\ ManagerOf[k] = Serves(c[3]) /\ ~Lacks(u, k)
      BY <1>2, <2>1
    <3>2. reads'[c][i].txn = u /\ reads'[c][i].key = k
      BY <2>1
    <3> HIDE DEF u, k
    <3>3. ~LacksAfter(u, k)
      <4>1. \A v \in Txns : \A j \in prog[v].reads : ~Lacks(v, j) => ~LacksAfter(v, j)
        BY <1>1, LacksNext
      <4> QED
        BY <3>1, <4>1
    <3> QED
      BY <3>1, <3>2, <3>3
  <2>2. CASE ~(i \in DOMAIN reads[c] /\ reads'[c][i] = reads[c][i])
    <3>1. c[1] = n /\ c[3] = w /\ c[2] \in Active(t) /\ reads'[c][i].txn = t
          /\ reads'[c][i].key \in rows
      BY <1>4, <2>2
    <3>2. PICK k \in rows : reads'[c][i].key = k
      BY <3>1
    <3>3. k \in prog[t].reads /\ ~Lacks(t, k)' /\ Owner[k] = n /\ ManagerOf[k] = Serves(w)
      BY <1>1
    <3>4. ~LacksAfter(t, k)
      BY <3>3, LacksNext
    <3> QED
      BY <1>1, <3>1, <3>2, <3>3, <3>4
  <2> QED
    BY <2>1, <2>2
<1>6. ASSUME NEW c \in Lanes, NEW d \in Lanes, c[1] = d[1], c[2] = d[2],
             NEW i \in DOMAIN reads'[c], NEW j \in DOMAIN reads'[d],
             reads'[c][i].txn = reads'[d][j].txn, reads'[c][i].key = reads'[d][j].key
      PROVE  c = d /\ i = j
  <2>1. CASE /\ i \in DOMAIN reads[c] /\ reads'[c][i] = reads[c][i]
             /\ j \in DOMAIN reads[d] /\ reads'[d][j] = reads[d][j]
    BY <1>6, <2>1 DEF ReadsInOrder
  <2>2. CASE /\ i \in DOMAIN reads[c] /\ reads'[c][i] = reads[c][i]
             /\ ~(j \in DOMAIN reads[d] /\ reads'[d][j] = reads[d][j])
    <3>1. reads'[d][j].txn = t /\ reads'[d][j].key \in rows
      BY <1>4, <2>2
    <3>2. reads[c][i].txn = t /\ reads[c][i].key \in rows
      BY <1>6, <2>2, <3>1
    <3> QED
      BY <1>2, <2>2, <3>2
  <2>3. CASE /\ ~(i \in DOMAIN reads[c] /\ reads'[c][i] = reads[c][i])
             /\ j \in DOMAIN reads[d] /\ reads'[d][j] = reads[d][j]
    <3>1. reads'[c][i].txn = t /\ reads'[c][i].key \in rows
      BY <1>4, <2>3
    <3>2. reads[d][j].txn = t /\ reads[d][j].key \in rows
      BY <1>6, <2>3, <3>1
    <3> QED
      BY <1>2, <2>3, <3>2
  <2>4. CASE /\ ~(i \in DOMAIN reads[c] /\ reads'[c][i] = reads[c][i])
             /\ ~(j \in DOMAIN reads[d] /\ reads'[d][j] = reads[d][j])
    <3>1. /\ c[3] = w /\ i \notin DOMAIN reads[c]
          /\ \A x \in DOMAIN reads'[c] :
               x \notin DOMAIN reads[c] /\ reads'[c][x].key = reads'[c][i].key => x = i
      BY <1>4, <2>4
    <3>2. d[3] = w /\ j \notin DOMAIN reads[d]
      BY <1>4, <2>4
    <3>3. c = d
      BY <1>6, <3>1, <3>2, LaneFacts
    <3> QED
      BY <1>6, <3>1, <3>2, <3>3
  <2> QED
    BY <2>1, <2>2, <2>3, <2>4
<1> QED
  BY <1>5, <1>6, ReadsNext


\* A row that has been read is on its way to the other active nodes.
LEMMA BeginWay ==
  ASSUME LockInv, ProgTypes, UNCHANGED <<prog, todo>>,
         NEW n \in Nodes, NEW w \in Executors, NEW t, BeginEffect(n, w, t),
         NEW u, NEW k, NEW o \in Nodes
  PROVE  OnItsWay(u, k, o)' <=>
           \/ OnItsWay(u, k, o)
           \/ u = t /\ k \in RowsOf(t, n, Serves(w)) /\ o \in Active(t) /\ o # n
<1>1. \A j : Carries(t, j).txn = t /\ Carries(t, j).key = j
  BY DEF Carries
<1>2. OnItsWay(u, k, o)' <=>
        \E c \in Lanes : c[1] = Owner[k] /\ c[2] = o
          /\ \E i \in DOMAIN reads'[c] : reads'[c][i].txn = u /\ reads'[c][i].key = k
  BY DEF OnItsWay
<1>3. OnItsWay(u, k, o) => OnItsWay(u, k, o)'
  <2>1. \A c \in Lanes : \A i \in DOMAIN reads[c] :
          i \in DOMAIN reads'[c] /\ reads'[c][i] = reads[c][i]
    BY BeginSends
  <2> QED
    BY <1>2, <2>1 DEF OnItsWay
<1>4. ASSUME u = t, k \in RowsOf(t, n, Serves(w)), o \in Active(t), o # n
      PROVE  OnItsWay(u, k, o)'
  <2>1. <<n, o, w>> \in Lanes /\ Owner[k] = n
    BY <1>4, LaneFacts DEF RowsOf, RowsAt
  <2>2. \E i \in DOMAIN reads'[<<n, o, w>>] : reads'[<<n, o, w>>][i] = Carries(t, k)
    <3>1. \A c \in Lanes : c[1] = n /\ c[3] = w /\ c[2] \in Active(t) =>
            \A j \in RowsOf(t, n, Serves(w)) :
              \E i \in DOMAIN reads'[c] : reads'[c][i] = Carries(t, j)
      BY BeginSends
    <3> QED
      BY <1>4, <2>1, <3>1
  <2> QED
    BY <1>1, <1>2, <1>4, <2>1, <2>2
<1>5. ASSUME NEW c \in Lanes, c[1] = Owner[k], c[2] = o,
             NEW i \in DOMAIN reads'[c], reads'[c][i].txn = u, reads'[c][i].key = k
      PROVE  \/ OnItsWay(u, k, o)
             \/ u = t /\ k \in RowsOf(t, n, Serves(w)) /\ o \in Active(t) /\ o # n
  <2>1. \/ i \in DOMAIN reads[c] /\ reads'[c][i] = reads[c][i]
        \/ /\ c[1] = n /\ c[3] = w /\ c[2] \in Active(t) /\ i \notin DOMAIN reads[c]
           /\ reads'[c][i].key \in RowsOf(t, n, Serves(w))
           /\ reads'[c][i] = Carries(t, reads'[c][i].key)
    BY BeginSends
  <2>2. c[1] # c[2]
    BY LaneFacts
  <2> QED
    BY <1>1, <1>5, <2>1, <2>2 DEF OnItsWay
<1> QED
  BY <1>2, <1>3, <1>4, <1>5

LEMMA BeginCounts ==
  ASSUME LockInv, ProgTypes, Counted, UNCHANGED <<prog, todo>>,
         NEW n \in Nodes, NEW w \in Executors, NEW t, BeginEffect(n, w, t)
  PROVE  Counted'
<1> DEFINE rows == RowsOf(t, n, Serves(w))
           m == Serves(w)
<1>0. /\ ReadsInOrder
      /\ \A o \in Nodes : \A u \in todo[o] : CountExact(u, o) /\ RunExact(u, o)
      /\ \A o \in Nodes : todo[o] \subseteq Txns
  BY CountedIff DEF LockInv, ScheduleTypeOK
<1>1. /\ t \in Txns /\ t \in todo[n]
      /\ \A k \in rows : Lacks(t, k)
      /\ \A u \in Txns : \A k \in prog[u].reads :
           Lacks(u, k)' <=> Lacks(u, k) /\ ~(u = t /\ k \in rows)
  BY BeginLacks
<1>2. /\ \A k \in rows : Owner[k] = n /\ ManagerOf[k] = m /\ k \in prog[t].reads
      /\ \A k \in RowsAt(t, n) : k \in rows <=> ManagerOf[k] = m
  BY DEF RowsOf, RowsAt
<1>3. /\ \A o \in Nodes : \A u \in Txns :
           local'[o][u] = IF o = n /\ u = t THEN local[n][t] - Cardinality(rows) ELSE local[o][u]
      /\ remote' = remote /\ ran' = ran
  BY DEF BeginEffect
<1>4. \A o \in Nodes, p \in Managers, u \in Txns :
        InHand(o, p, u)' <=> InHand(o, p, u) \/ (o = n /\ p = m /\ u = t)
  BY BeginPlaces
<1>5. \A u, k : \A o \in Nodes : OnItsWay(u, k, o)' <=>
         \/ OnItsWay(u, k, o)
         \/ u = t /\ k \in rows /\ o \in Active(t) /\ o # n
  BY BeginWay
<1>6. m \in Managers /\ \A u \in Txns : \A o : \A k \in RowsAt(u, o) :
        ManagerOf[k] \in Managers /\ Owner[k] = o /\ k \in prog[u].reads
  BY RowPlace, WorkersServe DEF RowsAt, ProgTypes
<1>7. rows # {}
  <2>1. Waits(n, m, t)
    BY BeginPlaces
  <2> QED
    BY <1>1, <1>6, <2>1, HandedOutDealt
<1> HIDE DEF rows, m
<1>8. ASSUME NEW o \in Nodes, NEW u \in todo[o], u # t
      PROVE  CountExact(u, o)' /\ RunExact(u, o)'
  <2>1. u \in Txns /\ CountExact(u, o) /\ RunExact(u, o)
    BY <1>0
  <2>2. \A k \in prog[u].reads : Lacks(u, k)' <=> Lacks(u, k)
    BY <1>1, <1>8, <2>1
  <2>3. LocalGap(u, o)' = LocalGap(u, o) /\ RemoteGap(u, o)' = RemoteGap(u, o)
    <3>1. \A k : OnItsWay(u, k, o)' <=> OnItsWay(u, k, o)
      BY <1>5, <1>8
    <3> QED
      BY <2>2, <3>1, LocalSame, RemoteSame
  <2>4. \A k \in RowsAt(u, o) : InHand(o, ManagerOf[k], u)' <=> InHand(o, ManagerOf[k], u)
    BY <1>4, <1>6, <1>8, <2>1
  <2>5. local'[o][u] = local[o][u] /\ remote'[o][u] = remote[o][u] /\ ran'[o][u] = ran[o][u]
    BY <1>3, <1>8, <2>1
  <2>6. \A k \in RowsAt(u, o) : Lacks(u, k)' <=> Lacks(u, k)
    BY <1>6, <2>1, <2>2
  <2> QED
    BY <2>1, <2>3, <2>4, <2>5, <2>6, ExactKept
<1>9. ASSUME NEW o \in Nodes, t \in todo[o], o # n
      PROVE  CountExact(t, o)' /\ RunExact(t, o)'
  <2>1. CountExact(t, o) /\ RunExact(t, o)
    BY <1>0, <1>9
  <2>2. CASE o \notin Active(t)
    BY <1>3, <2>1, <2>2, ExactIdle
  <2>3. CASE o \in Active(t)
    <3>1. \A k \in prog[t].reads : Lacks(t, k)' <=> Lacks(t, k) /\ k \notin rows
      BY <1>1
    <3>2. \A k : OnItsWay(t, k, o)' <=> OnItsWay(t, k, o) \/ k \in rows
      BY <1>5, <1>9, <2>3
    <3>3. \A k \in rows : Lacks(t, k) /\ Owner[k] = n
      BY <1>1, <1>2
    <3>4. LocalGap(t, o)' = LocalGap(t, o) /\ RemoteGap(t, o)' = RemoteGap(t, o)
      BY <1>9, <3>1, <3>2, <3>3, LocalSame, RemoteSame
    <3>5. \A k \in RowsAt(t, o) : /\ InHand(o, ManagerOf[k], t)' <=> InHand(o, ManagerOf[k], t)
                                  /\ Lacks(t, k)' <=> Lacks(t, k)
      BY <1>1, <1>4, <1>6, <1>9, <3>1, <3>3
    <3>6. local'[o][t] = local[o][t] /\ remote'[o][t] = remote[o][t] /\ ran'[o][t] = ran[o][t]
      BY <1>1, <1>3, <1>9
    <3> QED
      BY <2>1, <3>4, <3>5, <3>6, ExactKept
  <2> QED
    BY <2>2, <2>3
<1>10. CountExact(t, n)' /\ RunExact(t, n)'
  <2>1. CountExact(t, n) /\ RunExact(t, n)
    BY <1>0, <1>1
  <2>2. CASE n \notin Active(t)
    BY <1>3, <2>1, <2>2, ExactIdle
  <2>3. CASE n \in Active(t)
    <3>1. LocalGap(t, n)' = LocalGap(t, n) \ rows /\ rows \subseteq LocalGap(t, n)
      BY <1>1, <1>2, GapsIff, GapsIffNext
    <3>2. RemoteGap(t, n)' = RemoteGap(t, n)
      <4>1. \A k : OnItsWay(t, k, n)' <=> OnItsWay(t, k, n)
        BY <1>5
      <4>2. \A k \in prog[t].reads : Owner[k] # n => (Lacks(t, k)' <=> Lacks(t, k))
        BY <1>1, <1>2
      <4> QED
        BY <4>1, <4>2, RemoteSame
    <3>3. Cardinality(LocalGap(t, n) \ rows) = Cardinality(LocalGap(t, n)) - Cardinality(rows)
      <4>1. IsFiniteSet(LocalGap(t, n)) /\ IsFiniteSet(rows)
        BY <1>1, <3>1, GapsFinite, FS_Subset
      <4>2. Cardinality(LocalGap(t, n) \ rows) =
              Cardinality(LocalGap(t, n)) - Cardinality(LocalGap(t, n) \cap rows)
        BY <4>1, FS_Difference
      <4>3. LocalGap(t, n) \cap rows = rows
        BY <3>1
      <4> QED
        BY <4>2, <4>3
    <3>4. /\ local'[n][t] = Cardinality(LocalGap(t, n)')
          /\ remote'[n][t] = Cardinality(RemoteGap(t, n)')
      BY <1>1, <1>3, <2>1, <2>3, <3>1, <3>2, <3>3 DEF CountExact
    <3>5. ran[n][t] = 0 /\ ran'[n][t] = 0
      <4>1. ran[n][t] \in Nat
        BY <1>1 DEF LockInv, ScheduleTypeOK
      <4>2. LocalGap(t, n) # {}
        BY <1>7, <3>1
      <4> QED
        BY <1>3, <2>1, <4>1, <4>2 DEF RunExact
    <3>6. ASSUME NEW k \in RowsAt(t, n) PROVE Lacks(t, k)' \/ InHand(n, ManagerOf[k], t)'
      <4>1. CASE k \in rows
        BY <1>1, <1>2, <1>4, <1>6, <4>1
      <4>2. CASE k \notin rows
        <5>1. Lacks(t, k) \/ InHand(n, ManagerOf[k], t)
          BY <2>1, <2>3, <3>5 DEF RunExact
        <5> QED
          BY <1>1, <1>4, <1>6, <4>2, <5>1
      <4> QED
        BY <4>1, <4>2
    <3> QED
      BY <2>3, <3>4, <3>5, <3>6, ExactNext
  <2> QED
    BY <2>2, <2>3
<1>11. ReadsInOrder'
  BY <1>0, BeginReads
<1>12. (\A o \in Nodes : \A u \in todo[o] : CountExact(u, o) /\ RunExact(u, o))'
  BY <1>8, <1>9, <1>10
<1> QED
  BY <1>11, <1>12, CountedNext


LEMMA FinishCounts ==
  ASSUME LockInv, ProgTypes, Counted, UNCHANGED <<prog, todo>>,
         NEW n \in Nodes, NEW w \in Executors, NEW t, t = running[n][w], FinishEffect(n, w, t)
  PROVE  /\ Counted'
         /\ n \in Active(t) => LocalGap(t, n) = {} /\ RemoteGap(t, n) = {}
<1> DEFINE m == Serves(w)
<1>0. /\ ReadsInOrder
      /\ \A o \in Nodes : \A u \in todo[o] : CountExact(u, o) /\ RunExact(u, o)
      /\ \A o \in Nodes : todo[o] \subseteq Txns
  BY CountedIff DEF LockInv, ScheduleTypeOK
<1>1. /\ t \in Txns /\ dealt' = dealt /\ queue' = queue /\ reads' = reads
      /\ local' = local /\ remote' = remote
      /\ n \in Active(t) => local[n][t] <= 0 /\ remote[n][t] <= 0
      /\ \A o \in Nodes : \A u \in Txns :
           ran'[o][u] = IF o = n /\ u = t /\ n \in Active(t) THEN ran[n][t] + 1 ELSE ran[o][u]
  BY DEF FinishEffect
<1>2. /\ InHand(n, m, t)
      /\ \A o \in Nodes, p \in Managers, u \in Txns :
           InHand(o, p, u)' <=> InHand(o, p, u) /\ ~(o = n /\ p = m /\ u = t)
  BY FinishPlaces
<1>3. m \in Managers /\ \A u \in Txns : \A o : \A k \in RowsAt(u, o) :
        ManagerOf[k] \in Managers /\ Owner[k] = o /\ k \in prog[u].reads
  BY RowPlace, WorkersServe DEF RowsAt, ProgTypes
<1>4. /\ t \in todo[n] /\ t \in dealt[n][m] /\ ~Waits(n, m, t)
      /\ \E k \in RowsAt(t, n) : ManagerOf[k] = m
  <2>1. t \in todo[n] /\ t \in dealt[n][m] /\ ~Waits(n, m, t) /\ RowsOf(t, n, m) # {}
    BY <1>1, <1>2, <1>3, HandedOutDealt
  <2> QED
    BY <2>1 DEF RowsOf
<1> HIDE DEF m
<1>5. \A u, k : Lacks(u, k)' <=> Lacks(u, k)
  BY <1>1 DEF Lacks, Unread, Waits
<1>6. \A u, o : LocalGap(u, o)' = LocalGap(u, o) /\ RemoteGap(u, o)' = RemoteGap(u, o)
  BY <1>1, <1>5, GapsKept
<1>7. n \in Active(t) => LocalGap(t, n) = {} /\ RemoteGap(t, n) = {}
  <2>1. CountExact(t, n)
    BY <1>0, <1>4
  <2>2. /\ Cardinality(LocalGap(t, n)) \in Nat /\ Cardinality(RemoteGap(t, n)) \in Nat
        /\ Cardinality(LocalGap(t, n)) = 0 => LocalGap(t, n) = {}
        /\ Cardinality(RemoteGap(t, n)) = 0 => RemoteGap(t, n) = {}
    BY <1>1, GapsFinite
  <2> QED
    BY <1>1, <2>1, <2>2 DEF CountExact
<1>8. ReadsInOrder'
  <2>1. ASSUME NEW c \in Lanes, NEW i \in DOMAIN reads'[c]
        PROVE  /\ reads'[c][i].txn \in todo[c[1]] /\ c[2] \in Active(reads'[c][i].txn)
               /\ reads'[c][i].key \in prog[reads'[c][i].txn].reads
               /\ Owner[reads'[c][i].key] = c[1] /\ ManagerOf[reads'[c][i].key] = Serves(c[3])
               /\ ~LacksAfter(reads'[c][i].txn, reads'[c][i].key)
    BY <1>0, <1>1, <1>5, <2>1, MessageRow, LacksNext
  <2> QED
    BY <1>0, <1>1, <2>1, ReadsNext DEF ReadsInOrder
<1>9. ASSUME NEW o \in Nodes, NEW u \in todo[o], ~(o = n /\ u = t)
      PROVE  CountExact(u, o)' /\ RunExact(u, o)'
  <2>1. u \in Txns /\ CountExact(u, o) /\ RunExact(u, o)
    BY <1>0
  <2>2. \A k \in RowsAt(u, o) : InHand(o, ManagerOf[k], u)' <=> InHand(o, ManagerOf[k], u)
    BY <1>2, <1>3, <1>9, <2>1
  <2>3. local'[o][u] = local[o][u] /\ remote'[o][u] = remote[o][u] /\ ran'[o][u] = ran[o][u]
    BY <1>1, <1>9, <2>1
  <2> QED
    BY <1>5, <1>6, <2>1, <2>2, <2>3, ExactKept
<1>10. CountExact(t, n)' /\ RunExact(t, n)'
  <2>1. CountExact(t, n) /\ RunExact(t, n)
    BY <1>0, <1>4
  <2>2. CASE n \notin Active(t)
    BY <1>1, <2>1, <2>2, ExactIdle
  <2>3. CASE n \in Active(t)
    <3>1. ran'[n][t] = ran[n][t] + 1 /\ ran[n][t] \in Nat
      BY <1>1, <2>3 DEF LockInv, ScheduleTypeOK
    <3>2. ASSUME ~Split(t, n), NEW k \in RowsAt(t, n)
          PROVE  ran[n][t] = 0 /\ ~Lacks(t, k)' /\ ~InHand(n, ManagerOf[k], t)'
      <4>1. ManagerOf[k] = m /\ Owner[k] = n
        <5>1. Owner[k] = n
          BY <1>1, <1>3
        <5>2. ManagerOf[k] = m
          BY <1>4, <3>2 DEF Split
        <5> QED
          BY <5>1, <5>2
      <4>2. ran[n][t] = 0
        BY <1>2, <2>1, <2>3, <3>2, <4>1 DEF RunExact
      <4>3. ~Lacks(t, k)
        BY <1>4, <4>1 DEF Lacks, Unread
      <4>4. ~InHand(n, ManagerOf[k], t)'
        BY <1>1, <1>2, <1>3, <4>1
      <4> QED
        BY <1>5, <4>2, <4>3, <4>4
    <3>3. /\ local'[n][t] = Cardinality(LocalGap(t, n)')
          /\ remote'[n][t] = Cardinality(RemoteGap(t, n)')
      BY <1>1, <1>6, <2>1, <2>3 DEF CountExact
    <3>4. LocalGap(t, n)' = {} /\ RemoteGap(t, n)' = {}
      BY <1>6, <1>7, <2>3
    <3>5. ASSUME NEW k \in RowsAt(t, n)
          PROVE  /\ ran'[n][t] = 0 => Lacks(t, k)' \/ InHand(n, ManagerOf[k], t)'
                 /\ ~Split(t, n) =>
                      /\ ran'[n][t] <= 1
                      /\ Lacks(t, k)' \/ InHand(n, ManagerOf[k], t)' => ran'[n][t] = 0
      BY <3>1, <3>2
    <3> QED
      BY <2>3, <3>3, <3>4, <3>5, ExactNext
  <2> QED
    BY <2>2, <2>3
<1>11. (\A o \in Nodes : \A u \in todo[o] : CountExact(u, o) /\ RunExact(u, o))'
  BY <1>9, <1>10
<1>12. Counted'
  BY <1>8, <1>11, CountedNext
<1> QED
  BY <1>7, <1>12

\* One message less.
LEMMA ReceiveReads ==
  ASSUME LockInv, UNCHANGED <<prog, todo>>, NEW c \in Lanes, NEW msg, ReceiveEffect(c, msg)
  PROVE  \A d \in Lanes :
           /\ \A i \in DOMAIN reads'[d] :
                LET j == IF d = c THEN i + 1 ELSE i
                IN  /\ j \in DOMAIN reads[d] /\ reads'[d][i] = reads[d][j]
                    /\ ~(d = c /\ j = 1) /\ i \in Int
           /\ \A j \in DOMAIN reads[d] : ~(d = c /\ j = 1) =>
                \E i \in DOMAIN reads'[d] : reads'[d][i] = reads[d][j]
<1>1. /\ reads[c] # <<>>
      /\ \A d \in Lanes : reads'[d] = IF d = c THEN Tail(reads[c]) ELSE reads[d]
  BY DEF ReceiveEffect
<1> SUFFICES ASSUME NEW d \in Lanes
             PROVE  /\ \A i \in DOMAIN reads'[d] :
                         LET j == IF d = c THEN i + 1 ELSE i
                         IN  /\ j \in DOMAIN reads[d] /\ reads'[d][i] = reads[d][j]
                             /\ ~(d = c /\ j = 1) /\ i \in Int
                    /\ \A j \in DOMAIN reads[d] : ~(d = c /\ j = 1) =>
                         \E i \in DOMAIN reads'[d] : reads'[d][i] = reads[d][j]
  OBVIOUS
<1>2. reads[d] \in Seq(ReadMsg)
  BY DEF LockInv, ScheduleTypeOK, ReadMsg
<1>3. CASE d = c
  <2>1. /\ Len(reads[d]) \in Nat \ {0} /\ DOMAIN reads[d] = 1..Len(reads[d])
        /\ DOMAIN reads'[d] = 1..Len(reads[d]) - 1
        /\ \A i \in 1..Len(reads[d]) - 1 : reads'[d][i] = reads[d][i + 1]
    <3>1. reads'[d] = Tail(reads[d]) /\ reads[d] # <<>>
      BY <1>1, <1>3
    <3> QED
      BY <1>2, <3>1
  <2>2. ASSUME NEW j \in DOMAIN reads[d], j # 1
        PROVE  \E i \in DOMAIN reads'[d] : reads'[d][i] = reads[d][j]
    <3>1. j - 1 \in DOMAIN reads'[d] /\ (j - 1) + 1 = j
      BY <2>1, <2>2
    <3> QED
      BY <2>1, <3>1
  <2> QED
    BY <1>3, <2>1, <2>2
<1>4. CASE d # c
  <2>1. reads'[d] = reads[d] /\ \A i \in DOMAIN reads[d] : i \in Int
    BY <1>1, <1>2, <1>4
  <2> QED
    BY <1>4, <2>1
<1> QED
  BY <1>3, <1>4


LEMMA ReceiveWay ==
  ASSUME LockInv, UNCHANGED <<prog, todo>>, NEW c \in Lanes, NEW msg, ReceiveEffect(c, msg),
         NEW u, NEW k, NEW o, ~(u = msg.txn /\ k = msg.key /\ o = c[2]), OnItsWay(u, k, o)
  PROVE  OnItsWay(u, k, o)'
<1>1. PICK d \in Lanes : d[1] = Owner[k] /\ d[2] = o
        /\ \E j \in DOMAIN reads[d] : reads[d][j].txn = u /\ reads[d][j].key = k
  BY DEF OnItsWay
<1>2. PICK j \in DOMAIN reads[d] : reads[d][j].txn = u /\ reads[d][j].key = k
  BY <1>1
<1>3. ~(d = c /\ j = 1)
  BY <1>1, <1>2 DEF ReceiveEffect
<1>4. PICK i \in DOMAIN reads'[d] : reads'[d][i] = reads[d][j]
  BY <1>3, ReceiveReads
<1> QED
  BY <1>1, <1>2, <1>4 DEF OnItsWay

LEMMA ReceiveCounts ==
  ASSUME LockInv, ProgTypes, Counted, UNCHANGED <<prog, todo>>,
         NEW c \in Lanes, NEW msg, ReceiveEffect(c, msg),
         NEW t, NEW r, NEW n, t = msg.txn, r = msg.key, n = c[2]
  PROVE  /\ Counted'
         /\ t \in todo[c[1]] /\ n \in Active(t) /\ r \in prog[t].reads
         /\ r \in RemoteGap(t, n)
         /\ \A k \in prog[t].reads :
              k \in RemoteGap(t, n)' <=> k \in RemoteGap(t, n) /\ k # r
<1> DEFINE At(d, i) == IF d = c THEN i + 1 ELSE i
<1>0. /\ ReadsInOrder
      /\ \A o \in Nodes : \A u \in todo[o] : CountExact(u, o) /\ RunExact(u, o)
      /\ \A o \in Nodes : todo[o] \subseteq Txns
  BY CountedIff DEF LockInv, ScheduleTypeOK
<1>1. /\ t \in Txns /\ r \in Keys /\ n \in Nodes /\ c[1] \in Nodes /\ c[1] # n
      /\ 1 \in DOMAIN reads[c] /\ reads[c][1] = msg
      /\ dealt' = dealt /\ queue' = queue /\ running' = running
      /\ local' = local /\ ran' = ran
      /\ \A o \in Nodes : \A u \in Txns :
           remote'[o][u] = IF o = n /\ u = t THEN remote[o][u] - 1 ELSE remote[o][u]
  BY DEF ReceiveEffect
<1>2. \A u, k : Lacks(u, k)' <=> Lacks(u, k)
  BY <1>1 DEF Lacks, Unread, Waits
<1>3. \A d \in Lanes :
        /\ \A i \in DOMAIN reads'[d] :
             /\ At(d, i) \in DOMAIN reads[d] /\ reads'[d][i] = reads[d][At(d, i)]
             /\ ~(d = c /\ At(d, i) = 1) /\ i \in Int
        /\ \A j \in DOMAIN reads[d] : ~(d = c /\ j = 1) =>
             \E i \in DOMAIN reads'[d] : reads'[d][i] = reads[d][j]
  BY ReceiveReads
<1>4. /\ t \in todo[c[1]] /\ n \in Active(t) /\ r \in prog[t].reads
      /\ Owner[r] = c[1] /\ ~Lacks(t, r)
  BY <1>0, <1>1, MessageRow
<1>5. \A d, e \in Lanes : d[1] = e[1] /\ d[2] = e[2] =>
        \A i \in DOMAIN reads[d], j \in DOMAIN reads[e] :
          reads[d][i].txn = reads[e][j].txn /\ reads[d][i].key = reads[e][j].key =>
            d = e /\ i = j
  BY <1>0 DEF ReadsInOrder
<1>6. ReadsInOrder'
  <2>1. ASSUME NEW d \in Lanes, NEW i \in DOMAIN reads'[d]
        PROVE  /\ reads'[d][i].txn \in todo[d[1]] /\ d[2] \in Active(reads'[d][i].txn)
               /\ reads'[d][i].key \in prog[reads'[d][i].txn].reads
               /\ Owner[reads'[d][i].key] = d[1] /\ ManagerOf[reads'[d][i].key] = Serves(d[3])
               /\ ~LacksAfter(reads'[d][i].txn, reads'[d][i].key)
    <3>1. PICK j \in DOMAIN reads[d] : reads'[d][i] = reads[d][j]
      BY <1>3, <2>1
    <3>2. /\ reads[d][j].txn \in todo[d[1]] /\ d[2] \in Active(reads[d][j].txn)
          /\ reads[d][j].key \in prog[reads[d][j].txn].reads
          /\ Owner[reads[d][j].key] = d[1] /\ ManagerOf[reads[d][j].key] = Serves(d[3])
          /\ ~Lacks(reads[d][j].txn, reads[d][j].key)
      BY <1>0, MessageRow
    <3>3. \A u, k : ~Lacks(u, k) => ~LacksAfter(u, k)
      BY <1>2, LacksNext
    <3> QED
      BY <3>1, <3>2, <3>3
  <2>2. ASSUME NEW d \in Lanes, NEW e \in Lanes, d[1] = e[1], d[2] = e[2],
               NEW i \in DOMAIN reads'[d], NEW j \in DOMAIN reads'[e],
               reads'[d][i].txn = reads'[e][j].txn, reads'[d][i].key = reads'[e][j].key
        PROVE  d = e /\ i = j
    <3>1. /\ At(d, i) \in DOMAIN reads[d] /\ reads'[d][i] = reads[d][At(d, i)] /\ i \in Int
          /\ At(e, j) \in DOMAIN reads[e] /\ reads'[e][j] = reads[e][At(e, j)] /\ j \in Int
      BY <1>3, <2>2
    <3> HIDE DEF At
    <3>2. d = e /\ At(d, i) = At(e, j)
      BY <1>5, <2>2, <3>1
    <3> QED
      BY <3>1, <3>2 DEF At
  <2> QED
    BY <2>1, <2>2, ReadsNext
<1>7. ASSUME NEW u, NEW k, NEW o
      PROVE  OnItsWay(u, k, o)' <=> OnItsWay(u, k, o) /\ ~(u = t /\ k = r /\ o = n)
  <2>1. OnItsWay(u, k, o)' <=>
          \E d \in Lanes : d[1] = Owner[k] /\ d[2] = o
            /\ \E i \in DOMAIN reads'[d] : reads'[d][i].txn = u /\ reads'[d][i].key = k
    BY DEF OnItsWay
  <2>2. ASSUME NEW d \in Lanes, d[1] = Owner[k], d[2] = o,
               NEW i \in DOMAIN reads'[d], reads'[d][i].txn = u, reads'[d][i].key = k
        PROVE  OnItsWay(u, k, o) /\ ~(u = t /\ k = r /\ o = n)
    <3>1. /\ At(d, i) \in DOMAIN reads[d] /\ reads'[d][i] = reads[d][At(d, i)]
          /\ ~(d = c /\ At(d, i) = 1)
      BY <1>3, <2>2
    <3> HIDE DEF At
    <3>2. OnItsWay(u, k, o)
      BY <2>2, <3>1 DEF OnItsWay
    <3>3. CASE u = t /\ k = r /\ o = n
      <4>1. reads[d][At(d, i)].txn = reads[c][1].txn /\ reads[d][At(d, i)].key = reads[c][1].key
            /\ d[1] = c[1] /\ d[2] = c[2]
        BY <1>1, <1>4, <2>2, <3>1, <3>3
      <4> QED
        BY <1>1, <1>5, <3>1, <4>1
    <3> QED
      BY <3>2, <3>3
  <2>3. ASSUME NEW d \in Lanes, d[1] = Owner[k], d[2] = o,
               NEW j \in DOMAIN reads[d], reads[d][j].txn = u, reads[d][j].key = k,
               ~(u = t /\ k = r /\ o = n)
        PROVE  OnItsWay(u, k, o)'
    <3>1. ~(d = c /\ j = 1)
      BY <1>1, <2>3
    <3>2. PICK i \in DOMAIN reads'[d] : reads'[d][i] = reads[d][j]
      BY <1>3, <3>1
    <3> QED
      BY <2>1, <2>3, <3>2
  <2> QED
    BY <2>1, <2>2, <2>3 DEF OnItsWay
<1>8. ASSUME NEW u, NEW o PROVE LocalGap(u, o)' = LocalGap(u, o)
  BY <1>2, LocalSame
<1>9. r \in RemoteGap(t, n)
  <2>1. OnItsWay(t, r, n)
    BY <1>1, <1>4 DEF OnItsWay
  <2> QED
    BY <1>1, <1>4, <2>1, GapsIff
<1>10. \A k \in prog[t].reads : k \in RemoteGap(t, n)' <=> k \in RemoteGap(t, n) /\ k # r
  <2>1. /\ RemoteGap(t, n) =
             {k \in prog[t].reads : Owner[k] # n /\ (Lacks(t, k) \/ OnItsWay(t, k, n))}
        /\ \A k : k = r => ~Lacks(t, k)
    BY <1>4, GapsIff
  <2>2. RemoteGap(t, n)' =
          {k \in prog[t].reads : Owner[k] # n /\ (Lacks(t, k)' \/ OnItsWay(t, k, n)')}
    BY GapsIffNext
  <2>3. ASSUME NEW k \in prog[t].reads
        PROVE  k \in RemoteGap(t, n)' <=> k \in RemoteGap(t, n) /\ k # r
    <3>1. Lacks(t, k)' <=> Lacks(t, k)
      BY <1>2
    <3>2. OnItsWay(t, k, n)' <=> OnItsWay(t, k, n) /\ k # r
      BY <1>7
    <3> QED
      BY <2>1, <2>2, <3>1, <3>2
  <2> QED
    BY <2>3
<1>11. ASSUME NEW o \in Nodes, NEW u \in todo[o]
       PROVE  CountExact(u, o)' /\ RunExact(u, o)'
  <2>1. u \in Txns /\ CountExact(u, o) /\ RunExact(u, o)
    BY <1>0
  <2>2. \A k \in RowsAt(u, o) : InHand(o, ManagerOf[k], u)' <=> InHand(o, ManagerOf[k], u)
    BY <1>1 DEF InHand
  <2>3. local'[o][u] = local[o][u] /\ ran'[o][u] = ran[o][u]
    BY <1>1
  <2>4. CASE ~(u = t /\ o = n)
    <3>1. RemoteGap(u, o)' = RemoteGap(u, o)
      BY <1>2, <1>7, <2>4, RemoteSame
    <3>2. remote'[o][u] = remote[o][u]
      BY <1>1, <2>1, <2>4
    <3> QED
      BY <1>2, <1>8, <2>1, <2>2, <2>3, <3>1, <3>2, ExactKept
  <2>5. CASE u = t /\ o = n
    <3>1. RemoteGap(t, n)' = RemoteGap(t, n) \ {r}
      <4>1. RemoteGap(t, n)' \subseteq prog[t].reads /\ RemoteGap(t, n) \subseteq prog[t].reads
        BY GapsIff, GapsIffNext
      <4> QED
        BY <1>10, <4>1
    <3>2. remote[n][t] = Cardinality(RemoteGap(t, n)) /\ IsFiniteSet(RemoteGap(t, n))
          /\ Cardinality(RemoteGap(t, n)) \in Nat
      BY <1>4, <2>1, <2>5, GapsFinite DEF CountExact
    <3>3. remote'[n][t] = Cardinality(RemoteGap(t, n)')
      <4>1. Cardinality(RemoteGap(t, n) \ {r}) = Cardinality(RemoteGap(t, n)) - 1
        BY <1>9, <3>2, FS_RemoveElement
      <4> QED
        BY <1>1, <3>1, <3>2, <4>1
    <3>4. local'[n][t] = Cardinality(LocalGap(t, n)')
      BY <1>4, <1>8, <2>1, <2>3, <2>5 DEF CountExact
    <3>5. ~(ran[n][t] > 0)
      BY <1>9, <2>1, <2>5 DEF RunExact
    <3>6. \A k \in RowsAt(t, n) :
            /\ ran[n][t] = 0 => Lacks(t, k)' \/ InHand(n, ManagerOf[k], t)'
            /\ ~Split(t, n) =>
                 /\ ran[n][t] <= 1
                 /\ Lacks(t, k)' \/ InHand(n, ManagerOf[k], t)' => ran[n][t] = 0
      BY <1>2, <1>4, <2>1, <2>2, <2>5 DEF RunExact
    <3> QED
      BY <1>4, <2>3, <2>5, <3>3, <3>4, <3>5, <3>6, ExactNext
  <2> QED
    BY <2>4, <2>5
<1>12. (\A o \in Nodes : \A u \in todo[o] : CountExact(u, o) /\ RunExact(u, o))'
  BY <1>11
<1>13. Counted'
  BY <1>6, <1>12, CountedNext
<1> QED
  BY <1>4, <1>9, <1>10, <1>13

\* Every step keeps the counters exact.
LEMMA CountInvStep ==
  ASSUME ProgTypes, CountInv, ScheduleStep
  PROVE  CountInv'
<1>0. LockInv /\ Counted /\ UNCHANGED <<prog, todo>> /\ LockInv'
  BY LockInvStep DEF CountInv, Counted, ScheduleStep
<1>1. SUFFICES Counted'
  BY <1>0, <1>1 DEF CountInv, Counted
<1>2. ASSUME NEW n \in Nodes, NEW m \in Managers, NEW t \in Txns, Assign(n, m, t)
      PROVE  Counted'
  BY <1>0, <1>2, AssignCounts
<1>3. ASSUME NEW n \in Nodes, NEW m \in Managers, NEW t \in Txns, NEW k \in Keys,
             Grant(n, m, t, k)
      PROVE  Counted'
  BY <1>0, <1>3, GrantCounts
<1>4. ASSUME NEW n \in Nodes, NEW w \in Executors, Begin(n, w)
      PROVE  Counted'
  <2>1. PICK t : t = Head(queue[n][w])
    OBVIOUS
  <2>2. BeginEffect(n, w, t)
    BY <1>0, <1>4, <2>1, BeginFacts
  <2> QED
    BY <1>0, <2>2, BeginCounts
<1>5. ASSUME NEW n \in Nodes, NEW w \in Executors, Commit(n, w) \/ Abort(n, w)
      PROVE  Counted'
  <2>1. PICK t : t = running[n][w]
    OBVIOUS
  <2>2. FinishEffect(n, w, t)
    BY <1>0, <1>5, <2>1, FinishFacts
  <2> QED
    BY <1>0, <2>1, <2>2, FinishCounts
<1>6. ASSUME NEW c \in Lanes, ReadRequest(c)
      PROVE  Counted'
  <2>1. PICK msg : msg = Head(reads[c])
    OBVIOUS
  <2>2. ReceiveEffect(c, msg)
    BY <1>0, <1>6, <2>1, ReceiveFacts
  <2>3. PICK t, r, n : t = msg.txn /\ r = msg.key /\ n = c[2]
    OBVIOUS
  <2> QED
    BY <1>0, <1>6, <2>2, <2>3, ReceiveCounts
<1> QED
  BY <1>2, <1>3, <1>4, <1>5, <1>6 DEF ScheduleStep, ScheduleNext, Manage, Execute
-----------------------------------------------------------------------------
(* The beginning and the end of a schedule.                                *)

\* Nobody holds anything where nothing is handed out.
LEMMA NobodyHolds ==
  ASSUME \A n \in Nodes, m \in Managers : got[n][m] = {},
         \A n \in Nodes, w \in Executors : running[n][w] = NoTxn /\ queue[n][w] = <<>>
  PROVE  /\ \A k \in Keys, t \in Txns : ~Holds(t, k)
         /\ \A n \in Nodes, m \in Managers, t \in Txns : ~Waits(n, m, t) /\ ~InHand(n, m, t)
<1>1. ASSUME NEW n \in Nodes, NEW m \in Managers, NEW t \in Txns
      PROVE  ~Waits(n, m, t) /\ ~InHand(n, m, t)
  BY OrderAssumption DEF Waits, InHand
<1>2. ASSUME NEW k \in Keys, NEW t \in Txns PROVE ~Holds(t, k)
  BY <1>1, RowPlace, HoldsIff
<1> QED
  BY <1>1, <1>2

LEMMA FreeRows ==
  ASSUME \A k \in Keys, t \in Txns : ~Holds(t, k), NEW k \in Keys
  PROVE  RowExact(k) <=> lock[k] = Free
<1>1. Sharers(k) = {} /\ Updaters(k) = {}
  BY DEF Sharers, Updaters
<1>2. Cardinality({}) = 0
  BY FS_EmptySet
<1> QED
  BY <1>1, <1>2 DEF RowExact, Free

\* Schedules of nothing are counted exactly.
LEMMA NothingToCount ==
  ASSUME \A n \in Nodes : todo[n] = {}, \A c \in Lanes : reads[c] = <<>>
  PROVE  Counted /\ TodoAgreed
  BY DEF Counted, ReadsInOrder, CountersExact, RunsCounted, TodoAgreed

LEMMA NothingPlaced ==
  ASSUME \A n \in Nodes, m \in Managers : got[n][m] = {} /\ dealt[n][m] = {},
         \A n \in Nodes, w \in Executors : running[n][w] = NoTxn /\ queue[n][w] = <<>>
  PROVE  Placed
  BY OrderAssumption DEF Placed, DealtInOrder, GotForNext, HandedOut, HandedOutOnce

\* The same after a step.
NothingOut ==
  /\ \A n \in Nodes, m \in Managers : got[n][m] = {}
  /\ \A n \in Nodes, w \in Executors : running[n][w] = NoTxn /\ queue[n][w] = <<>>

NobodyAtAll == \A k \in Keys, t \in Txns : ~Holds(t, k)

Untouched ==
  /\ \A n \in Nodes, m \in Managers : dealt[n][m] = {}
  /\ NothingOut

LEMMA AfterBarrier ==
  /\ NothingOut' => NobodyAtAll'
  /\ Untouched' => Placed'
<1>1. NothingOut => NobodyAtAll
  BY NobodyHolds DEF NothingOut, NobodyAtAll
<1>2. Untouched => Placed
  BY NothingPlaced DEF Untouched, NothingOut
<1> QED
  BY <1>1, <1>2, PTL

\* A schedule of transactions nobody has begun begins with exact counters.
AtStart ==
  /\ ProgTypes /\ ScheduleTypeOK /\ TodoAgreed /\ Untouched
  /\ \A c \in Lanes : reads[c] = <<>>
  /\ \A k \in Keys : BlindRow(k) \/ lock[k] = Free
  /\ \A n \in Nodes : \A t \in todo[n] :
       ran[n][t] = 0 /\ local[n][t] = LocalReads(t, n) /\ remote[n][t] = RemoteReads(t, n)

LEMMA ScheduleBegins ==
  /\ AtStart => CountInv
  /\ AtStart' => CountInv'
<1>1. ASSUME AtStart PROVE CountInv
  <2>1. /\ \A n \in Nodes, m \in Managers : got[n][m] = {} /\ dealt[n][m] = {}
        /\ \A n \in Nodes, w \in Executors : running[n][w] = NoTxn /\ queue[n][w] = <<>>
        /\ \A c \in Lanes : reads[c] = <<>>
        /\ ProgTypes /\ ScheduleTypeOK /\ TodoAgreed
    BY <1>1 DEF AtStart, Untouched, NothingOut
  <2>2. Placed /\ \A k \in Keys, t \in Txns : ~Holds(t, k)
    BY <2>1, NobodyHolds, NothingPlaced
  <2>3. RowLocksExact
    <3>1. \A k \in Keys : BlindRow(k) \/ RowExact(k)
      BY <1>1, <2>2, FreeRows DEF AtStart
    <3> QED
      BY <3>1, RowsExact
  <2>4. ReadsInOrder
    BY <2>1 DEF ReadsInOrder
  <2>5. ASSUME NEW n \in Nodes, NEW t \in todo[n]
        PROVE  CountExact(t, n) /\ RunExact(t, n)
    <3>1. t \in Txns /\ prog[t].reads \subseteq Keys
      BY <2>1 DEF ScheduleTypeOK, ProgTypes
    <3>2. \A k \in prog[t].reads : Lacks(t, k)
      BY <2>1, <3>1, RowPlace DEF Lacks, Unread
    <3>3. LocalGap(t, n) = RowsAt(t, n)
      BY <3>2 DEF LocalGap, RowsAt, Lacks
    <3>4. RemoteGap(t, n) = prog[t].reads \ RowsAt(t, n)
      BY <3>2 DEF RemoteGap, RowsAt, Lacks
    <3>5. ran[n][t] = 0 /\ local[n][t] = LocalReads(t, n) /\ remote[n][t] = RemoteReads(t, n)
      BY <1>1 DEF AtStart
    <3>6. CountExact(t, n)
      BY <3>3, <3>4, <3>5 DEF CountExact, LocalReads, RemoteReads
    <3>7. RunExact(t, n)
      BY <3>2, <3>5 DEF RunExact, Lacks, RowsAt
    <3> QED
      BY <3>6, <3>7
  <2>6. Counted
    BY <2>4, <2>5, CountedIff
  <2> QED
    BY <2>1, <2>2, <2>3, <2>6 DEF CountInv, LockInv, Counted, Placed
<1>2. AtStart => CountInv
  BY <1>1
<1> QED
  BY <1>2, PTL

\* When the executors are done, everything has been read, sent, received and
\* executed.
LEMMA DoneFacts ==
  ASSUME ProgTypes, CountInv, ScheduleDone
  PROVE  /\ \A n \in Nodes, m \in Managers : got[n][m] = {}
         /\ NothingOut
         /\ \A n \in Nodes : \A t \in todo[n] : \A m \in Managers : t \in dealt[n][m]
         /\ \A n \in Nodes : \A t \in todo[n] : n \in Active(t) =>
              ran[n][t] > 0 /\ LocalGap(t, n) = {} /\ RemoteGap(t, n) = {}
         /\ \A c \in Lanes : reads[c] = <<>>
<1>1. /\ LockInv /\ Counted /\ TodoAgreed /\ GotForNext /\ ScheduleTypeOK /\ ReadsInOrder
      /\ \A n \in Nodes : todo[n] \subseteq Txns
  BY DEF CountInv, LockInv, Counted, ScheduleTypeOK
<1>2. \A n \in Nodes : \A t \in todo[n] : \A m \in Managers : t \in dealt[n][m]
  BY DEF ScheduleDone, Through
<1>3. \A n \in Nodes, m \in Managers : got[n][m] = {}
  <2>1. \A n \in Nodes, m \in Managers, t \in Txns : ~AtHand(n, m, t)
    BY <1>2 DEF AtHand
  <2> QED
    BY <1>1, <2>1 DEF GotForNext
<1>4. NothingOut
  BY <1>3 DEF NothingOut, ScheduleDone
<1>5. \A n \in Nodes, m \in Managers, t \in Txns : ~Waits(n, m, t) /\ ~InHand(n, m, t)
  BY <1>4, NobodyHolds DEF NothingOut
<1>6. ASSUME NEW n \in Nodes, NEW t \in todo[n], n \in Active(t)
      PROVE  ran[n][t] > 0 /\ LocalGap(t, n) = {} /\ RemoteGap(t, n) = {}
  <2>1. t \in Txns /\ RunExact(t, n) /\ ran[n][t] \in Nat
    BY <1>1, CountedIff DEF ScheduleTypeOK
  <2>2. PICK k \in RowsAt(t, n) : TRUE
    BY <1>6 DEF Active, Updates, RowsAt
  <2>3. k \in Keys /\ Owner[k] = n /\ ManagerOf[k] \in Managers
    BY <1>1, <2>1, RowFacts DEF RowsAt
  <2>4. ~Lacks(t, k) /\ ~InHand(n, ManagerOf[k], t)
    BY <1>2, <1>5, <2>1, <2>3 DEF Lacks, Unread
  <2> QED
    BY <1>6, <2>1, <2>4 DEF RunExact
<1>7. ASSUME NEW c \in Lanes PROVE reads[c] = <<>>
  <2>1. reads[c] \in Seq(ReadMsg) /\ c[1] \in Nodes /\ c[2] \in Nodes /\ c[1] # c[2]
    BY <1>1, LaneFacts DEF ScheduleTypeOK, ReadMsg
  <2>2. CASE 1 \in DOMAIN reads[c]
    <3>1. PICK t, k : t = reads[c][1].txn /\ k = reads[c][1].key
      OBVIOUS
    <3>2. /\ t \in todo[c[1]] /\ c[2] \in Active(t) /\ k \in prog[t].reads
          /\ Owner[k] = c[1] /\ t \in Txns
      BY <1>1, <2>1, <2>2, <3>1, MessageRow
    <3>3. t \in todo[c[2]]
      <4>1. RowsAt(t, c[2]) # {}
        BY <3>2 DEF Active, Updates, RowsAt
      <4> QED
        BY <1>1, <2>1, <3>2, <4>1 DEF TodoAgreed
    <3>4. OnItsWay(t, k, c[2])
      BY <2>2, <3>1, <3>2 DEF OnItsWay
    <3>5. k \in RemoteGap(t, c[2])
      BY <2>1, <3>2, <3>4, GapsIff
    <3> QED
      BY <1>6, <2>1, <3>2, <3>3, <3>5
  <2>3. CASE 1 \notin DOMAIN reads[c]
    BY <2>1, <2>3
  <2> QED
    BY <2>2, <2>3
<1> QED
  BY <1>2, <1>3, <1>4, <1>6, <1>7

-----------------------------------------------------------------------------
(* The batches of Calvin, on top of the schedules.                         *)

LEMMA PlanFacts ==
  ASSUME BatchPlan
  PROVE  /\ ProgTypes /\ batch \in Nat
         /\ \A t \in Txns : BatchOf[t] \in 1..NBatches
         /\ \A n \in Nodes, t \in Txns :
              t \in todo[n] <=> phase = "Execute" /\ t \in Current /\ ~prog[t].rollback
         /\ \A n \in Nodes : todo[n] \subseteq Txns
<1>1. prog \in [Txns -> Program]
  BY WorkloadAssumption DEF BatchPlan
<1>2. ProgTypes
  BY <1>1 DEF ProgTypes, Program
<1>3. batch \in Nat /\ \A t \in Txns : BatchOf[t] \in 1..NBatches
  BY BatchAssumption DEF BatchPlan
<1>4. \A n \in Nodes, t \in Txns :
        t \in todo[n] <=> phase = "Execute" /\ t \in Current /\ ~prog[t].rollback
  BY DEF BatchPlan, Current
<1>5. \A n \in Nodes : todo[n] \subseteq Txns
  BY DEF BatchPlan, Current
<1> QED
  BY <1>2, <1>3, <1>4, <1>5

\* What a step has to keep of the inputs.
LEMMA InputsNext ==
  ASSUME prog' = prog,
         \A n \in Nodes : \A t \in todo'[n] : \A k \in prog[t].reads :
           /\ Owner[k] = n => LacksAfter(t, k) \/ IsInput(t, k, input'[n][t][k])
           /\ n \in Active(t) /\ Owner[k] # n =>
                k \in RemoteGap(t, n)' \/ IsInput(t, k, input'[n][t][k]),
         \A c \in Lanes : \A i \in DOMAIN reads'[c] :
           IsInput(reads'[c][i].txn, reads'[c][i].key, reads'[c][i].val),
         \A n \in Nodes, t \in Txns : ran'[n][t] > 0 =>
           \A k \in prog[t].reads : IsInput(t, k, input'[n][t][k])
  PROVE  InputsInOrder'
<1>1. \A n, t, k : IsInput(t, k, input[n][t][k])' <=> IsInput(t, k, input'[n][t][k])
  BY DEF IsInput, BlindRow, Blinds, LeftBy
<1>2. \A c, i : IsInput(reads[c][i].txn, reads[c][i].key, reads[c][i].val)' <=>
                IsInput(reads'[c][i].txn, reads'[c][i].key, reads'[c][i].val)
  BY DEF IsInput, BlindRow, Blinds, LeftBy
<1>3. \A t, k, n : Owner[k] = n => (Unread(n, ManagerOf[k], t)' <=> LacksAfter(t, k))
  BY DEF LacksAfter, Unread, Waits, Serves
<1>4. \A t : Active(t)' = Active(t)
  BY DEF Active, Updates
<1>5. (\A n \in Nodes : \A t \in todo[n] : \A k \in prog[t].reads :
         /\ Owner[k] = n => Unread(n, ManagerOf[k], t) \/ IsInput(t, k, input[n][t][k])
         /\ n \in Active(t) /\ Owner[k] # n =>
              k \in RemoteGap(t, n) \/ IsInput(t, k, input[n][t][k]))'
  BY <1>1, <1>3, <1>4
<1>6. (\A c \in Lanes : \A i \in DOMAIN reads[c] :
         IsInput(reads[c][i].txn, reads[c][i].key, reads[c][i].val))'
  BY <1>2
<1>7. (\A n \in Nodes, t \in Txns : ran[n][t] > 0 =>
         \A k \in prog[t].reads : IsInput(t, k, input[n][t][k]))'
  BY <1>1
<1> QED
  BY <1>5, <1>6, <1>7 DEF InputsInOrder

LEMMA InitBatch == Init => BatchInv
<1> SUFFICES ASSUME Init PROVE BatchInv
  OBVIOUS
<1>1. /\ \A n \in Nodes : todo[n] = {}
      /\ \A n \in Nodes, m \in Managers : got[n][m] = {} /\ dealt[n][m] = {}
      /\ \A n \in Nodes, w \in Executors : running[n][w] = NoTxn /\ queue[n][w] = <<>>
      /\ \A c \in Lanes : reads[c] = <<>>
      /\ \A n \in Nodes, t \in Txns : ran[n][t] = 0
      /\ \A k \in Keys : lock[k] = Free /\ db[k] = NoTxn
      /\ batch = 1 /\ phase = "Analysis" /\ prog \in Workloads
  BY DEF Init
<1>2. ScheduleTypeOK
  BY DEF Init, ScheduleTypeOK, Free
<1>3. BatchPlan
  BY <1>1, BatchAssumption DEF BatchPlan
<1>4. Counted /\ TodoAgreed /\ Placed
  BY <1>1, NothingToCount, NothingPlaced
<1>5. /\ \A k \in Keys, t \in Txns : ~Holds(t, k)
  BY <1>1, NobodyHolds
<1>6. CountInv
  <2>1. \A k \in Keys : RowExact(k)
    BY <1>1, <1>5, FreeRows
  <2> QED
    BY <1>2, <1>4, <2>1, RowsExact DEF CountInv, LockInv, Counted, Placed
<1>7. NothingBetween /\ RunsOnce
  BY <1>1 DEF NothingBetween, RunsOnce
<1>8. StoreInOrder
  <2>1. \A k \in Keys : Finished(k) = {}
    BY <1>1, <1>3, PlanFacts, RowPlace DEF Finished
  <2> QED
    BY <1>1, <2>1 DEF StoreInOrder, LeftBy
<1>9. HoldersFirst
  BY <1>5 DEF HoldersFirst
<1>10. InputsInOrder
  BY <1>1 DEF InputsInOrder
<1> QED
  BY <1>3, <1>6, <1>7, <1>8, <1>9, <1>10 DEF BatchInv


-----------------------------------------------------------------------------
(* The beginning and the end of a batch.                                   *)

\* Between the batches all rows are free.
LEMMA BetweenFacts ==
  ASSUME BatchInv, phase # "Execute"
  PROVE  /\ \A n \in Nodes : todo[n] = {}
         /\ \A n \in Nodes, m \in Managers : got[n][m] = {} /\ dealt[n][m] = {}
         /\ \A n \in Nodes, w \in Executors : running[n][w] = NoTxn /\ queue[n][w] = <<>>
         /\ \A c \in Lanes : reads[c] = <<>>
<1>1. BatchPlan /\ NothingBetween /\ DealtInOrder
  BY DEF BatchInv, CountInv, LockInv
<1>2. \A n \in Nodes : todo[n] = {}
  BY <1>1 DEF BatchPlan
<1> QED
  BY <1>1, <1>2 DEF NothingBetween, DealtInOrder

LEMMA AnalyzeBatch ==
  ASSUME BatchInv, Analyze
  PROVE  BatchInv'
<1>1. /\ phase = "Analysis" /\ phase' = "Execute" /\ batch' = batch /\ prog' = prog
      /\ dealt' = dealt /\ got' = got /\ queue' = queue /\ running' = running
      /\ input' = input /\ ran' = ran /\ lock' = lock /\ db' = db /\ reads' = reads
      /\ todo' = [n \in Nodes |-> {t \in Current : ~prog[t].rollback}]
      /\ local' = [n \in Nodes |-> [t \in Txns |->
                     IF t \in Current THEN LocalReads(t, n) ELSE local[n][t]]]
      /\ remote' = [n \in Nodes |-> [t \in Txns |->
                      IF t \in Current THEN RemoteReads(t, n) ELSE remote[n][t]]]
  BY DEF Analyze
<1>2. /\ \A n \in Nodes : todo[n] = {}
      /\ \A n \in Nodes, m \in Managers : got[n][m] = {} /\ dealt[n][m] = {}
      /\ \A n \in Nodes, w \in Executors : running[n][w] = NoTxn /\ queue[n][w] = <<>>
      /\ \A c \in Lanes : reads[c] = <<>>
  BY <1>1, BetweenFacts
<1>3. /\ BatchPlan /\ LockInv /\ ScheduleTypeOK /\ RunsOnce /\ StoreInOrder /\ InputsInOrder
      /\ ProgTypes /\ RowLocksExact
  BY PlanFacts DEF BatchInv, CountInv, LockInv
<1>4. /\ \A n \in Nodes, t \in Txns : t \in todo'[n] <=> t \in Current /\ ~prog[t].rollback
      /\ \A n \in Nodes : todo'[n] \subseteq Txns
  BY <1>1 DEF Current
<1>5. BatchPlan'
  BY <1>1, <1>3 DEF BatchPlan, Current
<1>6. /\ \A t \in Txns, n \in Nodes :
           /\ IsFiniteSet(RowsAt(t, n)) /\ Cardinality(RowsAt(t, n)) \in Nat
           /\ Cardinality(prog[t].reads \ RowsAt(t, n)) \in Nat
  <2>1. ASSUME NEW t \in Txns, NEW n \in Nodes
        PROVE  /\ IsFiniteSet(RowsAt(t, n)) /\ Cardinality(RowsAt(t, n)) \in Nat
               /\ Cardinality(prog[t].reads \ RowsAt(t, n)) \in Nat
    <3>1. IsFiniteSet(RowsAt(t, n)) /\ IsFiniteSet(prog[t].reads)
      BY <1>3, RowFacts
    <3> QED
      BY <3>1, FS_Subset, FS_CardinalityType
  <2> QED
    BY <2>1
<1>7. ScheduleTypeOK'
  <2>1. todo' \in [Nodes -> SUBSET Txns]
    BY <1>1 DEF Current
  <2>2. local' \in [Nodes -> [Txns -> Int]] /\ remote' \in [Nodes -> [Txns -> Int]]
    <3>1. local \in [Nodes -> [Txns -> Int]] /\ remote \in [Nodes -> [Txns -> Int]]
      BY <1>3 DEF ScheduleTypeOK
    <3>2. \A t \in Txns, n \in Nodes : LocalReads(t, n) \in Int /\ RemoteReads(t, n) \in Int
      BY <1>6 DEF LocalReads, RemoteReads
    <3>3. \A n \in Nodes : [t \in Txns |-> IF t \in Current THEN LocalReads(t, n) ELSE local[n][t]]
                             \in [Txns -> Int]
      BY <3>1, <3>2
    <3>4. \A n \in Nodes : [t \in Txns |-> IF t \in Current THEN RemoteReads(t, n) ELSE remote[n][t]]
                             \in [Txns -> Int]
      BY <3>1, <3>2
    <3> QED
      BY <1>1, <3>3, <3>4
  <2> QED
    BY <1>1, <1>3, <2>1, <2>2 DEF ScheduleTypeOK
<1>8. TodoAgreed'
  BY <1>1 DEF TodoAgreed
<1>9. NothingOut /\ NothingOut' /\ Untouched'
  BY <1>1, <1>2 DEF NothingOut, Untouched
<1>10. Placed' /\ NobodyAtAll /\ NobodyAtAll'
  BY <1>9, NobodyHolds, AfterBarrier DEF NothingOut, NobodyAtAll
<1>11. RowLocksExact'
  <2>1. ASSUME NEW k \in Keys PROVE BlindRow(k)' \/ RowExact(k)'
    <3>1. BlindRow(k)' <=> BlindRow(k)
      BY <1>1 DEF BlindRow, Blinds
    <3>2. CASE ~BlindRow(k)
      <4>1. lock[k] = Free
        BY <1>3, <1>10, <3>2, RowsExact, FreeRows DEF NobodyAtAll
      <4>2. Sharers(k)' = {} /\ Updaters(k)' = {}
        BY <1>10 DEF NobodyAtAll, Sharers, Updaters
      <4> QED
        BY <1>1, <4>1, <4>2, FS_EmptySet DEF RowExact, Free
    <3> QED
      BY <3>1, <3>2
  <2> QED
    BY <2>1, RowsExactNext
<1>12. Counted'
  <2>1. \A u \in Txns : \A k \in prog[u].reads : Lacks(u, k)'
    <3>1. \A u \in Txns : \A k \in prog[u].reads : LacksAfter(u, k)
      BY <1>1, <1>2, <1>3, RowPlace DEF LacksAfter, ProgTypes
    <3> QED
      BY <3>1, LacksNext
  <2>2. ASSUME NEW n \in Nodes, NEW t \in todo'[n]
        PROVE  CountExact(t, n)' /\ RunExact(t, n)'
    <3>1. t \in Txns /\ t \in Current
      BY <1>4
    <3>2. LocalGap(t, n)' = RowsAt(t, n) /\ RemoteGap(t, n)' = prog[t].reads \ RowsAt(t, n)
      <4>1. LocalGap(t, n)' = {k \in RowsAt(t, n) : Lacks(t, k)'}
        BY <1>1 DEF LocalGap, RowsAt, Lacks, Unread, Waits, Serves
      <4>2. RemoteGap(t, n)' =
              {k \in prog[t].reads \ RowsAt(t, n) : Lacks(t, k)' \/ OnItsWay(t, k, n)'}
        BY <1>1 DEF RemoteGap, RowsAt, Lacks, Unread, Waits, Serves, OnItsWay
      <4>3. \A k \in RowsAt(t, n) : Lacks(t, k)'
        BY <2>1, <3>1 DEF RowsAt
      <4>4. \A k \in prog[t].reads \ RowsAt(t, n) : Lacks(t, k)'
        BY <2>1, <3>1
      <4> QED
        BY <4>1, <4>2, <4>3, <4>4
    <3>3. /\ local'[n][t] = Cardinality(LocalGap(t, n)')
          /\ remote'[n][t] = Cardinality(RemoteGap(t, n)')
      BY <1>1, <3>1, <3>2 DEF LocalReads, RemoteReads
    <3>4. ran'[n][t] = 0
      <4>1. ran[n][t] \in Nat /\ batch \in Nat /\ BatchOf[t] = batch
        BY <1>3, <3>1, PlanFacts DEF ScheduleTypeOK, Current
      <4> QED
        BY <1>1, <1>3, <3>1, <4>1 DEF RunsOnce
    <3>5. CountExact(t, n)'
      BY <3>3 DEF CountExact
    <3>6. \A k \in RowsAt(t, n) : Lacks(t, k)'
      BY <2>1, <3>1 DEF RowsAt
    <3>7. RunExact(t, n)'
      <4>1. RowsAt(t, n)' = RowsAt(t, n)
        BY <1>1 DEF RowsAt
      <4>2. ~(ran'[n][t] > 0) /\ ran'[n][t] <= 1
        BY <3>4
      <4>3. \A k \in RowsAt(t, n)' : Lacks(t, k)'
        BY <3>6, <4>1
      <4> QED
        BY <3>4, <4>2, <4>3 DEF RunExact, RowsAt, Lacks, Unread, Waits, Serves
    <3> QED
      BY <3>5, <3>7
  <2>3. ReadsInOrder'
    BY <1>1, <1>2 DEF ReadsInOrder
  <2>4. (\A n \in Nodes : \A t \in todo[n] : CountExact(t, n) /\ RunExact(t, n))'
    BY <2>2
  <2> QED
    BY <2>3, <2>4, CountedNext
<1>13. CountInv'
  BY <1>7, <1>8, <1>10, <1>11, <1>12 DEF CountInv, LockInv, Counted, Placed
<1>14. NothingBetween'
  BY <1>1 DEF NothingBetween
<1>15. RunsOnce'
  <2>1. \A n, t : Split(t, n)' <=> Split(t, n)
    BY <1>1 DEF Split, RowsAt
  <2> QED
    BY <1>1, <1>3, <2>1 DEF RunsOnce
<1>16. StoreInOrder'
  <2>1. ASSUME NEW k \in Keys PROVE BlindRow(k)' \/ LeftBy(db[k], k, Finished(k))'
    <3>1. Finished(k) = {t \in Txns : BatchOf[t] < batch}
      BY <1>1, <1>2, RowPlace DEF Finished
    <3>2. Finished(k)' = {t \in Txns : BatchOf[t] < batch}
      BY <1>1, <1>2, RowPlace DEF Finished, IsDone
    <3>3. BlindRow(k)' <=> BlindRow(k)
      BY <1>1 DEF BlindRow, Blinds
    <3>4. LeftBy(db[k], k, Finished(k))' <=> LeftBy(db[k], k, Finished(k))
      BY <1>1, <3>1, <3>2 DEF LeftBy
    <3> QED
      BY <1>3, <3>3, <3>4 DEF StoreInOrder
  <2> QED
    BY <2>1 DEF StoreInOrder
<1>17. HoldersFirst'
  BY <1>10 DEF HoldersFirst, NobodyAtAll
<1>18. InputsInOrder'
  <2>1. \A n \in Nodes : \A t \in todo'[n] : \A k \in prog[t].reads : LacksAfter(t, k)
    BY <1>1, <1>2, <1>3, <1>4, RowPlace DEF LacksAfter, ProgTypes
  <2>2. \A n \in Nodes : \A t \in todo'[n] : \A k \in prog[t].reads :
          Owner[k] # n => k \in RemoteGap(t, n)'
    <3>1. \A t, n : RemoteGap(t, n)' =
            {k \in prog[t].reads : Owner[k] # n /\ (LacksAfter(t, k) \/ OnItsWay(t, k, n)')}
      BY <1>1 DEF RemoteGap, RowsAt, LacksAfter, Unread, Waits, Serves, OnItsWay
    <3> QED
      BY <2>1, <3>1
  <2>3. \A n \in Nodes, t \in Txns : ran'[n][t] > 0 =>
          \A k \in prog[t].reads : IsInput(t, k, input'[n][t][k])
    BY <1>1, <1>3 DEF InputsInOrder
  <2>4. \A c \in Lanes : DOMAIN reads'[c] = {}
    BY <1>1, <1>2
  <2> QED
    BY <1>1, <2>1, <2>2, <2>3, <2>4, InputsNext
<1> QED
  BY <1>5, <1>13, <1>14, <1>15, <1>16, <1>17, <1>18 DEF BatchInv


\* The value of a row depends on those alone who write it.
LEMMA SameWriters ==
  ASSUME NEW v, NEW k, NEW ts, NEW us,
         \A t : k \in prog[t].writes /\ ~prog[t].rollback => (t \in ts <=> t \in us)
  PROVE  LeftBy(v, k, ts) <=> LeftBy(v, k, us)
<1>1. {t \in ts : k \in prog[t].writes /\ ~prog[t].rollback} =
        {t \in us : k \in prog[t].writes /\ ~prog[t].rollback}
  OBVIOUS
<1> QED
  BY <1>1 DEF LeftBy

LEMMA BatchEnds ==
  ASSUME BatchInv, EndBatch
  PROVE  BatchInv'
<1>1. /\ phase = "Execute" /\ ScheduleDone
      /\ \/ batch < NBatches /\ batch' = batch + 1 /\ phase' = "Analysis"
         \/ ~(batch < NBatches) /\ batch' = batch /\ phase' = "DONE"
      /\ todo' = [n \in Nodes |-> {}]
      /\ dealt' = [n \in Nodes |-> [m \in Managers |-> {}]]
      /\ prog' = prog /\ got' = got /\ queue' = queue /\ running' = running
      /\ local' = local /\ remote' = remote /\ input' = input /\ ran' = ran
      /\ lock' = lock /\ db' = db /\ reads' = reads
  BY DEF EndBatch
<1>2. /\ NothingOut /\ \A c \in Lanes : reads[c] = <<>>
      /\ \A n \in Nodes, m \in Managers : got[n][m] = {}
      /\ \A n \in Nodes : \A t \in todo[n] : \A m \in Managers : t \in dealt[n][m]
  BY <1>1, DoneFacts, PlanFacts DEF BatchInv
<1>3. /\ BatchPlan /\ LockInv /\ ScheduleTypeOK /\ RunsOnce /\ StoreInOrder /\ InputsInOrder
      /\ ProgTypes /\ RowLocksExact /\ batch \in Nat /\ batch <= NBatches /\ NBatches \in Nat
      /\ \A t \in Txns : BatchOf[t] \in Nat /\ BatchOf[t] <= NBatches
      /\ \A n \in Nodes, t \in Txns :
           t \in todo[n] <=> BatchOf[t] = batch /\ ~prog[t].rollback
  <2>1. /\ BatchPlan /\ LockInv /\ ScheduleTypeOK /\ RunsOnce /\ StoreInOrder /\ InputsInOrder
        /\ RowLocksExact
    BY DEF BatchInv, CountInv, LockInv
  <2> QED
    BY <1>1, <2>1, PlanFacts, BatchAssumption DEF BatchPlan, Current
<1>4. BatchPlan'
  BY <1>1, <1>3 DEF BatchPlan
<1>5. ScheduleTypeOK'
  BY <1>1, <1>3 DEF ScheduleTypeOK
<1>6. Untouched' /\ NothingOut' /\ Placed' /\ NobodyAtAll' /\ NobodyAtAll
  <2>1. NothingOut'
    BY <1>1, <1>2 DEF NothingOut
  <2>2. Untouched'
    BY <1>1, <2>1 DEF Untouched
  <2> QED
    BY <1>2, <2>1, <2>2, NobodyHolds, AfterBarrier DEF NothingOut, NobodyAtAll
<1>7. RowLocksExact'
  <2>1. ASSUME NEW k \in Keys PROVE BlindRow(k)' \/ RowExact(k)'
    <3>1. BlindRow(k)' <=> BlindRow(k)
      BY <1>1 DEF BlindRow, Blinds
    <3>2. CASE ~BlindRow(k)
      <4>1. lock[k] = Free
        BY <1>3, <1>6, <3>2, RowsExact, FreeRows DEF NobodyAtAll
      <4>2. Sharers(k)' = {} /\ Updaters(k)' = {}
        BY <1>6 DEF NobodyAtAll, Sharers, Updaters
      <4> QED
        BY <1>1, <4>1, <4>2, FS_EmptySet DEF RowExact, Free
    <3> QED
      BY <3>1, <3>2
  <2> QED
    BY <2>1, RowsExactNext
<1>8. Counted' /\ TodoAgreed'
  BY <1>1, <1>2 DEF Counted, ReadsInOrder, CountersExact, RunsCounted, TodoAgreed
<1>9. CountInv'
  BY <1>5, <1>6, <1>7, <1>8 DEF CountInv, LockInv, Counted, Placed
<1>10. NothingBetween'
  BY <1>1, <1>2 DEF NothingBetween, NothingOut
<1>11. RunsOnce'
  <2>1. \A n, t : Split(t, n)' <=> Split(t, n)
    BY <1>1 DEF Split, RowsAt
  <2>2. \A n \in Nodes, t \in Txns : ran'[n][t] > 0 => ~prog'[t].rollback
           /\ (BatchOf[t] < batch' \/ (BatchOf[t] = batch' /\ phase' # "Analysis"))
    BY <1>1, <1>3 DEF RunsOnce
  <2>3. \A n \in Nodes, t \in Txns : ran'[n][t] <= 1 \/ Split(t, n)'
    BY <1>1, <1>3, <2>1 DEF RunsOnce
  <2> QED
    BY <2>2, <2>3 DEF RunsOnce
<1>12. StoreInOrder'
  <2>1. ASSUME NEW k \in Keys PROVE BlindRow(k)' \/ LeftBy(db[k], k, Finished(k))'
    <3>1. ASSUME NEW t \in Txns, ~prog[t].rollback
          PROVE  t \in Finished(k) <=> BatchOf[t] <= batch
      <4>1. t \in todo[Owner[k]] <=> BatchOf[t] = batch
        BY <1>3, <3>1, RowPlace
      <4>2. t \in todo[Owner[k]] => IsDone(t, k)
        BY <1>2, NobodyHolds, RowPlace DEF IsDone, NothingOut
      <4>3. t \in Finished(k) <=> BatchOf[t] < batch \/ t \in todo[Owner[k]]
        BY <1>1, <4>2 DEF Finished
      <4>4. BatchOf[t] \in Nat /\ batch \in Nat
        BY <1>3
      <4> QED
        BY <4>1, <4>3, <4>4
    <3>2. \A t \in Txns : t \in Finished(k)' <=> BatchOf[t] <= batch
      <4>1. todo'[Owner[k]] = {}
        BY <1>1, RowPlace
      <4>2. Finished(k)' = {t \in Txns : BatchOf[t] < batch' \/ phase' = "DONE"}
        BY <4>1 DEF Finished
      <4> QED
        BY <1>1, <1>3, <4>2
    <3>3. BlindRow(k)' <=> BlindRow(k)
      BY <1>1 DEF BlindRow, Blinds
    <3>4. LeftBy(db[k], k, Finished(k))' <=> LeftBy(db[k], k, Finished(k)')
      BY <1>1 DEF LeftBy
    <3>5. Finished(k) \subseteq Txns /\ Finished(k)' \subseteq Txns
      BY DEF Finished
    <3>6. LeftBy(db[k], k, Finished(k)') <=> LeftBy(db[k], k, Finished(k))
      BY <3>1, <3>2, <3>5, SameWriters
    <3> QED
      BY <1>3, <3>3, <3>4, <3>6 DEF StoreInOrder
  <2> QED
    BY <2>1 DEF StoreInOrder
<1>13. HoldersFirst'
  BY <1>6 DEF HoldersFirst, NobodyAtAll
<1>14. InputsInOrder'
  <2>1. \A n \in Nodes, t \in Txns : ran'[n][t] > 0 =>
          \A k \in prog[t].reads : IsInput(t, k, input'[n][t][k])
    BY <1>1, <1>3 DEF InputsInOrder
  <2>2. \A c \in Lanes : DOMAIN reads'[c] = {}
    BY <1>1, <1>2
  <2>3. \A n \in Nodes : todo'[n] = {}
    BY <1>1
  <2> QED
    BY <1>1, <2>1, <2>2, <2>3, InputsNext
<1> QED
  BY <1>4, <1>9, <1>10, <1>11, <1>12, <1>13, <1>14 DEF BatchInv


-----------------------------------------------------------------------------
(* The agreed order, row by row.                                           *)

LEMMA TidFacts == \A t \in Txns : Tid[t] \in Nat
  BY OrderAssumption

\* A transaction that updates a row holds it alone.
LEMMA Exclusive ==
  ASSUME LockInv, NEW k \in Keys, ~BlindRow(k), NEW t \in Txns, NEW u \in Txns,
         Holds(t, k), Holds(u, k), k \in Updates(t)
  PROVE  u = t
<1>1. RowExact(k) /\ lock[k].writer \in {0, 1}
  BY RowsExact DEF LockInv, ScheduleTypeOK
<1>2. t \in Updaters(k)
  BY DEF Updaters
<1>3. Sharers(k) = {} /\ Cardinality(Updaters(k)) \in {0, 1} /\ IsFiniteSet(Updaters(k))
  BY <1>1, <1>2, HoldersFinite DEF RowExact
<1>4. Cardinality(Updaters(k)) = 1
  BY <1>2, <1>3, HoldersFinite
<1>5. u \in Updaters(k)
  <2>1. u \in Sharers(k) \/ u \in Updaters(k)
    BY DEF Sharers, Updaters, Shares, Updates, Holds
  <2> QED
    BY <1>3, <2>1
<1>6. Cardinality(Updaters(k) \ {t}) = 0
  <2>1. Cardinality(Updaters(k) \ {t}) = Cardinality(Updaters(k)) - 1
    BY <1>2, <1>3, FS_RemoveElement
  <2> QED
    BY <1>4, <2>1
<1>7. Updaters(k) \ {t} = {}
  BY <1>3, <1>6, FS_EmptySet, FS_Subset
<1> QED
  BY <1>5, <1>7

\* Whoever has been dealt is in order with everybody.
LEMMA InOrder ==
  ASSUME LockInv, NEW n \in Nodes, NEW m \in Managers, NEW t \in dealt[n][m], NEW u \in todo[n],
         u # t
  PROVE  Earlier(t, u) \/ (u \in dealt[n][m] /\ Earlier(u, t))
  BY DEF LockInv, DealtInOrder

\* A row that is held has the value that its holder is to read.
LEMMA HolderReads ==
  ASSUME BatchInv, phase = "Execute", NEW k \in Keys, NEW t \in Txns, k \in prog[t].reads,
         t \in dealt[Owner[k]][ManagerOf[k]], Holds(t, k), ~IsDone(t, k)
  PROVE  IsInput(t, k, db[k])
<1> DEFINE n == Owner[k]
           m == ManagerOf[k]
<1>1. /\ BatchPlan /\ LockInv /\ DealtInOrder /\ StoreInOrder /\ HoldersFirst
      /\ n \in Nodes /\ m \in Managers
      /\ todo[n] \subseteq Txns /\ t \in todo[n]
      /\ \A u \in Txns : u \in todo[n] <=> BatchOf[u] = batch /\ ~prog[u].rollback
      /\ batch \in Nat /\ \A u \in Txns : BatchOf[u] \in Nat
  <2>1. BatchPlan /\ LockInv /\ DealtInOrder /\ StoreInOrder /\ HoldersFirst
    BY DEF BatchInv, CountInv, LockInv
  <2>2. n \in Nodes /\ m \in Managers
    BY RowPlace
  <2>3. t \in todo[n]
    BY <2>1, <2>2 DEF DealtInOrder
  <2> QED
    BY <2>1, <2>2, <2>3, PlanFacts, BatchAssumption DEF Current
<1> SUFFICES ASSUME ~BlindRow(k) PROVE LeftBy(db[k], k, {u \in Txns : Precedes(u, t)})
  BY DEF IsInput
<1>2. LeftBy(db[k], k, Finished(k))
  BY <1>1 DEF StoreInOrder
<1>3. ASSUME NEW u \in Txns, k \in prog[u].writes, ~prog[u].rollback
      PROVE  u \in Finished(k) <=> Precedes(u, t)
  <2>1. k \in Updates(u)
    BY <1>3 DEF BlindRow, Blinds, Updates
  <2>2. u \in Finished(k) <=> BatchOf[u] < batch \/ (u \in todo[n] /\ IsDone(u, k))
    BY <1>3 DEF Finished
  <2>3. BatchOf[t] = batch
    BY <1>1
  <2>4. CASE u \notin todo[n]
    <3>1. BatchOf[u] # batch
      BY <1>1, <1>3, <2>4
    <3> QED
      BY <1>1, <2>2, <2>3, <2>4, <3>1 DEF Precedes
  <2>5. CASE u \in todo[n]
    <3>1. BatchOf[u] = batch /\ ~(BatchOf[u] < batch)
      BY <1>1, <2>5
    <3>2. ASSUME IsDone(u, k) PROVE Earlier(u, t)
      <4>1. u # t
        BY <3>2
      <4>2. ~Earlier(t, u)
        BY <1>1, <2>1, <2>5, <3>2 DEF HoldersFirst
      <4> QED
        BY <1>1, <2>5, <4>1, <4>2, InOrder
    <3>3. ASSUME Earlier(u, t) PROVE IsDone(u, k)
      <4>1. Tid[u] \in Nat /\ Tid[t] \in Nat
        BY <1>3, TidFacts
      <4>2. u # t /\ ~Earlier(t, u)
        BY <3>3, <4>1 DEF Earlier
      <4>3. u \in dealt[n][m]
        BY <1>1, <2>5, <4>2, InOrder
      <4>4. ~Holds(u, k)
        BY <1>1, <1>3, <2>1, <4>2, Exclusive
      <4>5. k \in prog[u].reads
        BY <2>1 DEF Updates
      <4> QED
        BY <4>3, <4>4, <4>5, HoldsIff DEF IsDone
    <3> QED
      BY <2>2, <2>3, <2>5, <3>1, <3>2, <3>3 DEF Precedes
  <2> QED
    BY <2>4, <2>5
<1>4. Finished(k) \subseteq Txns
  BY DEF Finished
<1>5. \A u : k \in prog[u].writes /\ ~prog[u].rollback =>
        (u \in Finished(k) <=> u \in {x \in Txns : Precedes(x, t)})
  BY <1>3, <1>4
<1> QED
  BY <1>2, <1>5, SameWriters


\* The part of the invariant that is about the order, and what it rests on.
Ordered == StoreInOrder /\ HoldersFirst /\ InputsInOrder

StepOf ==
  /\ BatchInv /\ ProgTypes /\ LockInv /\ Counted /\ Ordered
  /\ phase = "Execute" /\ phase' = phase /\ batch' = batch /\ prog' = prog /\ todo' = todo
  /\ LockInv' /\ Counted'

\* The same after a step.
DoneAfter(t, k) ==
  /\ t \in dealt'[Owner[k]][ManagerOf[k]]
  /\ ~Waits(Owner[k], ManagerOf[k], t)'
  /\ ~InHand(Owner[k], ManagerOf[k], t)'

LEMMA IsDoneNext == \A t, k : IsDone(t, k)' <=> DoneAfter(t, k)
  BY DEF IsDone, DoneAfter, Waits, InHand, Serves

\* A step that lets nobody be done with a row and does not write it.
LEMMA StoreKept ==
  ASSUME StepOf, NEW k \in Keys, BlindRow(k) \/ LeftBy(db[k], k, Finished(k)),
         db'[k] = db[k],
         \A t \in Txns : k \in prog[t].writes \cap prog[t].reads =>
           (IsDone(t, k)' <=> IsDone(t, k))
  PROVE  (BlindRow(k) \/ LeftBy(db[k], k, Finished(k)))'
<1>1. BlindRow(k)' <=> BlindRow(k)
  BY DEF StepOf, BlindRow, Blinds
<1>2. CASE ~BlindRow(k)
  <2>1. \A t \in Txns : k \in prog[t].writes =>
          (t \in Finished(k)' <=> t \in Finished(k))
    <3>1. \A t \in Txns : k \in prog[t].writes => k \in prog[t].reads
      BY <1>2 DEF BlindRow, Blinds
    <3>2. Finished(k)' = {t \in Txns : \/ BatchOf[t] < batch
                                       \/ phase = "DONE"
                                       \/ t \in todo[Owner[k]] /\ IsDone(t, k)'}
      BY DEF StepOf, Finished
    <3> QED
      BY <3>1, <3>2 DEF Finished
  <2>2. Finished(k) \subseteq Txns /\ Finished(k)' \subseteq Txns
    BY DEF Finished
  <2>3. LeftBy(db[k], k, Finished(k)')
    BY <1>2, <2>1, <2>2, SameWriters
  <2>4. LeftBy(db[k], k, Finished(k))' <=> LeftBy(db'[k], k, Finished(k)')
    BY DEF StepOf, LeftBy
  <2> QED
    BY <2>3, <2>4
<1> QED
  BY <1>1, <1>2

LEMMA StoreNext ==
  ASSUME \A k \in Keys : (BlindRow(k) \/ LeftBy(db[k], k, Finished(k)))'
  PROVE  StoreInOrder'
  BY DEF StoreInOrder

\* Nobody is done before the holders, unless that holds after the step for
\* the new holders and those who are done now.
LEMMA HoldersNext ==
  ASSUME StepOf,
         \A k \in Keys : ~BlindRow(k) =>
           \A t \in Txns, u \in todo[Owner[k]] :
             Holds(t, k)' /\ k \in Updates(u) /\ Earlier(t, u) => ~IsDone(u, k)'
  PROVE  HoldersFirst'
<1>1. \A k : BlindRow(k)' <=> BlindRow(k)
  BY DEF StepOf, BlindRow, Blinds
<1>2. \A u : Updates(u)' = Updates(u)
  BY DEF StepOf, Updates
<1>3. (\A k \in Keys : BlindRow(k) \/
         \A t \in Txns, u \in todo[Owner[k]] :
           Holds(t, k) /\ k \in Updates(u) /\ Earlier(t, u) => ~IsDone(u, k))'
  BY <1>1, <1>2 DEF StepOf, Earlier
<1> QED
  BY <1>3 DEF HoldersFirst


LEMMA InputFacts ==
  ASSUME InputsInOrder
  PROVE  /\ \A n \in Nodes : \A t \in todo[n] : \A k \in prog[t].reads :
              /\ Owner[k] = n => Lacks(t, k) \/ IsInput(t, k, input[n][t][k])
              /\ n \in Active(t) /\ Owner[k] # n =>
                   k \in RemoteGap(t, n) \/ IsInput(t, k, input[n][t][k])
         /\ \A c \in Lanes : \A i \in DOMAIN reads[c] :
              IsInput(reads[c][i].txn, reads[c][i].key, reads[c][i].val)
         /\ \A n \in Nodes, t \in Txns : ran[n][t] > 0 =>
              \A k \in prog[t].reads : IsInput(t, k, input[n][t][k])
<1>1. \A t, k, n : Owner[k] = n => (Unread(n, ManagerOf[k], t) <=> Lacks(t, k))
  BY DEF Lacks
<1> QED
  BY <1>1 DEF InputsInOrder

LEMMA InputsKept ==
  ASSUME StepOf, input' = input, reads' = reads, ran' = ran,
         \A u \in Txns : \A k \in prog[u].reads : Lacks(u, k)' <=> Lacks(u, k)
  PROVE  InputsInOrder'
<1>1. /\ prog' = prog /\ todo' = todo /\ InputsInOrder
      /\ \A n \in Nodes : todo[n] \subseteq Txns
  BY PlanFacts DEF StepOf, Ordered, BatchInv
<1>2. \A u \in Txns : \A o : RemoteGap(u, o)' = RemoteGap(u, o)
  BY <1>1, GapsKept
<1>3. \A u \in Txns : \A k \in prog[u].reads : LacksAfter(u, k) <=> Lacks(u, k)
  BY LacksNext
<1>4. \A n \in Nodes : \A t \in todo'[n] : \A k \in prog[t].reads :
        /\ Owner[k] = n => LacksAfter(t, k) \/ IsInput(t, k, input'[n][t][k])
        /\ n \in Active(t) /\ Owner[k] # n =>
             k \in RemoteGap(t, n)' \/ IsInput(t, k, input'[n][t][k])
  <2>1. ASSUME NEW n \in Nodes, NEW t \in todo'[n], NEW k \in prog[t].reads
        PROVE  /\ Owner[k] = n => LacksAfter(t, k) \/ IsInput(t, k, input'[n][t][k])
               /\ n \in Active(t) /\ Owner[k] # n =>
                    k \in RemoteGap(t, n)' \/ IsInput(t, k, input'[n][t][k])
    <3>1. t \in Txns /\ t \in todo[n]
      BY <1>1, <2>1
    <3>2. /\ Owner[k] = n => Lacks(t, k) \/ IsInput(t, k, input[n][t][k])
          /\ n \in Active(t) /\ Owner[k] # n =>
               k \in RemoteGap(t, n) \/ IsInput(t, k, input[n][t][k])
      BY <1>1, <3>1, InputFacts
    <3> QED
      BY <1>2, <1>3, <3>1, <3>2
  <2> QED
    BY <2>1
<1>5. /\ \A c \in Lanes : \A i \in DOMAIN reads'[c] :
           IsInput(reads'[c][i].txn, reads'[c][i].key, reads'[c][i].val)
      /\ \A n \in Nodes, t \in Txns : ran'[n][t] > 0 =>
           \A k \in prog[t].reads : IsInput(t, k, input'[n][t][k])
  BY <1>1, InputFacts
<1> QED
  BY <1>1, <1>4, <1>5, InputsNext

LEMMA StepFacts ==
  ASSUME StepOf
  PROVE  /\ BatchInv /\ BatchPlan /\ LockInv /\ ScheduleTypeOK /\ ProgTypes /\ Counted
         /\ StoreInOrder /\ HoldersFirst /\ InputsInOrder /\ RunsOnce
         /\ UNCHANGED <<prog, todo>> /\ phase = "Execute"
         /\ \A n \in Nodes : todo[n] \subseteq Txns
         /\ \A n \in Nodes, t \in Txns : t \in todo[n] <=> BatchOf[t] = batch /\ ~prog[t].rollback
  BY PlanFacts DEF StepOf, Ordered, BatchInv, LockInv, Current

LEMMA GrantOrdered ==
  ASSUME StepOf, NEW n \in Nodes, NEW m \in Managers, NEW t \in Txns, NEW k \in Keys,
         Grant(n, m, t, k)
  PROVE  Ordered'
<1>0. LockInv /\ ProgTypes /\ StoreInOrder /\ HoldersFirst /\ UNCHANGED <<prog, todo>>
  BY StepFacts
<1>1. /\ AtHand(n, m, t) /\ k \in RowsOf(t, n, m)
      /\ dealt' = dealt /\ input' = input /\ ran' = ran /\ db' = db /\ reads' = reads
  BY <1>0, GrantFacts DEF GrantEffect
<1>2. \A o, p, u : (Waits(o, p, u)' <=> Waits(o, p, u)) /\ (InHand(o, p, u)' <=> InHand(o, p, u))
  BY <1>0, GrantPlaces
<1>3. \A u, j : (Lacks(u, j)' <=> Lacks(u, j)) /\ (IsDone(u, j)' <=> IsDone(u, j))
  BY <1>1, <1>2 DEF Lacks, Unread, IsDone
<1>4. StoreInOrder'
  <2>1. ASSUME NEW j \in Keys PROVE (BlindRow(j) \/ LeftBy(db[j], j, Finished(j)))'
    <3>1. BlindRow(j) \/ LeftBy(db[j], j, Finished(j))
      BY <1>0 DEF StoreInOrder
    <3> QED
      BY <1>1, <1>3, <3>1, StoreKept
  <2> QED
    BY <2>1, StoreNext
<1>5. HoldersFirst'
  <2>1. ASSUME NEW j \in Keys, ~BlindRow(j), NEW s \in Txns, NEW u \in todo[Owner[j]],
               Holds(s, j)', j \in Updates(u), Earlier(s, u), IsDone(u, j)
        PROVE  FALSE
    <3>1. Holds(s, j) \/ (s = t /\ j = k)
      BY <1>0, <2>1, GrantHolds
    <3>2. CASE Holds(s, j)
      BY <1>0, <2>1, <3>2 DEF HoldersFirst
    <3>3. CASE s = t /\ j = k
      <4>1. Owner[k] = n /\ ManagerOf[k] = m /\ t \in todo[n] /\ t \notin dealt[n][m]
        BY <1>1 DEF RowsOf, RowsAt, AtHand
      <4>2. u \in dealt[n][m] /\ u \in Txns
        BY <2>1, <3>3, <4>1, StepFacts DEF IsDone
      <4>3. Earlier(u, t)
        BY <1>0, <4>1, <4>2, InOrder
      <4>4. Tid[u] \in Nat /\ Tid[t] \in Nat
        BY <4>2, TidFacts
      <4> QED
        BY <2>1, <3>3, <4>3, <4>4 DEF Earlier
    <3> QED
      BY <3>1, <3>2, <3>3
  <2> QED
    BY <1>3, <2>1, HoldersNext
<1>6. InputsInOrder'
  BY <1>1, <1>3, InputsKept
<1> QED
  BY <1>4, <1>5, <1>6 DEF Ordered

LEMMA AssignOrdered ==
  ASSUME StepOf, NEW n \in Nodes, NEW m \in Managers, NEW t \in Txns, Assign(n, m, t)
  PROVE  Ordered'
<1>0. LockInv /\ ProgTypes /\ Counted /\ StoreInOrder /\ HoldersFirst /\ UNCHANGED <<prog, todo>>
  BY StepFacts
<1>1. /\ input' = input /\ ran' = ran /\ db' = db /\ reads' = reads
      /\ \A o \in Nodes, p \in Managers :
           dealt'[o][p] = IF o = n /\ p = m THEN dealt[n][m] \cup {t} ELSE dealt[o][p]
      /\ AtHand(n, m, t)
  <2>1. AssignEffect(n, m, t)
    BY <1>0, AssignFacts
  <2> QED
    BY <2>1 DEF AssignEffect
<1>2. \A u \in Txns : \A j \in prog[u].reads : Lacks(u, j)' <=> Lacks(u, j)
  BY <1>0, AssignCounts
<1>3. ASSUME NEW u \in Txns, NEW j \in prog[u].reads
      PROVE  IsDone(u, j)' <=> IsDone(u, j)
  <2> DEFINE o == Owner[j]
             p == ManagerOf[j]
  <2>1. j \in Keys /\ o \in Nodes /\ p \in Managers
    BY <1>0, RowPlace DEF ProgTypes
  <2>2. InHand(o, p, u)' <=> InHand(o, p, u)
    BY <1>0, <2>1, AssignPlaces
  <2>3. (u \notin dealt'[o][p] \/ Waits(o, p, u)') <=> (u \notin dealt[o][p] \/ Waits(o, p, u))
    BY <1>2, <1>3 DEF Lacks, Unread, Waits, Serves
  <2> QED
    BY <2>2, <2>3, IsDoneNext DEF DoneAfter, IsDone
<1>4. StoreInOrder'
  <2>1. ASSUME NEW j \in Keys PROVE (BlindRow(j) \/ LeftBy(db[j], j, Finished(j)))'
    <3>1. BlindRow(j) \/ LeftBy(db[j], j, Finished(j))
      BY <1>0 DEF StoreInOrder
    <3> QED
      BY <1>1, <1>3, <3>1, StoreKept
  <2> QED
    BY <2>1, StoreNext
<1>5. HoldersFirst'
  <2>1. ASSUME NEW j \in Keys, ~BlindRow(j), NEW s \in Txns, NEW u \in todo[Owner[j]],
               Holds(s, j)', j \in Updates(u), Earlier(s, u)
        PROVE  ~IsDone(u, j)'
    <3>1. Holds(s, j)
      BY <1>0, <2>1, AssignHolds
    <3>2. ~IsDone(u, j)
      BY <1>0, <2>1, <3>1 DEF HoldersFirst
    <3>3. u \in Txns /\ j \in prog[u].reads
      BY <2>1, RowPlace, StepFacts DEF Updates
    <3> QED
      BY <1>3, <3>2, <3>3
  <2> QED
    BY <2>1, HoldersNext
<1>6. InputsInOrder'
  BY <1>1, <1>2, InputsKept
<1> QED
  BY <1>4, <1>5, <1>6 DEF Ordered


LEMMA BeginOrdered ==
  ASSUME StepOf, NEW n \in Nodes, NEW w \in Executors, NEW t, BeginEffect(n, w, t)
  PROVE  Ordered'
<1> DEFINE rows == RowsOf(t, n, Serves(w))
           m == Serves(w)
<1>0. /\ LockInv /\ ProgTypes /\ Counted /\ StoreInOrder /\ HoldersFirst /\ InputsInOrder
      /\ UNCHANGED <<prog, todo>> /\ BatchInv /\ phase = "Execute"
      /\ \A o \in Nodes : todo[o] \subseteq Txns
  BY StepFacts
<1>1. /\ t \in Txns /\ dealt' = dealt /\ ran' = ran /\ db' = db
      /\ \A o \in Nodes : \A u \in Txns : \A k \in Keys :
           input'[o][u][k] = IF o = n /\ u = t /\ k \in rows THEN db[k] ELSE input[o][u][k]
      /\ m \in Managers
  BY WorkersServe DEF BeginEffect
<1>2. /\ Waits(n, m, t) /\ t \in dealt[n][m]
      /\ \A o \in Nodes, p \in Managers, u \in Txns :
           /\ InHand(o, p, u)' <=> InHand(o, p, u) \/ (o = n /\ p = m /\ u = t)
           /\ Waits(o, p, u)' <=> Waits(o, p, u) /\ ~(o = n /\ p = m /\ u = t)
  <2>1. Waits(n, m, t)
    BY <1>0, BeginPlaces
  <2>2. t \in dealt[n][m]
    BY <1>0, <1>1, <2>1, HandedOutDealt
  <2> QED
    BY <1>0, <2>1, <2>2, BeginPlaces
<1>3. \A u \in Txns : \A k \in prog[u].reads :
        Lacks(u, k)' <=> Lacks(u, k) /\ ~(u = t /\ k \in rows)
  BY <1>0, BeginLacks
<1>4. \A k \in rows : Owner[k] = n /\ ManagerOf[k] = m /\ k \in prog[t].reads /\ k \in Keys
  BY <1>0, <1>1 DEF RowsOf, RowsAt, ProgTypes
<1>5. ASSUME NEW u \in Txns, NEW k \in Keys PROVE IsDone(u, k)' <=> IsDone(u, k)
  <2>1. Owner[k] \in Nodes /\ ManagerOf[k] \in Managers
    BY RowPlace
  <2> QED
    BY <1>1, <1>2, <2>1, IsDoneNext DEF DoneAfter, IsDone
<1>6. ASSUME NEW k \in rows PROVE IsInput(t, k, db[k])
  <2>1. Holds(t, k) /\ ~IsDone(t, k)
    BY <1>2, <1>4, HoldsIff DEF IsDone
  <2> QED
    BY <1>0, <1>1, <1>2, <1>4, <2>1, HolderReads
<1> HIDE DEF rows, m
<1>7. StoreInOrder'
  <2>1. ASSUME NEW j \in Keys PROVE (BlindRow(j) \/ LeftBy(db[j], j, Finished(j)))'
    <3>1. BlindRow(j) \/ LeftBy(db[j], j, Finished(j))
      BY <1>0 DEF StoreInOrder
    <3> QED
      BY <1>1, <1>5, <3>1, StoreKept
  <2> QED
    BY <2>1, StoreNext
<1>8. HoldersFirst'
  <2>1. ASSUME NEW j \in Keys, ~BlindRow(j), NEW s \in Txns, NEW u \in todo[Owner[j]],
               Holds(s, j)', j \in Updates(u), Earlier(s, u)
        PROVE  ~IsDone(u, j)'
    <3>1. Holds(s, j)
      BY <1>0, <2>1, BeginHolds
    <3>2. ~IsDone(u, j) /\ u \in Txns
      BY <1>0, <2>1, <3>1, RowPlace DEF HoldersFirst
    <3> QED
      BY <1>5, <3>2
  <2> QED
    BY <2>1, HoldersNext
<1>9. ASSUME NEW o \in Nodes, NEW u \in todo'[o], NEW k \in prog[u].reads
      PROVE  /\ Owner[k] = o => LacksAfter(u, k) \/ IsInput(u, k, input'[o][u][k])
             /\ o \in Active(u) /\ Owner[k] # o =>
                  k \in RemoteGap(u, o)' \/ IsInput(u, k, input'[o][u][k])
  <2>1. u \in todo[o] /\ u \in Txns /\ k \in Keys
    BY <1>0, <1>9 DEF ProgTypes
  <2>2. /\ Owner[k] = o => Lacks(u, k) \/ IsInput(u, k, input[o][u][k])
        /\ o \in Active(u) /\ Owner[k] # o =>
             k \in RemoteGap(u, o) \/ IsInput(u, k, input[o][u][k])
    BY <1>0, <2>1, InputFacts
  <2>3. CASE o = n /\ u = t /\ k \in rows
    <3>1. input'[o][u][k] = db[k]
      BY <1>1, <2>1, <2>3
    <3> QED
      BY <1>6, <2>3, <3>1
  <2>4. CASE ~(o = n /\ u = t /\ k \in rows)
    <3>1. input'[o][u][k] = input[o][u][k]
      BY <1>1, <2>1, <2>4
    <3>2. ASSUME Owner[k] = o, Lacks(u, k) PROVE LacksAfter(u, k)
      <4>1. Lacks(u, k)'
        BY <1>3, <1>4, <2>1, <2>4, <3>2
      <4> QED
        BY <4>1, LacksNext
    <3>3. ASSUME o \in Active(u), Owner[k] # o, k \in RemoteGap(u, o) PROVE k \in RemoteGap(u, o)'
      <4>1. Lacks(u, k) \/ OnItsWay(u, k, o)
        BY <3>3, GapsIff
      <4>2. OnItsWay(u, k, o)' <=>
              \/ OnItsWay(u, k, o)
              \/ u = t /\ k \in rows /\ o \in Active(t) /\ o # n
        BY <1>0, BeginWay DEF rows
      <4>3. Lacks(u, k)' \/ OnItsWay(u, k, o)'
        BY <1>3, <1>4, <2>1, <3>3, <4>1, <4>2
      <4> QED
        BY <1>0, <3>3, <4>3, GapsIffNext
    <3> QED
      BY <2>2, <3>1, <3>2, <3>3
  <2> QED
    BY <2>3, <2>4
<1>10. ASSUME NEW c \in Lanes, NEW i \in DOMAIN reads'[c]
       PROVE  IsInput(reads'[c][i].txn, reads'[c][i].key, reads'[c][i].val)
  <2>1. \/ i \in DOMAIN reads[c] /\ reads'[c][i] = reads[c][i]
        \/ /\ reads'[c][i].key \in RowsOf(t, n, Serves(w))
           /\ reads'[c][i] = Carries(t, reads'[c][i].key)
    BY <1>0, BeginSends
  <2>2. CASE i \in DOMAIN reads[c] /\ reads'[c][i] = reads[c][i]
    BY <1>0, <2>2, InputFacts
  <2>3. CASE /\ reads'[c][i].key \in RowsOf(t, n, Serves(w))
             /\ reads'[c][i] = Carries(t, reads'[c][i].key)
    <3>1. PICK k \in rows : reads'[c][i].key = k
      BY <2>3 DEF rows
    <3>2. reads'[c][i].txn = t /\ reads'[c][i].val = db[k]
      BY <2>3, <3>1 DEF Carries
    <3> QED
      BY <1>6, <3>1, <3>2
  <2> QED
    BY <2>1, <2>2, <2>3
<1>11. ASSUME NEW o \in Nodes, NEW u \in Txns, ran'[o][u] > 0, NEW k \in prog[u].reads
       PROVE  IsInput(u, k, input'[o][u][k])
  <2>1. k \in Keys /\ IsInput(u, k, input[o][u][k])
    BY <1>0, <1>1, <1>11, InputFacts DEF ProgTypes
  <2> QED
    BY <1>1, <1>6, <2>1
<1>12. InputsInOrder'
  BY <1>0, <1>9, <1>10, <1>11, InputsNext
<1> QED
  BY <1>7, <1>8, <1>12 DEF Ordered


LEMMA FinishOrdered ==
  ASSUME StepOf, NEW n \in Nodes, NEW w \in Executors, NEW t, t = running[n][w],
         FinishEffect(n, w, t)
  PROVE  Ordered'
<1> DEFINE m == Serves(w)
           Mine(k) == Owner[k] = n /\ ManagerOf[k] = m
<1>0. /\ LockInv /\ ProgTypes /\ Counted /\ StoreInOrder /\ HoldersFirst /\ InputsInOrder
      /\ UNCHANGED <<prog, todo>> /\ BatchInv /\ phase = "Execute" /\ BatchPlan
      /\ \A o \in Nodes : todo[o] \subseteq Txns
  BY StepFacts
<1>1. /\ t \in Txns /\ dealt' = dealt /\ queue' = queue /\ input' = input /\ reads' = reads
      /\ \A o \in Nodes : \A u \in Txns :
           ran'[o][u] = IF o = n /\ u = t /\ n \in Active(t) THEN ran[n][t] + 1 ELSE ran[o][u]
      /\ \A k \in Keys :
           db'[k] = IF n \in Active(t) /\ k \in prog[t].writes /\ Mine(k) THEN t ELSE db[k]
      /\ m \in Managers
  BY WorkersServe DEF FinishEffect
<1>2. /\ InHand(n, m, t) /\ ~Waits(n, m, t) /\ t \in dealt[n][m] /\ t \in todo[n]
      /\ \A o \in Nodes, p \in Managers, u \in Txns :
           /\ InHand(o, p, u)' <=> InHand(o, p, u) /\ ~(o = n /\ p = m /\ u = t)
           /\ Waits(o, p, u)' <=> Waits(o, p, u)
  <2>1. InHand(n, m, t)
    BY <1>0, FinishPlaces
  <2>2. t \in dealt[n][m] /\ t \in todo[n] /\ ~Waits(n, m, t)
    BY <1>0, <1>1, <2>1, HandedOutDealt
  <2> QED
    BY <1>0, <2>1, <2>2, FinishPlaces
<1>3. \A u, k : Lacks(u, k)' <=> Lacks(u, k)
  BY <1>1 DEF Lacks, Unread, Waits
<1>4. ASSUME NEW u \in Txns, NEW k \in Keys
      PROVE  IsDone(u, k)' <=> IsDone(u, k) \/ (Mine(k) /\ u = t)
  <2>1. Owner[k] \in Nodes /\ ManagerOf[k] \in Managers
    BY RowPlace
  <2> QED
    BY <1>1, <1>2, <2>1, IsDoneNext DEF DoneAfter, IsDone
<1>5. ASSUME NEW k \in Keys, Mine(k), k \in prog[t].reads PROVE Holds(t, k) /\ ~IsDone(t, k)
  BY <1>2, <1>5, HoldsIff DEF IsDone
<1>6. StoreInOrder'
  <2>1. ASSUME NEW k \in Keys PROVE (BlindRow(k) \/ LeftBy(db[k], k, Finished(k)))'
    <3>0. BlindRow(k) \/ LeftBy(db[k], k, Finished(k))
      BY <1>0 DEF StoreInOrder
    <3>1. CASE ~(k \in prog[t].writes /\ k \in prog[t].reads /\ Mine(k))
      <4>1. CASE BlindRow(k)
        BY <1>0, <4>1 DEF BlindRow, Blinds
      <4>2. CASE ~BlindRow(k)
        <5>1. db'[k] = db[k]
          BY <1>1, <3>1, <4>2 DEF BlindRow, Blinds
        <5>2. \A u \in Txns : k \in prog[u].writes \cap prog[u].reads =>
                (IsDone(u, k)' <=> IsDone(u, k))
          BY <1>4, <3>1
        <5> QED
          BY <3>0, <5>1, <5>2, StoreKept
      <4> QED
        BY <4>1, <4>2
    <3>2. CASE k \in prog[t].writes /\ k \in prog[t].reads /\ Mine(k) /\ ~BlindRow(k)
      <4>1. k \in Updates(t) /\ n \in Active(t) /\ db'[k] = t
        BY <1>1, <3>2 DEF Updates, Active
      <4>2. Holds(t, k) /\ ~IsDone(t, k)
        BY <1>5, <3>2
      <4>3. \A u \in Txns : u \in Finished(k)' <=> u \in Finished(k) \/ u = t
        <5>1. Finished(k)' = {u \in Txns : \/ BatchOf[u] < batch
                                           \/ phase = "DONE"
                                           \/ u \in todo[Owner[k]] /\ IsDone(u, k)'}
          BY DEF StepOf, Finished
        <5> QED
          BY <1>2, <1>4, <3>2, <5>1 DEF Finished
      <4>4. ASSUME NEW u \in Txns, u \in Finished(k), k \in prog[u].writes
            PROVE  Precedes(u, t)
        <5>1. \/ BatchOf[u] < batch
              \/ u \in todo[n] /\ IsDone(u, k)
          BY <1>0, <3>2, <4>4 DEF Finished
        <5>2. BatchOf[t] = batch /\ \A x \in todo[n] : BatchOf[x] = batch
          BY <1>0, <1>2 DEF BatchPlan, Current
        <5>3. CASE u \in todo[n] /\ IsDone(u, k)
          <6>1. k \in Updates(u) /\ u # t
            BY <3>2, <4>2, <4>4, <5>3 DEF BlindRow, Blinds, Updates
          <6>2. ~Earlier(t, u)
            BY <1>0, <1>1, <3>2, <4>2, <5>3, <6>1 DEF HoldersFirst
          <6>3. Earlier(u, t)
            BY <1>0, <1>1, <1>2, <5>3, <6>1, <6>2, InOrder
          <6> QED
            BY <5>2, <5>3, <6>3 DEF Precedes
        <5> QED
          BY <5>1, <5>2, <5>3 DEF Precedes
      <4>5. ~prog[t].rollback
        BY <1>0, <1>2 DEF BatchPlan, Current
      <4>6. LeftBy(t, k, Finished(k)')
        <5>1. Finished(k)' \subseteq Txns
          BY DEF Finished
        <5>2. t \in {u \in Finished(k)' : k \in prog[u].writes /\ ~prog[u].rollback}
          BY <1>1, <3>2, <4>3, <4>5
        <5>3. \A u \in {x \in Finished(k)' : k \in prog[x].writes /\ ~prog[x].rollback} :
                u = t \/ Precedes(u, t)
          BY <4>3, <4>4, <5>1
        <5> QED
          BY <5>2, <5>3 DEF LeftBy
      <4>7. LeftBy(db[k], k, Finished(k))' <=> LeftBy(db'[k], k, Finished(k)')
        BY <1>0 DEF LeftBy
      <4> QED
        BY <4>1, <4>6, <4>7
    <3>3. CASE BlindRow(k)
      BY <1>0, <3>3 DEF BlindRow, Blinds
    <3> QED
      BY <3>1, <3>2, <3>3
  <2> QED
    BY <2>1, StoreNext
<1>7. HoldersFirst'
  <2>1. ASSUME NEW k \in Keys, ~BlindRow(k), NEW s \in Txns, NEW u \in todo[Owner[k]],
               Holds(s, k)', k \in Updates(u), Earlier(s, u), IsDone(u, k)'
        PROVE  FALSE
    <3>1. u \in Txns /\ Holds(s, k) /\ ~(s = t /\ Mine(k))
      BY <1>0, <2>1, FinishHolds, RowPlace
    <3>2. CASE IsDone(u, k)
      BY <1>0, <2>1, <3>1, <3>2 DEF HoldersFirst
    <3>3. CASE Mine(k) /\ u = t
      <4>1. Holds(t, k)
        BY <1>5, <2>1, <3>3 DEF Updates
      <4>2. s = t
        BY <1>0, <2>1, <3>1, <3>3, <4>1, Exclusive
      <4> QED
        BY <3>1, <3>3, <4>2
    <3> QED
      BY <1>4, <2>1, <3>1, <3>2, <3>3
  <2> QED
    BY <2>1, HoldersNext
<1>8. \A u : \A o : RemoteGap(u, o)' = RemoteGap(u, o)
  BY <1>0, <1>1, <1>3, GapsKept
<1>9. \A o \in Nodes : \A u \in todo'[o] : \A k \in prog[u].reads :
        /\ Owner[k] = o => LacksAfter(u, k) \/ IsInput(u, k, input'[o][u][k])
        /\ o \in Active(u) /\ Owner[k] # o =>
             k \in RemoteGap(u, o)' \/ IsInput(u, k, input'[o][u][k])
  <2>1. \A u, k : Lacks(u, k) => LacksAfter(u, k)
    BY <1>3, LacksNext
  <2> QED
    BY <1>0, <1>1, <1>8, <2>1, InputFacts
<1>10. \A c \in Lanes : \A i \in DOMAIN reads'[c] :
         IsInput(reads'[c][i].txn, reads'[c][i].key, reads'[c][i].val)
  BY <1>0, <1>1, InputFacts
<1>11. ASSUME NEW o \in Nodes, NEW u \in Txns, ran'[o][u] > 0, NEW k \in prog[u].reads
       PROVE  IsInput(u, k, input'[o][u][k])
  <2>1. CASE o = n /\ u = t /\ n \in Active(t)
    <3>1. LocalGap(t, n) = {} /\ RemoteGap(t, n) = {}
      BY <1>0, <2>1, FinishCounts
    <3>2. Owner[k] = n => ~Lacks(t, k)
      BY <1>11, <2>1, <3>1, GapsIff
    <3> QED
      BY <1>0, <1>1, <1>2, <1>11, <2>1, <3>1, <3>2, InputFacts
  <2>2. CASE ~(o = n /\ u = t /\ n \in Active(t))
    BY <1>0, <1>1, <1>11, <2>2, InputFacts
  <2> QED
    BY <2>1, <2>2
<1>12. InputsInOrder'
  BY <1>0, <1>9, <1>10, <1>11, InputsNext
<1> QED
  BY <1>6, <1>7, <1>12 DEF Ordered

LEMMA ReceiveOrdered ==
  ASSUME StepOf, NEW c \in Lanes, NEW msg, ReceiveEffect(c, msg)
  PROVE  Ordered'
<1>0. /\ LockInv /\ ProgTypes /\ Counted /\ StoreInOrder /\ HoldersFirst /\ InputsInOrder
      /\ UNCHANGED <<prog, todo>>
      /\ \A o \in Nodes : todo[o] \subseteq Txns
  BY StepFacts
<1>1. PICK t, r, n : t = msg.txn /\ r = msg.key /\ n = c[2]
  OBVIOUS
<1>2. /\ t \in Txns /\ r \in Keys /\ n \in Nodes /\ c[1] \in Nodes /\ c[1] # n
      /\ dealt' = dealt /\ queue' = queue /\ running' = running /\ ran' = ran /\ db' = db
      /\ 1 \in DOMAIN reads[c] /\ reads[c][1] = msg
      /\ \A o \in Nodes : \A u \in Txns : \A k \in Keys :
           input'[o][u][k] = IF o = n /\ u = t /\ k = r THEN msg.val ELSE input[o][u][k]
  BY <1>1 DEF ReceiveEffect
<1>3. /\ r \in RemoteGap(t, n)
      /\ \A k \in prog[t].reads : k \in RemoteGap(t, n)' <=> k \in RemoteGap(t, n) /\ k # r
  BY <1>0, <1>1, ReceiveCounts
<1>4. \A u, k : (Lacks(u, k)' <=> Lacks(u, k)) /\ (IsDone(u, k)' <=> IsDone(u, k))
  BY <1>2 DEF Lacks, Unread, Waits, IsDone, InHand
<1>5. IsInput(t, r, msg.val)
  BY <1>0, <1>1, <1>2, InputFacts
<1>6. StoreInOrder'
  <2>1. ASSUME NEW j \in Keys PROVE (BlindRow(j) \/ LeftBy(db[j], j, Finished(j)))'
    <3>1. BlindRow(j) \/ LeftBy(db[j], j, Finished(j))
      BY <1>0 DEF StoreInOrder
    <3> QED
      BY <1>2, <1>4, <3>1, StoreKept
  <2> QED
    BY <2>1, StoreNext
<1>7. HoldersFirst'
  <2>1. ASSUME NEW j \in Keys, ~BlindRow(j), NEW s \in Txns, NEW u \in todo[Owner[j]],
               Holds(s, j)', j \in Updates(u), Earlier(s, u)
        PROVE  ~IsDone(u, j)'
    <3>1. Holds(s, j)
      BY <1>0, <2>1, ReceiveHolds
    <3> QED
      BY <1>0, <1>4, <2>1, <3>1 DEF HoldersFirst
  <2> QED
    BY <2>1, HoldersNext
<1>8. ASSUME NEW o \in Nodes, NEW u \in todo'[o], NEW k \in prog[u].reads
      PROVE  /\ Owner[k] = o => LacksAfter(u, k) \/ IsInput(u, k, input'[o][u][k])
             /\ o \in Active(u) /\ Owner[k] # o =>
                  k \in RemoteGap(u, o)' \/ IsInput(u, k, input'[o][u][k])
  <2>1. u \in todo[o] /\ u \in Txns /\ k \in Keys
    BY <1>0, <1>8 DEF ProgTypes
  <2>2. /\ Owner[k] = o => Lacks(u, k) \/ IsInput(u, k, input[o][u][k])
        /\ o \in Active(u) /\ Owner[k] # o =>
             k \in RemoteGap(u, o) \/ IsInput(u, k, input[o][u][k])
    BY <1>0, <2>1, InputFacts
  <2>3. CASE o = n /\ u = t /\ k = r
    BY <1>2, <1>5, <2>1, <2>3
  <2>4. CASE ~(o = n /\ u = t /\ k = r)
    <3>1. input'[o][u][k] = input[o][u][k]
      BY <1>2, <2>1, <2>4
    <3>2. Lacks(u, k) => LacksAfter(u, k)
      BY <1>4, LacksNext
    <3>3. k \in RemoteGap(u, o) => k \in RemoteGap(u, o)'
      <4>1. CASE u = t /\ o = n
        BY <1>3, <1>8, <2>4, <4>1
      <4>2. CASE ~(u = t /\ o = n)
        <5>1. OnItsWay(u, k, o) => OnItsWay(u, k, o)'
          BY <1>0, <1>1, <4>2, ReceiveWay
        <5> QED
          BY <1>0, <1>4, <5>1, GapsIff, GapsIffNext
      <4> QED
        BY <4>1, <4>2
    <3> QED
      BY <2>2, <3>1, <3>2, <3>3
  <2> QED
    BY <2>3, <2>4
<1>9. ASSUME NEW d \in Lanes, NEW i \in DOMAIN reads'[d]
      PROVE  IsInput(reads'[d][i].txn, reads'[d][i].key, reads'[d][i].val)
  <2>1. PICK j \in DOMAIN reads[d] : reads'[d][i] = reads[d][j]
    BY <1>0, <1>9, ReceiveReads
  <2> QED
    BY <1>0, <2>1, InputFacts
<1>10. ASSUME NEW o \in Nodes, NEW u \in Txns, ran'[o][u] > 0, NEW k \in prog[u].reads
       PROVE  IsInput(u, k, input'[o][u][k])
  <2>1. k \in Keys /\ IsInput(u, k, input[o][u][k])
    BY <1>0, <1>2, <1>10, InputFacts DEF ProgTypes
  <2> QED
    BY <1>2, <1>5, <2>1
<1>11. InputsInOrder'
  BY <1>0, <1>8, <1>9, <1>10, InputsNext
<1> QED
  BY <1>6, <1>7, <1>11 DEF Ordered


\* A node executes the transactions of the schedule only, and those once that
\* no two managers share.
LEMMA RunsNext ==
  ASSUME StepOf,
         \A n \in Nodes, t \in Txns : t \notin todo[n] => ran'[n][t] = ran[n][t]
  PROVE  RunsOnce'
<1>0. /\ RunsOnce /\ UNCHANGED <<prog, todo>> /\ phase = "Execute" /\ ScheduleTypeOK'
      /\ phase' = phase /\ batch' = batch
      /\ \A n \in Nodes, t \in Txns : t \in todo[n] <=> BatchOf[t] = batch /\ ~prog[t].rollback
  BY StepFacts DEF StepOf, LockInv
<1>1. \A t, n : (Split(t, n)' <=> Split(t, n)) /\ Active(t)' = Active(t)
                /\ RowsAt(t, n)' = RowsAt(t, n)
  BY <1>0 DEF Split, Active, Updates, RowsAt
<1>2. SUFFICES ASSUME NEW n \in Nodes, NEW t \in Txns
               PROVE  /\ ran'[n][t] > 0 => ~prog[t].rollback
                           /\ (BatchOf[t] < batch \/ BatchOf[t] = batch)
                      /\ ran'[n][t] <= 1 \/ Split(t, n)
  BY <1>0, <1>1 DEF RunsOnce
<1>3. CASE t \notin todo[n]
  BY <1>0, <1>3 DEF RunsOnce
<1>4. CASE t \in todo[n]
  <2>1. RunsCounted' /\ todo' = todo /\ ran'[n][t] \in Nat
    BY <1>0 DEF StepOf, Counted, ScheduleTypeOK
  <2>2. /\ ran'[n][t] > 0 => n \in Active(t)
        /\ n \in Active(t) /\ ~Split(t, n) => \A k \in RowsAt(t, n) : ran'[n][t] <= 1
    BY <1>1, <1>4, <2>1 DEF RunsCounted
  <2>3. n \in Active(t) => RowsAt(t, n) # {}
    BY DEF Active, Updates, RowsAt
  <2> QED
    BY <1>0, <1>4, <2>1, <2>2, <2>3
<1> QED
  BY <1>3, <1>4

LEMMA ScheduleBatch ==
  ASSUME BatchInv, Schedule
  PROVE  BatchInv'
<1>1. /\ ScheduleStep /\ UNCHANGED <<batch, phase, prog, todo>> /\ phase = "Execute"
      /\ BatchPlan /\ CountInv /\ ProgTypes /\ LockInv /\ Counted /\ ScheduleTypeOK
  BY PlanFacts DEF Schedule, ScheduleStep, BatchInv, CountInv, LockInv, Counted
<1>2. CountInv' /\ LockInv' /\ Counted'
  BY <1>1, CountInvStep DEF CountInv, Counted
<1>3. StepOf
  BY <1>1, <1>2 DEF StepOf, Ordered, BatchInv
<1> DEFINE Still == \A o \in Nodes, u \in Txns : u \notin todo[o] => ran'[o][u] = ran[o][u]
<1>4. SUFFICES Ordered' /\ Still
  <2>1. RunsOnce'
    BY <1>3, <1>4, RunsNext
  <2>2. BatchPlan'
    BY <1>1 DEF BatchPlan, Current
  <2>3. NothingBetween'
    BY <1>1 DEF NothingBetween
  <2> QED
    BY <1>2, <1>4, <2>1, <2>2, <2>3 DEF BatchInv, Ordered
<1>5. ASSUME NEW n \in Nodes, NEW m \in Managers, NEW t \in Txns, Assign(n, m, t)
      PROVE  Ordered' /\ Still
  BY <1>3, <1>5, AssignOrdered DEF Assign
<1>6. ASSUME NEW n \in Nodes, NEW m \in Managers, NEW t \in Txns, NEW k \in Keys,
             Grant(n, m, t, k)
      PROVE  Ordered' /\ Still
  BY <1>3, <1>6, GrantOrdered DEF Grant
<1>7. ASSUME NEW n \in Nodes, NEW w \in Executors, Begin(n, w)
      PROVE  Ordered' /\ Still
  <2>1. PICK t : t = Head(queue[n][w])
    OBVIOUS
  <2>2. BeginEffect(n, w, t)
    BY <1>1, <1>7, <2>1, BeginFacts
  <2>3. Ordered'
    BY <1>3, <2>2, BeginOrdered
  <2> QED
    BY <1>7, <2>3 DEF Begin
<1>8. ASSUME NEW n \in Nodes, NEW w \in Executors, Commit(n, w) \/ Abort(n, w)
      PROVE  Ordered' /\ Still
  <2>1. PICK t : t = running[n][w]
    OBVIOUS
  <2>2. FinishEffect(n, w, t)
    BY <1>1, <1>8, <2>1, FinishFacts
  <2>3. Ordered'
    BY <1>3, <2>1, <2>2, FinishOrdered
  <2>4. t \in todo[n]
    <3>1. t # NoTxn /\ Serves(w) \in Managers
      BY <1>8, <2>1, WorkersServe DEF Commit, Abort
    <3> QED
      BY <1>1, <2>1, <3>1 DEF LockInv, HandedOut, DealtInOrder
  <2>5. Still
    BY <2>2, <2>4 DEF FinishEffect
  <2> QED
    BY <2>3, <2>5
<1>9. ASSUME NEW c \in Lanes, ReadRequest(c)
      PROVE  Ordered' /\ Still
  <2>1. PICK msg : msg = Head(reads[c])
    OBVIOUS
  <2>2. ReceiveEffect(c, msg)
    BY <1>1, <1>9, <2>1, ReceiveFacts
  <2> QED
    BY <1>3, <1>9, <2>2, ReceiveOrdered DEF ReadRequest
<1> QED
  BY <1>1, <1>5, <1>6, <1>7, <1>8, <1>9 DEF ScheduleStep, ScheduleNext, Manage, Execute


\* Nothing changes.
LEMMA BatchSame ==
  ASSUME BatchInv, UNCHANGED <<batch, phase, prog, todo, schedule>>
  PROVE  BatchInv'
<1>1. /\ batch' = batch /\ phase' = phase /\ prog' = prog /\ todo' = todo
      /\ dealt' = dealt /\ got' = got /\ queue' = queue /\ running' = running
      /\ local' = local /\ remote' = remote /\ input' = input /\ ran' = ran
      /\ lock' = lock /\ db' = db /\ reads' = reads
  BY DEF schedule
<1>2. BatchPlan' /\ NothingBetween'
  BY <1>1 DEF BatchInv, BatchPlan, Current, NothingBetween
<1>3. /\ \A t, n : RowsAt(t, n)' = RowsAt(t, n)
      /\ \A t, n, m : RowsOf(t, n, m)' = RowsOf(t, n, m)
      /\ \A t : Updates(t)' = Updates(t) /\ Shares(t)' = Shares(t)
      /\ \A t : Active(t)' = Active(t)
      /\ \A k : BlindRow(k)' <=> BlindRow(k)
  BY <1>1 DEF RowsAt, RowsOf, Updates, Shares, Active, BlindRow, Blinds
<1>4. /\ \A n, m, t : Waits(n, m, t)' <=> Waits(n, m, t)
      /\ \A n, m, t : InHand(n, m, t)' <=> InHand(n, m, t)
      /\ \A n, m, t : AtHand(n, m, t)' <=> AtHand(n, m, t)
  BY <1>1 DEF Waits, InHand, AtHand, Serves
<1>5. /\ \A n, m, t : Unread(n, m, t)' <=> Unread(n, m, t)
      /\ \A t, k : IsDone(t, k)' <=> IsDone(t, k)
      /\ \A t, k : Holds(t, k)' <=> Holds(t, k)
      /\ \A t, k, n : OnItsWay(t, k, n)' <=> OnItsWay(t, k, n)
      /\ \A t, n : Split(t, n)' <=> Split(t, n)
  <2>1. \A n, m, t : Unread(n, m, t)' <=> Unread(n, m, t)
    BY <1>1, <1>4 DEF Unread
  <2>2. \A t, k : IsDone(t, k)' <=> IsDone(t, k)
    BY <1>1, <1>4 DEF IsDone
  <2>3. \A t, k : Holds(t, k)' <=> Holds(t, k)
    BY <1>1, <1>4 DEF Holds, Serves
  <2>4. \A t, k, n : OnItsWay(t, k, n)' <=> OnItsWay(t, k, n)
    BY <1>1 DEF OnItsWay
  <2>5. \A t, n : Split(t, n)' <=> Split(t, n)
    BY <1>1, <1>3 DEF Split
  <2> QED
    BY <2>1, <2>2, <2>3, <2>4, <2>5
<1>6. RunsOnce'
  BY <1>1, <1>5 DEF BatchInv, RunsOnce
<1>7. StoreInOrder'
  <2>1. \A k : Finished(k)' = Finished(k)
    BY <1>1, <1>5 DEF Finished
  <2> QED
    BY <1>1, <1>3, <2>1 DEF BatchInv, StoreInOrder, LeftBy
<1>8. HoldersFirst'
  BY <1>1, <1>3, <1>5 DEF BatchInv, HoldersFirst
<1>9. InputsInOrder'
  <2>1. \A t, k, v : IsInput(t, k, v)' <=> IsInput(t, k, v)
    BY <1>1, <1>3 DEF IsInput, LeftBy
  <2>2. \A t, n : RemoteGap(t, n)' = RemoteGap(t, n)
    BY <1>1, <1>3, <1>5 DEF RemoteGap
  <2> QED
    BY <1>1, <1>3, <1>5, <2>1, <2>2 DEF BatchInv, InputsInOrder
<1>10. LockInv'
  <2>1. ScheduleTypeOK' /\ TodoAgreed' /\ DealtInOrder' /\ GotForNext'
    BY <1>1, <1>3, <1>4 DEF BatchInv, CountInv, LockInv, ScheduleTypeOK, TodoAgreed,
      DealtInOrder, GotForNext
  <2>2. HandedOut' /\ HandedOutOnce'
    BY <1>1, <1>3 DEF BatchInv, CountInv, LockInv, HandedOut, HandedOutOnce, Serves
  <2>3. RowLocksExact'
    BY <1>1, <1>3, <1>5 DEF BatchInv, CountInv, LockInv, RowLocksExact
  <2> QED
    BY <2>1, <2>2, <2>3 DEF LockInv
<1>11. ReadsInOrder'
  BY <1>1, <1>3, <1>5 DEF BatchInv, CountInv, ReadsInOrder, Serves
<1>12. CountersExact' /\ RunsCounted'
  <2>1. \A t, n : LocalGap(t, n)' = LocalGap(t, n) /\ RemoteGap(t, n)' = RemoteGap(t, n)
    BY <1>1, <1>3, <1>5 DEF LocalGap, RemoteGap
  <2>2. CountersExact'
    BY <1>1, <1>3, <2>1 DEF BatchInv, CountInv, CountersExact
  <2>3. RunsCounted'
    BY <1>1, <1>3, <1>4, <1>5, <2>1 DEF BatchInv, CountInv, RunsCounted
  <2> QED
    BY <2>2, <2>3
<1> QED
  BY <1>2, <1>6, <1>7, <1>8, <1>9, <1>10, <1>11, <1>12 DEF BatchInv, CountInv

LEMMA BatchStep ==
  ASSUME BatchInv, [Next]_vars
  PROVE  BatchInv'
<1>1. CASE Analyze
  BY <1>1, AnalyzeBatch
<1>2. CASE Schedule
  BY <1>2, ScheduleBatch
<1>3. CASE EndBatch
  BY <1>3, BatchEnds
<1>4. CASE UNCHANGED vars
  <2>1. UNCHANGED <<batch, phase, prog, todo, schedule>>
    BY <1>4 DEF vars
  <2> QED
    BY <2>1, BatchSame
<1> QED
  BY <1>1, <1>2, <1>3, <1>4 DEF Next

-----------------------------------------------------------------------------
\* At every moment the locks of the rows are those of the transactions that
\* hold them, the counters of a transaction say which of its reads its node
\* still lacks, and the rows and what has been read of them have the values of
\* the agreed order: lock managers, executors and READ messages of Calvin, in
\* whatever order they come.
THEOREM BatchInvHolds == Spec => []BatchInv
<1>1. Init => BatchInv
  BY InitBatch
<1>2. BatchInv /\ [Next]_vars => BatchInv'
  BY BatchStep
<1> QED
  BY <1>1, <1>2, PTL DEF Spec

\* The bits and the reader count in the metadata word of a row are exactly
\* those of the transactions that hold it, and nobody shares a row with one
\* that writes it (CalvinHelper::read_lock, write_lock and their releases).
THEOREM LocksExactHolds == Spec => []LocksExact
<1>1. BatchInv => LocksExact
  BY DEF BatchInv, CountInv, LockInv, LocksExact
<1> QED
  BY <1>1, BatchInvHolds, PTL

\* When the executors are done and the managers through, no READ is on its way
\* that the next batch would count for the transaction of the same slot, all
\* locks are free, and every node that writes has executed the transaction with
\* its two counters at zero (CalvinExecutor::run_transactions).
THEOREM NothingLeftBehindHolds == Spec => []NothingLeftBehind
<1>1. ASSUME BatchInv, phase = "Execute", ScheduleDone
      PROVE  /\ \A c \in Lanes : reads[c] = <<>>
             /\ \A k \in Keys : BlindRow(k) \/ lock[k] = Free
             /\ \A n \in Nodes : \A t \in todo[n] : n \in Active(t) =>
                  ran[n][t] > 0 /\ local[n][t] = 0 /\ remote[n][t] = 0
  <2>1. /\ \A n \in Nodes, m \in Managers : got[n][m] = {}
        /\ NothingOut
        /\ \A n \in Nodes : \A t \in todo[n] : n \in Active(t) =>
             ran[n][t] > 0 /\ LocalGap(t, n) = {} /\ RemoteGap(t, n) = {}
        /\ \A c \in Lanes : reads[c] = <<>>
    BY <1>1, DoneFacts, PlanFacts DEF BatchInv
  <2>2. \A k \in Keys, t \in Txns : ~Holds(t, k)
    BY <2>1, NobodyHolds DEF NothingOut
  <2>3. \A k \in Keys : BlindRow(k) \/ lock[k] = Free
    BY <1>1, <2>2, RowsExact, FreeRows DEF BatchInv, CountInv, LockInv
  <2>4. ASSUME NEW n \in Nodes, NEW t \in todo[n], n \in Active(t)
        PROVE  ran[n][t] > 0 /\ local[n][t] = 0 /\ remote[n][t] = 0
    <3>1. Cardinality({}) = 0
      BY FS_EmptySet
    <3>2. /\ local[n][t] = Cardinality(LocalGap(t, n))
          /\ remote[n][t] = Cardinality(RemoteGap(t, n))
      BY <1>1, <2>4 DEF BatchInv, CountInv, CountersExact
    <3> QED
      BY <2>1, <2>4, <3>1, <3>2
  <2> QED
    BY <2>1, <2>3, <2>4
<1>2. BatchInv => NothingLeftBehind
  BY <1>1 DEF NothingLeftBehind
<1> QED
  BY <1>2, BatchInvHolds, PTL

\* Every transaction is executed on what those before it in the agreed order
\* have left, on every node that executes it and once only unless two lock
\* managers share its rows there, and after the last phase of a batch the rows
\* have what its last writers have left.
THEOREM SerializableUnlessSplitHolds == Spec => []SerializableUnlessSplit
<1>1. ASSUME BatchInv PROVE SerializableUnlessSplit
  <2>1. ASSUME NEW t \in Txns, NEW n \in Nodes, ran[n][t] > 0, NEW k \in prog[t].reads
        PROVE  BlindRow(k) \/ LeftBy(input[n][t][k], k, {u \in Txns : Precedes(u, t)})
    BY <1>1, <2>1 DEF BatchInv, InputsInOrder, IsInput
  <2>2. \A t \in Txns, n \in Nodes : ran[n][t] <= 1 \/ Split(t, n)
    BY <1>1 DEF BatchInv, RunsOnce
  <2>3. ASSUME phase # "Execute", NEW k \in Keys
        PROVE  BlindRow(k)
                 \/ LeftBy(db[k], k, {t \in Txns : BatchOf[t] < batch \/ phase = "DONE"})
    <3>1. Owner[k] \in Nodes
      BY LayoutAssumption
    <3>2. todo[Owner[k]] = {}
      BY <1>1, <2>3, <3>1 DEF BatchInv, BatchPlan
    <3>3. Finished(k) = {t \in Txns : BatchOf[t] < batch \/ phase = "DONE"}
      BY <3>2 DEF Finished
    <3> QED
      BY <1>1, <3>3 DEF BatchInv, StoreInOrder
  <2> QED
    BY <2>1, <2>2, <2>3 DEF SerializableUnlessSplit
<1> QED
  BY <1>1, BatchInvHolds, PTL

-----------------------------------------------------------------------------
(* The fallback of AriaFB, on top of the schedules.                        *)

\* The sequences of Aria are those of the schedules.
LEMMA AriaSequence ==
  ASSUME NEW S, IsFiniteSet(S)
  PROVE  Aria!SetToSeq(S) \in Seq(S)
<1>1. Aria!Cardinality(S) = Cardinality(S)
  BY DEF Aria!Cardinality, Cardinality
<1>2. Aria!SetToSeq(S) = SetToSeq(S)
  BY <1>1 DEF Aria!SetToSeq, SetToSeq, Aria!IsInjective, IsInjective
<1> QED
  BY <1>2, SetToSeqFacts

LEMMA AriaRequests ==
  ASSUME NEW type \in Aria!Types, NEW t \in Txns, NEW keys \in SUBSET Keys,
         NEW write \in BOOLEAN
  PROVE  /\ Aria!Requests(type, t, keys, write) \subseteq Aria!Message
         /\ IsFiniteSet(Aria!Requests(type, t, keys, write))
<1> DEFINE R == Aria!Requests(type, t, keys, write)
           Req(k) == [type |-> type, answer |-> FALSE, txn |-> t, key |-> k,
                      write |-> write, val |-> NoTxn, found |-> {}]
           f == [k \in keys |-> Req(k)]
<1>1. R = {Req(k) : k \in keys}
  BY DEF Aria!Requests
<1>2. R \subseteq Aria!Message
  <2>1. ASSUME NEW k \in Keys PROVE Req(k) \in Aria!Message
    BY DEF Aria!Message
  <2> HIDE DEF Req
  <2> QED
    BY <1>1, <2>1
<1>3. f \in Surjection(keys, R)
  BY <1>1 DEF Surjection
<1>4. IsFiniteSet(keys)
  BY LayoutAssumption, FS_Subset
<1>5. IsFiniteSet(R)
  <2> HIDE DEF f, R
  <2> QED
    BY <1>3, <1>4, FS_Surjection
<1> QED
  BY <1>2, <1>5

\* Sending keeps the types of the channels, and so does a handler.
AriaChannels == chan \in [Aria!Channels -> Seq(Aria!Message)]

LEMMA AriaSends ==
  ASSUME AriaChannels, NEW msgs \in SUBSET Aria!Message, IsFiniteSet(msgs),
         Aria!Send(msgs)
  PROVE  AriaChannels'
<1>1. ASSUME NEW c \in Aria!Channels
      PROVE  chan[c] \o Aria!SetToSeq({m \in msgs : Aria!Route(m) = c}) \in Seq(Aria!Message)
  <2> DEFINE T == {m \in msgs : Aria!Route(m) = c}
  <2>1. IsFiniteSet(T) /\ T \subseteq Aria!Message
    BY FS_Subset
  <2> HIDE DEF T
  <2>2. Aria!SetToSeq(T) \in Seq(Aria!Message)
    <3>1. Aria!SetToSeq(T) \in Seq(T)
      BY <2>1, AriaSequence
    <3> QED
      BY <2>1, <3>1
  <2>3. chan[c] \in Seq(Aria!Message)
    BY DEF AriaChannels
  <2>4. chan[c] \o Aria!SetToSeq(T) \in Seq(Aria!Message)
    BY <2>2, <2>3
  <2> QED
    BY <2>4 DEF T
<1> QED
  BY <1>1 DEF Aria!Send, AriaChannels

LEMMA AriaHead ==
  ASSUME AriaChannels, NEW c \in Aria!Channels, chan[c] # <<>>
  PROVE  /\ Head(chan[c]) \in Aria!Message
         /\ Tail(chan[c]) \in Seq(Aria!Message)
         /\ Head(chan[c]).txn \in Txns /\ Head(chan[c]).key \in Keys
<1>1. chan[c] \in Seq(Aria!Message)
  BY DEF AriaChannels
<1>2. Head(chan[c]) \in Aria!Message /\ Tail(chan[c]) \in Seq(Aria!Message)
  BY <1>1
<1> QED
  BY <1>2 DEF Aria!Message

LEMMA AriaDrops ==
  ASSUME AriaChannels, NEW c \in Aria!Channels, chan[c] # <<>>, Aria!Drop(c)
  PROVE  AriaChannels'
<1>1. Tail(chan[c]) \in Seq(Aria!Message)
  BY AriaHead
<1> QED
  BY <1>1 DEF Aria!Drop, AriaChannels

LEMMA AriaReplies ==
  ASSUME AriaChannels, NEW c \in Aria!Channels, chan[c] # <<>>,
         NEW val \in Txns \cup {NoTxn}, NEW found \in SUBSET Aria!Flags,
         Aria!Reply(c, Head(chan[c]), val, found)
  PROVE  AriaChannels'
<1> DEFINE m == Head(chan[c])
           a == [m EXCEPT !.answer = TRUE, !.val = val, !.found = found]
           b == Aria!Back(c)
<1>1. m \in Aria!Message /\ Tail(chan[c]) \in Seq(Aria!Message)
  BY AriaHead
<1>2. a \in Aria!Message
  <2> HIDE DEF m
  <2> QED
    BY <1>1 DEF Aria!Message
<1>3. b \in Aria!Channels /\ b # c
  BY DEF Aria!Channels, Aria!Back
<1> HIDE DEF m, a, b
<1>4. chan' = [chan EXCEPT ![c] = Tail(chan[c]), ![b] = Append(chan[b], a)]
  BY <1>3 DEF Aria!Reply, a, b, m, AriaChannels
<1>5. Append(chan[b], a) \in Seq(Aria!Message)
  <2>1. chan[b] \in Seq(Aria!Message)
    BY <1>3 DEF AriaChannels
  <2> QED
    BY <1>2, <2>1
<1> QED
  BY <1>1, <1>3, <1>4, <1>5 DEF AriaChannels

\* A reservation leaves a word.
LEMMA AriaWords ==
  ASSUME NEW v \in Aria!Word, NEW e \in Nat, NEW t \in Txns
  PROVE  /\ Aria!ReserveRead(v, e, Tid[t]) \in Aria!Word
         /\ Aria!ReserveWrite(v, e, Tid[t]) \in Aria!Word
         /\ Aria!ReadFlags(v, e, Tid[t]) \subseteq Aria!Flags
         /\ Aria!WriteFlags(v, e, Tid[t]) \subseteq Aria!Flags
         /\ Aria!ZeroWord \in Aria!Word
<1>1. Tid[t] \in Nat
  BY OrderAssumption
<1>2. Aria!StoredEpoch(e) \in Nat
  BY EpochAssumption DEF Aria!StoredEpoch
<1>3. /\ Aria!ReserveRead(v, e, Tid[t]) \in Aria!Word
      /\ Aria!ReserveWrite(v, e, Tid[t]) \in Aria!Word
      /\ Aria!ZeroWord \in Aria!Word
  BY <1>1, <1>2 DEF Aria!ReserveRead, Aria!ReserveWrite, Aria!Word, Aria!ZeroWord
<1>4. /\ Aria!ReadFlags(v, e, Tid[t]) \subseteq Aria!Flags
      /\ Aria!WriteFlags(v, e, Tid[t]) \subseteq Aria!Flags
  BY DEF Aria!ReadFlags, Aria!WriteFlags, Aria!Flags
<1> QED
  BY <1>3, <1>4


-----------------------------------------------------------------------------
(* The phases of Aria.                                                     *)

LEMMA FallbackFacts ==
  ASSUME FallbackInv
  PROVE  /\ AriaTypes /\ ScheduleTypeOK /\ Outcomes /\ HomeCounts /\ AbortsKnown
         /\ Prepared /\ Executions /\ ProgTypes /\ AriaChannels
         /\ batch \in Nat /\ NBatches \in Nat /\ batch <= NBatches
         /\ \A t \in Txns : BatchOf[t] \in Nat /\ BatchOf[t] <= NBatches
         /\ \A t \in Txns : Home[t] \in Nodes
         /\ \A t \in Txns : step[t] \in 0..4
<1>1. /\ AriaTypes /\ ScheduleTypeOK /\ Outcomes /\ HomeCounts /\ AbortsKnown
      /\ Prepared /\ Executions
  BY DEF FallbackInv
<1>2. ProgTypes
  BY <1>1, ProgramAssumption DEF AriaTypes, ProgTypes, Aria!Program
<1>3. batch \in Nat /\ NBatches \in Nat /\ batch <= NBatches
  BY <1>1, BatchAssumption DEF AriaTypes
<1>4. \A t \in Txns : BatchOf[t] \in Nat /\ BatchOf[t] <= NBatches
  BY BatchAssumption
<1>5. AriaChannels /\ \A t \in Txns : step[t] \in 0..4
  BY <1>1 DEF AriaTypes, AriaChannels, Aria!Generated, Aria!Decided
<1> QED
  BY <1>1, <1>2, <1>3, <1>4, <1>5, HomeAssumption

\* Whether a row is written blindly, and what a schedule assumes, lies in the
\* programs.
LEMMA SchedulesKept ==
  ASSUME FallbackInv, UNCHANGED <<prog, phase>>,
         UNCHANGED <<todo, dealt, got, queue, running, input, ran, lock, reads>>,
         phase = "FALLBACK" => UNCHANGED <<local, remote>>,
         ScheduleTypeOK'
  PROVE  (IF phase = "FALLBACK" THEN CountInv ELSE Resting)'
<1>1. CASE phase = "FALLBACK"
  <2>1. CountInv /\ local' = local /\ remote' = remote
    BY <1>1 DEF FallbackInv
  <2>2. /\ TodoAgreed' /\ DealtInOrder' /\ GotForNext' /\ HandedOut' /\ HandedOutOnce'
    BY <2>1 DEF CountInv, LockInv, TodoAgreed, DealtInOrder, GotForNext, HandedOut,
                HandedOutOnce, RowsAt, RowsOf, AtHand, Serves
  <2>3. RowLocksExact'
    <3>1. \A t, k : Holds(t, k)' <=> Holds(t, k)
      BY DEF Holds, AtHand, Serves
    <3>2. \A k : Sharers(k)' = Sharers(k) /\ Updaters(k)' = Updaters(k)
      BY <3>1 DEF Sharers, Updaters, Shares, Updates
    <3>3. \A k : (BlindRow(k)' <=> BlindRow(k)) /\ (RowExact(k)' <=> RowExact(k))
      BY <3>2 DEF RowExact, BlindRow, Blinds
    <3> QED
      BY <2>1, <3>3, RowsExact, RowsExactNext DEF CountInv, LockInv
  <2>4. ReadsInOrder'
    BY <2>1 DEF CountInv, ReadsInOrder, Active, Updates, RowsOf, RowsAt, Unread, Waits, Serves
  <2>5. CountersExact'
    <3>1. \A t, n : LocalGap(t, n)' = LocalGap(t, n) /\ RemoteGap(t, n)' = RemoteGap(t, n)
      BY DEF RowsAt, Unread, Waits, Serves, LocalGap, RemoteGap, OnItsWay
    <3>2. \A t : Active(t)' = Active(t)
      BY DEF Active, Updates
    <3> QED
      BY <2>1, <3>1, <3>2 DEF CountInv, CountersExact
  <2>6. RunsCounted'
    BY <2>1 DEF CountInv, RunsCounted, Active, Updates, RowsAt, Unread, Waits, Serves,
                LocalGap, RemoteGap, OnItsWay, InHand, Split
  <2> QED
    BY <1>1, <2>2, <2>3, <2>4, <2>5, <2>6 DEF CountInv, LockInv
<1>2. CASE phase # "FALLBACK"
  <2>1. Resting
    BY <1>2 DEF FallbackInv
  <2>2. Resting'
    BY <2>1 DEF Resting, BlindRow, Blinds
  <2> QED
    BY <1>2, <2>2
<1> QED
  BY <1>1, <1>2

\* A step of Aria that aborts nobody and counts nothing is none of the
\* fallback's business.
LEMMA QuietStep ==
  ASSUME FallbackInv, UNCHANGED <<batch, phase, prog, exchange, todo, schedOnly>>,
         FellBack' = FellBack, db' \in [Keys -> Txns \cup {NoTxn}],
         AriaTypes', Outcomes', HomeCounts'
  PROVE  FallbackInv'
<1>1. /\ AriaTypes /\ ScheduleTypeOK /\ AbortsKnown /\ Prepared /\ Executions
  BY FallbackFacts
<1>2. /\ batch' = batch /\ phase' = phase /\ prog' = prog /\ todo' = todo
      /\ dealt' = dealt /\ got' = got /\ queue' = queue /\ running' = running
      /\ local' = local /\ remote' = remote /\ input' = input /\ ran' = ran
      /\ lock' = lock /\ reads' = reads
      /\ abortLock' = abortLock /\ mail' = mail /\ told' = told
  BY DEF exchange, schedOnly
<1>3. ScheduleTypeOK'
  BY <1>1, <1>2 DEF ScheduleTypeOK
<1>4. (IF phase = "FALLBACK" THEN CountInv ELSE Resting)'
  BY <1>2, <1>3, SchedulesKept
<1>5. Fallen' = Fallen /\ \A n : Own(n)' = Own(n)
  BY <1>2 DEF Fallen, Own, Current
<1>6. AbortsKnown'
  <2>1. /\ Spread' <=> Spread
    BY <1>2, <1>5 DEF Spread, ToNode
  <2>2. Collected' <=> Collected
    BY <1>2, <1>5 DEF Collected, FromNode
  <2> QED
    BY <1>1, <1>2, <1>5, <2>1, <2>2 DEF AbortsKnown
<1>7. Prepared'
  BY <1>1, <1>2 DEF Prepared, Relevant, RowsAt, LocalReads, RemoteReads
<1>8. Executions'
  <2>1. \A t : Past(t)' <=> Past(t)
    BY <1>2 DEF Past
  <2>2. \A t, n : (Split(t, n)' <=> Split(t, n)) /\ Active(t)' = Active(t)
    BY <1>2 DEF Split, Active, Updates, RowsAt
  <2> QED
    BY <1>1, <1>2, <2>1, <2>2 DEF Executions
<1> QED
  BY <1>3, <1>4, <1>6, <1>7, <1>8 DEF FallbackInv


\* The handlers of Aria's messages, in whatever phase they come.
LEMMA ProcessKeeps ==
  ASSUME FallbackInv, NEW c \in Aria!Channels, Process(c)
  PROVE  FallbackInv'
<1>0. /\ AriaTypes /\ ScheduleTypeOK /\ Outcomes /\ HomeCounts /\ AriaChannels
      /\ \A t \in Txns : BatchOf[t] \in Nat
  BY FallbackFacts
<1> DEFINE m == Head(chan[c])
<1>1. /\ UNCHANGED <<batch, phase, prog, step, outcome, exchange, todo, schedOnly>>
      /\ chan[c] # <<>>
  BY DEF Process, SearchRequest, SearchResponse, ReserveRequest, CheckRequest,
         CheckResponse, WriteRequest, Aria!SearchRequest, Aria!SearchResponse,
         Aria!ReserveRequest, Aria!CheckRequest, Aria!CheckResponse, Aria!WriteRequest,
         Aria!Take
<1>2. /\ m \in Aria!Message /\ m.txn \in Txns /\ m.key \in Keys
  BY <1>0, <1>1, AriaHead
<1>3. /\ word \in [Keys -> Aria!Word] /\ db \in [Keys -> Txns \cup {NoTxn}]
      /\ word[m.key] \in Aria!Word /\ db[m.key] \in Txns \cup {NoTxn}
      /\ BatchOf[m.txn] \in Nat
  BY <1>0, <1>2 DEF AriaTypes, ScheduleTypeOK
<1> HIDE DEF m
<1>4. /\ AriaChannels' /\ word' \in [Keys -> Aria!Word]
      /\ db' \in [Keys -> Txns \cup {NoTxn}]
  <2>1. CASE SearchRequest(c)
    <3>1. Aria!Reply(c, m, db[m.key], {}) /\ word' = word /\ db' = db
      BY <2>1 DEF SearchRequest, Aria!SearchRequest, m
    <3>2. AriaChannels'
      <4>1. {} \in SUBSET Aria!Flags /\ Aria!Reply(c, Head(chan[c]), db[m.key], {})
        BY <3>1 DEF m
      <4> QED
        BY <1>0, <1>1, <1>3, <4>1, AriaReplies
    <3> QED
      BY <1>3, <3>1, <3>2
  <2>2. CASE SearchResponse(c) \/ CheckResponse(c)
    <3>1. Aria!Drop(c) /\ word' = word /\ db' = db
      BY <2>2 DEF SearchResponse, CheckResponse, Aria!SearchResponse, Aria!CheckResponse
    <3> QED
      BY <1>0, <1>1, <1>3, <3>1, AriaDrops
  <2>3. CASE ReserveRequest(c)
    <3>1. /\ Aria!Drop(c) /\ db' = db
          /\ word' = [word EXCEPT ![m.key] =
               IF m.write THEN Aria!ReserveWrite(@, BatchOf[m.txn], Tid[m.txn])
                          ELSE Aria!ReserveRead(@, BatchOf[m.txn], Tid[m.txn])]
      BY <2>3 DEF ReserveRequest, Aria!ReserveRequest, m
    <3>2. /\ Aria!ReserveWrite(word[m.key], BatchOf[m.txn], Tid[m.txn]) \in Aria!Word
          /\ Aria!ReserveRead(word[m.key], BatchOf[m.txn], Tid[m.txn]) \in Aria!Word
      BY <1>2, <1>3, AriaWords
    <3>3. word' \in [Keys -> Aria!Word]
      BY <1>2, <1>3, <3>1, <3>2
    <3> QED
      BY <1>0, <1>1, <1>3, <3>1, <3>3, AriaDrops
  <2>4. CASE CheckRequest(c)
    <3> DEFINE found == IF m.write
                          THEN Aria!WriteFlags(word[m.key], BatchOf[m.txn], Tid[m.txn])
                          ELSE Aria!ReadFlags(word[m.key], BatchOf[m.txn], Tid[m.txn])
    <3>1. word' = word /\ db' = db /\ Aria!Reply(c, m, NoTxn, found)
      BY <2>4 DEF CheckRequest, Aria!CheckRequest, m
    <3>2. found \in SUBSET Aria!Flags
      BY <1>2, <1>3, AriaWords
    <3>3. AriaChannels'
      <4>1. NoTxn \in Txns \cup {NoTxn} /\ Aria!Reply(c, Head(chan[c]), NoTxn, found)
        BY <3>1 DEF m
      <4> HIDE DEF found
      <4> QED
        BY <1>0, <1>1, <3>2, <4>1, AriaReplies
    <3> QED
      BY <1>3, <3>1, <3>3
  <2>5. CASE WriteRequest(c)
    <3>1. Aria!Drop(c) /\ word' = word /\ db' = [db EXCEPT ![m.key] = m.txn]
      BY <2>5 DEF WriteRequest, Aria!WriteRequest, m
    <3>2. db' \in [Keys -> Txns \cup {NoTxn}]
      BY <1>2, <1>3, <3>1
    <3> QED
      BY <1>0, <1>1, <1>3, <3>1, <3>2, AriaDrops
  <2> QED
    BY <2>1, <2>2, <2>3, <2>4, <2>5 DEF Process
<1>5. AriaTypes' /\ FellBack' = FellBack
  BY <1>0, <1>1, <1>4 DEF AriaTypes, AriaChannels, exchange, FellBack
<1>6. Outcomes'
  BY <1>0, <1>1 DEF Outcomes
<1>7. HomeCounts'
  BY <1>0, <1>1 DEF HomeCounts, Current, LocalReads, RemoteReads, RowsAt, schedOnly
<1> QED
  BY <1>1, <1>4, <1>5, <1>6, <1>7, QuietStep

\* The transaction whose turn it is.
LEMMA AriaTurn ==
  ASSUME FallbackInv, NEW t \in Txns, NEW from \in 0..4, Aria!Turn(t, from)
  PROVE  t \in Current /\ step[t] = from
  BY DEF Aria!Turn, Aria!Current, Current

\* Rows of a transaction, as Aria sees them.
LEMMA AriaRows ==
  ASSUME FallbackInv, NEW t \in Txns
  PROVE  /\ Aria!Remote(t, Aria!Reads(t)) \in SUBSET Keys
         /\ Aria!Remote(t, Aria!Writes(t)) \in SUBSET Keys
         /\ IsFiniteSet(Aria!Reservations(t)) /\ Aria!Reservations(t) \subseteq Aria!Message
<1>1. /\ Aria!Remote(t, Aria!Reads(t)) \in SUBSET Keys
      /\ Aria!Remote(t, Aria!Writes(t)) \in SUBSET Keys
  BY FallbackFacts DEF ProgTypes, Aria!Remote, Aria!Reads, Aria!Writes
<1>2. "RESERVE" \in Aria!Types
  BY DEF Aria!Types
<1> QED
  BY <1>1, <1>2, AriaRequests, FS_Union DEF Aria!Reservations


\* A worker comes one step further with a transaction, or decides it.
LEMMA StepTaken ==
  ASSUME FallbackInv, NEW t \in Txns, t \in Current, UNCHANGED <<batch, phase, prog>>,
         phase \in {"READ", "COMMIT"}, step[t] # 4, NEW to \in 0..4,
         NEW o \in {"none", "no_retry", "aborted", "committed"},
         step' = [step EXCEPT ![t] = to], outcome' = [outcome EXCEPT ![t] = o],
         o = "none" <=> to # 4, phase = "READ" => o \in {"none", "no_retry"}
  PROVE  /\ Outcomes'
         /\ step' \in [Txns -> Aria!Generated..Aria!Decided]
         /\ outcome' \in [Txns -> {"none", "no_retry", "aborted", "committed"}]
         /\ outcome[t] = "none"
         /\ FellBack' = IF o = "aborted" THEN FellBack \cup {t} ELSE FellBack
<1>1. /\ Outcomes /\ step \in [Txns -> 0..4] /\ BatchOf[t] = batch
      /\ outcome \in [Txns -> {"none", "no_retry", "aborted", "committed"}]
      /\ batch \in Nat /\ \A u \in Txns : BatchOf[u] \in Nat
  BY FallbackFacts DEF AriaTypes, Current, Aria!Generated, Aria!Decided
<1>2. /\ step' \in [Txns -> 0..4]
      /\ outcome' \in [Txns -> {"none", "no_retry", "aborted", "committed"}]
      /\ step'[t] = to /\ outcome'[t] = o
      /\ \A u \in Txns : u # t => step'[u] = step[u] /\ outcome'[u] = outcome[u]
  BY <1>1
<1>3. outcome[t] = "none"
  BY <1>1 DEF Outcomes, Aria!Decided
<1>4. Outcomes'
  <2>1. ASSUME NEW u \in Txns
        PROVE  /\ outcome'[u] = "none" <=> step'[u] # 4
               /\ BatchOf[u] < batch' => step'[u] = 4
               /\ BatchOf[u] > batch' => step'[u] = 0
               /\ BatchOf[u] = batch' /\ phase' \notin {"READ", "COMMIT"} => step'[u] = 4
               /\ BatchOf[u] = batch' /\ phase' = "READ" => outcome'[u] \in {"none", "no_retry"}
    <3>1. CASE u = t
      BY <1>1, <1>2, <3>1
    <3>2. CASE u # t
      BY <1>1, <1>2, <3>2 DEF Outcomes, Aria!Generated, Aria!Decided
    <3> QED
      BY <3>1, <3>2
  <2> QED
    BY <2>1 DEF Outcomes, Aria!Generated, Aria!Decided
<1>5. FellBack' = IF o = "aborted" THEN FellBack \cup {t} ELSE FellBack
  BY <1>2, <1>3 DEF FellBack
<1> QED
  BY <1>2, <1>3, <1>4, <1>5 DEF Aria!Generated, Aria!Decided

\* Rolled back, reserved, analyzed, committed: nothing the fallback knows of.
LEMMA RollbackKeeps ==
  ASSUME FallbackInv, NEW t \in Txns, AriaRollback(t)
  PROVE  FallbackInv'
<1>0. /\ AriaTypes /\ ScheduleTypeOK /\ HomeCounts
  BY FallbackFacts
<1>1. /\ UNCHANGED <<batch, phase, prog, word, db, chan, exchange, todo, schedOnly>>
      /\ phase = "READ" /\ Aria!Turn(t, 0)
      /\ step' = [step EXCEPT ![t] = 4] /\ outcome' = [outcome EXCEPT ![t] = "no_retry"]
  BY DEF AriaRollback, Aria!Rollback, Aria!Advance, Aria!Generated, Aria!Decided
<1>2. t \in Current /\ step[t] = 0
  BY <1>1, AriaTurn
<1>3. /\ Outcomes' /\ FellBack' = FellBack
      /\ step' \in [Txns -> Aria!Generated..Aria!Decided]
      /\ outcome' \in [Txns -> {"none", "no_retry", "aborted", "committed"}]
  <2>1. UNCHANGED <<batch, phase, prog>> /\ 4 \in 0..4 /\ step[t] # 4
    BY <1>1, <1>2
  <2>2. "no_retry" \in {"none", "no_retry", "aborted", "committed"}
    OBVIOUS
  <2> QED
    BY <1>1, <1>2, <2>1, <2>2, StepTaken
<1>4. AriaTypes' /\ db' \in [Keys -> Txns \cup {NoTxn}]
  BY <1>0, <1>1, <1>3 DEF AriaTypes, exchange, ScheduleTypeOK
<1>5. HomeCounts'
  BY <1>0, <1>1, <1>2 DEF HomeCounts, Current, LocalReads, RemoteReads, RowsAt, schedOnly,
                          AriaTypes
<1> QED
  BY <1>1, <1>3, <1>4, <1>5, QuietStep

LEMMA ReserveKeeps ==
  ASSUME FallbackInv, NEW t \in Txns, AriaReserve(t)
  PROVE  FallbackInv'
<1>0. /\ AriaTypes /\ ScheduleTypeOK /\ HomeCounts /\ AriaChannels /\ batch \in Nat
      /\ step \in [Txns -> 0..4]
  BY FallbackFacts DEF AriaTypes, Aria!Generated, Aria!Decided
<1>1. /\ UNCHANGED <<batch, phase, prog, outcome, db, exchange, todo, schedOnly>>
      /\ phase = "READ" /\ Aria!Turn(t, 1)
      /\ \/ UNCHANGED <<word, chan>>
         \/ /\ word' = [k \in Keys |-> Aria!ReservedWord(t, k)]
            /\ Aria!Send(Aria!Reservations(t))
      /\ step' = [step EXCEPT ![t] = 2]
  BY DEF AriaReserve, Aria!Reserve, Aria!Advance, Aria!Executed, Aria!Reserved
<1>2. t \in Current /\ step[t] = 1
  BY <1>1, AriaTurn
<1>3. outcome \in [Txns -> {"none", "no_retry", "aborted", "committed"}] /\ outcome[t] = "none"
  BY <1>0, <1>2, FallbackFacts DEF AriaTypes, Outcomes, Aria!Decided
<1>4. /\ Outcomes' /\ FellBack' = FellBack
      /\ step' \in [Txns -> Aria!Generated..Aria!Decided]
  <2>1. outcome' = [outcome EXCEPT ![t] = "none"]
    BY <1>1, <1>3
  <2>2. UNCHANGED <<batch, phase, prog>> /\ 2 \in 0..4 /\ 2 # 4 /\ step[t] # 4
    BY <1>1, <1>2
  <2> QED
    BY <1>1, <1>2, <2>1, <2>2, StepTaken
<1>5. AriaChannels'
  <2>1. CASE UNCHANGED <<word, chan>>
    BY <1>0, <2>1 DEF AriaChannels
  <2>2. CASE Aria!Send(Aria!Reservations(t))
    BY <1>0, <2>2, AriaRows, AriaSends
  <2> QED
    BY <1>1, <2>1, <2>2
<1>6. word' \in [Keys -> Aria!Word]
  <2>1. ASSUME NEW k \in Keys PROVE Aria!ReservedWord(t, k) \in Aria!Word
    <3>1. word[k] \in Aria!Word
      BY <1>0 DEF AriaTypes
    <3>2. Aria!ReserveRead(word[k], batch, Tid[t]) \in Aria!Word
      BY <1>0, <3>1, AriaWords
    <3>3. \A r \in Aria!Word : Aria!ReserveWrite(r, batch, Tid[t]) \in Aria!Word
      BY <1>0, AriaWords
    <3> QED
      BY <3>1, <3>2, <3>3 DEF Aria!ReservedWord
  <2> QED
    BY <1>0, <1>1, <2>1 DEF AriaTypes
<1>7. AriaTypes' /\ db' \in [Keys -> Txns \cup {NoTxn}]
  BY <1>0, <1>1, <1>4, <1>5, <1>6 DEF AriaTypes, AriaChannels, exchange, ScheduleTypeOK
<1>8. HomeCounts'
  <2>1. \A u \in Txns : step'[u] >= 1 => step[u] >= 1
    BY <1>0, <1>1, <1>2
  <2> QED
    BY <1>0, <1>1, <2>1 DEF HomeCounts, Current, LocalReads, RemoteReads, RowsAt, schedOnly,
                            Aria!Executed
<1> QED
  BY <1>1, <1>4, <1>7, <1>8, QuietStep

LEMMA AnalyzeKeeps ==
  ASSUME FallbackInv, NEW t \in Txns, AriaAnalyze(t)
  PROVE  FallbackInv'
<1>0. /\ AriaTypes /\ ScheduleTypeOK /\ HomeCounts /\ AriaChannels /\ step \in [Txns -> 0..4]
  BY FallbackFacts DEF AriaTypes, Aria!Generated, Aria!Decided
<1>1. /\ UNCHANGED <<batch, phase, prog, outcome, word, db, exchange, todo, schedOnly>>
      /\ phase = "COMMIT" /\ Aria!Turn(t, 2)
      /\ \/ chan' = chan
         \/ \E asked \in SUBSET Aria!Remote(t, Aria!Reads(t)) :
              Aria!Send(Aria!Requests("CHECK", t, asked, FALSE) \cup
                        Aria!Requests("CHECK", t, Aria!Remote(t, Aria!Writes(t)), TRUE))
      /\ step' = [step EXCEPT ![t] = 3]
  BY DEF AriaAnalyze, Aria!Analyze, Aria!Advance, Aria!Reserved, Aria!Analyzed, Aria!Ask
<1>2. t \in Current /\ step[t] = 2
  BY <1>1, AriaTurn
<1>3. outcome \in [Txns -> {"none", "no_retry", "aborted", "committed"}] /\ outcome[t] = "none"
  BY <1>0, <1>2, FallbackFacts DEF AriaTypes, Outcomes, Aria!Decided
<1>4. /\ Outcomes' /\ FellBack' = FellBack
      /\ step' \in [Txns -> Aria!Generated..Aria!Decided]
  <2>1. outcome' = [outcome EXCEPT ![t] = "none"]
    BY <1>1, <1>3
  <2>2. UNCHANGED <<batch, phase, prog>> /\ 3 \in 0..4 /\ 3 # 4 /\ step[t] # 4
    BY <1>1, <1>2
  <2> QED
    BY <1>1, <1>2, <2>1, <2>2, StepTaken
<1>5. AriaChannels'
  <2>1. CASE chan' = chan
    BY <1>0, <2>1 DEF AriaChannels
  <2>2. ASSUME NEW asked \in SUBSET Aria!Remote(t, Aria!Reads(t)),
               Aria!Send(Aria!Requests("CHECK", t, asked, FALSE) \cup
                         Aria!Requests("CHECK", t, Aria!Remote(t, Aria!Writes(t)), TRUE))
        PROVE  AriaChannels'
    <3> DEFINE r == Aria!Requests("CHECK", t, asked, FALSE)
               w == Aria!Requests("CHECK", t, Aria!Remote(t, Aria!Writes(t)), TRUE)
    <3>1. /\ asked \in SUBSET Keys /\ Aria!Remote(t, Aria!Writes(t)) \in SUBSET Keys
          /\ "CHECK" \in Aria!Types
      BY <2>2, AriaRows DEF Aria!Types
    <3>2. /\ r \subseteq Aria!Message /\ IsFiniteSet(r)
          /\ w \subseteq Aria!Message /\ IsFiniteSet(w)
      BY <3>1, AriaRequests
    <3>3. Aria!Send(r \cup w)
      BY <2>2
    <3> HIDE DEF r, w
    <3>4. IsFiniteSet(r \cup w) /\ (r \cup w) \in SUBSET Aria!Message
      BY <3>2, FS_Union
    <3> QED
      BY <1>0, <3>3, <3>4, AriaSends
  <2> QED
    BY <1>1, <2>1, <2>2
<1>6. AriaTypes' /\ db' \in [Keys -> Txns \cup {NoTxn}]
  BY <1>0, <1>1, <1>4, <1>5 DEF AriaTypes, AriaChannels, exchange, ScheduleTypeOK
<1>7. HomeCounts'
  <2>1. \A u \in Txns : step'[u] >= 1 => step[u] >= 1
    BY <1>0, <1>1, <1>2
  <2> QED
    BY <1>0, <1>1, <2>1 DEF HomeCounts, Current, LocalReads, RemoteReads, RowsAt, schedOnly,
                            Aria!Executed
<1> QED
  BY <1>1, <1>4, <1>6, <1>7, QuietStep


LEMMA CommitKeeps ==
  ASSUME FallbackInv, NEW t \in Txns, AriaCommit(t)
  PROVE  FallbackInv'
<1>0. /\ AriaTypes /\ ScheduleTypeOK /\ HomeCounts /\ AriaChannels /\ step \in [Txns -> 0..4]
  BY FallbackFacts DEF AriaTypes, Aria!Generated, Aria!Decided
<1>1. /\ UNCHANGED <<batch, phase, prog, word, exchange, todo, schedOnly>>
      /\ phase = "COMMIT" /\ Aria!Turn(t, 3)
      /\ step' = [step EXCEPT ![t] = 4] /\ outcome' = [outcome EXCEPT ![t] = "committed"]
      /\ db' = [k \in Keys |-> IF k \in Aria!Local(t, Aria!Writes(t)) THEN t ELSE db[k]]
      /\ Aria!Send(Aria!Requests("WRITE", t, Aria!Remote(t, Aria!Writes(t)), TRUE))
  BY DEF AriaCommit, Aria!Commit, Aria!Advance, Aria!Analyzed, Aria!Decided
<1>2. t \in Current /\ step[t] = 3
  BY <1>1, AriaTurn
<1>3. /\ Outcomes' /\ FellBack' = FellBack
      /\ step' \in [Txns -> Aria!Generated..Aria!Decided]
      /\ outcome' \in [Txns -> {"none", "no_retry", "aborted", "committed"}]
      /\ outcome[t] = "none"
  <2>1. UNCHANGED <<batch, phase, prog>> /\ 4 \in 0..4 /\ step[t] # 4
    BY <1>1, <1>2
  <2>2. "committed" \in {"none", "no_retry", "aborted", "committed"}
    OBVIOUS
  <2> QED
    BY <1>1, <1>2, <2>1, <2>2, StepTaken
<1>4. AriaChannels'
  <2>1. Aria!Remote(t, Aria!Writes(t)) \in SUBSET Keys /\ "WRITE" \in Aria!Types
    BY AriaRows DEF Aria!Types
  <2> QED
    BY <1>0, <1>1, <2>1, AriaRequests, AriaSends
<1>5. AriaTypes' /\ db' \in [Keys -> Txns \cup {NoTxn}]
  BY <1>0, <1>1, <1>3, <1>4 DEF AriaTypes, AriaChannels, exchange, ScheduleTypeOK
<1>6. HomeCounts'
  <2>1. \A u \in Txns : /\ step'[u] >= 1 => step[u] >= 1
                        /\ outcome'[u] # "no_retry" => outcome[u] # "no_retry"
    BY <1>0, <1>1, <1>2, <1>3 DEF AriaTypes
  <2> QED
    BY <1>0, <1>1, <2>1 DEF HomeCounts, Current, LocalReads, RemoteReads, RowsAt, schedOnly,
                            Aria!Executed
<1> QED
  BY <1>1, <1>3, <1>5, <1>6, QuietStep

\* The counters of a transaction are numbers of rows.
LEMMA CountsFacts ==
  ASSUME ProgTypes, ScheduleTypeOK, NEW t \in Txns, NEW n \in Nodes, Counts(t, n)
  PROVE  /\ local' \in [Nodes -> [Txns -> Int]] /\ remote' \in [Nodes -> [Txns -> Int]]
         /\ \A o \in Nodes, u \in Txns :
              /\ local'[o][u] = IF o = n /\ u = t THEN LocalReads(t, n) ELSE local[o][u]
              /\ remote'[o][u] = IF o = n /\ u = t THEN RemoteReads(t, n) ELSE remote[o][u]
<1>1. LocalReads(t, n) \in Int /\ RemoteReads(t, n) \in Int
  <2>1. IsFiniteSet(RowsAt(t, n)) /\ IsFiniteSet(prog[t].reads)
    BY RowFacts
  <2>2. IsFiniteSet(prog[t].reads \ RowsAt(t, n))
    BY <2>1, FS_Subset
  <2>3. Cardinality(RowsAt(t, n)) \in Nat /\ Cardinality(prog[t].reads \ RowsAt(t, n)) \in Nat
    BY <2>1, <2>2, FS_CardinalityType
  <2> QED
    BY <2>3 DEF LocalReads, RemoteReads
<1>2. local \in [Nodes -> [Txns -> Int]] /\ remote \in [Nodes -> [Txns -> Int]]
  BY DEF ScheduleTypeOK
<1>3. /\ local' = [local EXCEPT ![n][t] = LocalReads(t, n)]
      /\ remote' = [remote EXCEPT ![n][t] = RemoteReads(t, n)]
  BY DEF Counts
<1>4. /\ local' \in [Nodes -> [Txns -> Int]]
      /\ \A o \in Nodes, u \in Txns :
           local'[o][u] = IF o = n /\ u = t THEN LocalReads(t, n) ELSE local[o][u]
  BY <1>1, <1>2, <1>3, Replaced
<1>5. /\ remote' \in [Nodes -> [Txns -> Int]]
      /\ \A o \in Nodes, u \in Txns :
           remote'[o][u] = IF o = n /\ u = t THEN RemoteReads(t, n) ELSE remote[o][u]
  BY <1>1, <1>2, <1>3, Replaced
<1> QED
  BY <1>4, <1>5

\* The dry run is counted before anything of the fallback is there.
LEMMA ExecuteKeeps ==
  ASSUME FallbackInv, NEW t \in Txns, AriaExecute(t)
  PROVE  FallbackInv'
<1>0. /\ AriaTypes /\ ScheduleTypeOK /\ HomeCounts /\ AriaChannels /\ ProgTypes
      /\ step \in [Txns -> 0..4] /\ AbortsKnown /\ Prepared /\ Executions
      /\ Home[t] \in Nodes
  BY FallbackFacts DEF AriaTypes, Aria!Generated, Aria!Decided
<1>1. /\ batch' = batch /\ phase' = phase /\ prog' = prog /\ outcome' = outcome
      /\ word' = word /\ db' = db /\ todo' = todo /\ dealt' = dealt /\ got' = got
      /\ queue' = queue /\ running' = running /\ input' = input /\ ran' = ran
      /\ lock' = lock /\ reads' = reads
      /\ abortLock' = abortLock /\ mail' = mail /\ told' = told
      /\ phase = "READ" /\ Aria!Turn(t, 0) /\ Counts(t, Home[t])
      /\ step' = [step EXCEPT ![t] = 1]
      /\ Aria!Send(Aria!Requests("SEARCH", t, Aria!Remote(t, Aria!Reads(t)), FALSE))
  BY DEF AriaExecute, Aria!Execute, Aria!Advance, Aria!Generated, Aria!Executed, Aria!Ask,
         exchange
<1>2. t \in Current /\ step[t] = 0
  BY <1>1, AriaTurn
<1>3. outcome \in [Txns -> {"none", "no_retry", "aborted", "committed"}] /\ outcome[t] = "none"
  BY <1>0, <1>2, FallbackFacts DEF AriaTypes, Outcomes, Aria!Decided
<1>4. /\ Outcomes' /\ FellBack' = FellBack
      /\ step' \in [Txns -> Aria!Generated..Aria!Decided]
  <2>1. outcome' = [outcome EXCEPT ![t] = "none"]
    BY <1>1, <1>3
  <2>2. UNCHANGED <<batch, phase, prog>> /\ 1 \in 0..4 /\ 1 # 4 /\ step[t] # 4
    BY <1>1, <1>2
  <2> QED
    BY <1>1, <1>2, <2>1, <2>2, StepTaken
<1>5. AriaChannels'
  <2>1. Aria!Remote(t, Aria!Reads(t)) \in SUBSET Keys /\ "SEARCH" \in Aria!Types
    BY AriaRows DEF Aria!Types
  <2> QED
    BY <1>0, <1>1, <2>1, AriaRequests, AriaSends
<1>6. AriaTypes'
  BY <1>0, <1>1, <1>4, <1>5 DEF AriaTypes, AriaChannels
<1>7. /\ local' \in [Nodes -> [Txns -> Int]] /\ remote' \in [Nodes -> [Txns -> Int]]
      /\ \A o \in Nodes, u \in Txns :
           /\ local'[o][u] = IF o = Home[t] /\ u = t THEN LocalReads(t, o) ELSE local[o][u]
           /\ remote'[o][u] = IF o = Home[t] /\ u = t THEN RemoteReads(t, o) ELSE remote[o][u]
  BY <1>0, <1>1, CountsFacts
<1>8. ScheduleTypeOK'
  BY <1>0, <1>1, <1>7 DEF ScheduleTypeOK
<1>9. HomeCounts'
  <2>1. \A u, o : LocalReads(u, o)' = LocalReads(u, o) /\ RemoteReads(u, o)' = RemoteReads(u, o)
    BY <1>1 DEF LocalReads, RemoteReads, RowsAt
  <2>2. ASSUME NEW u \in Current, step'[u] >= 1, outcome[u] # "no_retry"
        PROVE  /\ local'[Home[u]][u] = LocalReads(u, Home[u])
               /\ remote'[Home[u]][u] = RemoteReads(u, Home[u])
    <3>1. u \in Txns /\ Home[u] \in Nodes
      BY FallbackFacts DEF Current
    <3>2. CASE u = t
      BY <1>7, <3>1, <3>2
    <3>3. CASE u # t
      BY <1>0, <1>1, <1>7, <2>2, <3>1, <3>3 DEF HomeCounts, Aria!Executed
    <3> QED
      BY <3>2, <3>3
  <2> QED
    BY <1>1, <2>1, <2>2 DEF HomeCounts, Current, Aria!Executed
<1>10. AbortsKnown'
  BY <1>0, <1>1 DEF AbortsKnown
<1>11. Prepared'
  BY <1>0, <1>1 DEF Prepared
<1>12. Executions'
  <2>1. \A u, n : (Split(u, n)' <=> Split(u, n)) /\ Active(u)' = Active(u)
    BY <1>1 DEF Split, Active, Updates, RowsAt
  <2>2. \A u : Past(u)' <=> Past(u)
    BY <1>1 DEF Past
  <2> QED
    BY <1>0, <1>1, <1>4, <2>1, <2>2 DEF Executions
<1>13. (IF phase = "FALLBACK" THEN CountInv ELSE Resting)'
  BY <1>1, <1>8, SchedulesKept
<1> QED
  BY <1>4, <1>6, <1>8, <1>9, <1>10, <1>11, <1>12, <1>13 DEF FallbackInv


\* What a node has aborted it knows itself.
LEMMA AbortKeeps ==
  ASSUME FallbackInv, NEW t \in Txns, AriaAbort(t)
  PROVE  FallbackInv'
<1>0. /\ AriaTypes /\ ScheduleTypeOK /\ HomeCounts /\ AriaChannels
      /\ step \in [Txns -> 0..4] /\ AbortsKnown /\ Prepared /\ Executions
      /\ Home[t] \in Nodes
  BY FallbackFacts DEF AriaTypes, Aria!Generated, Aria!Decided
<1>1. /\ batch' = batch /\ phase' = phase /\ prog' = prog
      /\ word' = word /\ db' = db /\ chan' = chan /\ todo' = todo /\ dealt' = dealt
      /\ got' = got /\ queue' = queue /\ running' = running /\ local' = local
      /\ remote' = remote /\ input' = input /\ ran' = ran /\ lock' = lock /\ reads' = reads
      /\ mail' = mail /\ told' = told
      /\ phase = "COMMIT" /\ Aria!Turn(t, 3)
      /\ step' = [step EXCEPT ![t] = 4] /\ outcome' = [outcome EXCEPT ![t] = "aborted"]
      /\ abortLock' = [abortLock EXCEPT ![Home[t]] = @ \cup {t}]
  BY DEF AriaAbort, Aria!Abort, Aria!Advance, Aria!Analyzed, Aria!Decided, schedOnly
<1>2. t \in Current /\ step[t] = 3
  BY <1>1, AriaTurn
<1>3. /\ Outcomes' /\ FellBack' = FellBack \cup {t}
      /\ step' \in [Txns -> Aria!Generated..Aria!Decided]
      /\ outcome' \in [Txns -> {"none", "no_retry", "aborted", "committed"}]
      /\ outcome[t] = "none"
  <2>1. UNCHANGED <<batch, phase, prog>> /\ 4 \in 0..4 /\ step[t] # 4
    BY <1>1, <1>2
  <2>2. "aborted" \in {"none", "no_retry", "aborted", "committed"}
    OBVIOUS
  <2> QED
    BY <1>1, <1>2, <2>1, <2>2, StepTaken
<1>4. /\ AriaTypes' /\ ScheduleTypeOK'
  <2>1. abortLock' \in [Nodes -> SUBSET Txns]
    BY <1>0, <1>1 DEF AriaTypes
  <2>2. ScheduleTypeOK'
    BY <1>0, <1>1 DEF ScheduleTypeOK
  <2> QED
    BY <1>0, <1>1, <1>3, <2>1, <2>2 DEF AriaTypes
<1>5. HomeCounts'
  <2>1. \A u \in Txns : /\ step'[u] >= 1 => step[u] >= 1
                        /\ outcome'[u] # "no_retry" => outcome[u] # "no_retry"
    BY <1>0, <1>1, <1>2, <1>3 DEF AriaTypes
  <2> QED
    BY <1>0, <1>1, <2>1 DEF HomeCounts, Current, LocalReads, RemoteReads, RowsAt, Aria!Executed
<1>6. AbortsKnown'
  <2>1. Fallen' = Fallen \cup {t}
    BY <1>1, <1>2, <1>3 DEF Fallen, Current
  <2>2. \A n : Own(n)' = {u \in Fallen \cup {t} : Home[u] = n}
    BY <2>1 DEF Own
  <2>3. ASSUME NEW n \in Nodes PROVE abortLock'[n] = Own(n)'
    <3>1. abortLock[n] = Own(n) /\ abortLock \in [Nodes -> SUBSET Txns]
      BY <1>0, <1>1 DEF AbortsKnown, AriaTypes
    <3>2. CASE n = Home[t]
      <4>1. abortLock'[n] = Own(n) \cup {t}
        BY <1>0, <1>1, <3>1, <3>2
      <4>2. Own(n)' = Own(n) \cup {t}
        BY <2>2, <3>2 DEF Own
      <4> QED
        BY <4>1, <4>2
    <3>3. CASE n # Home[t]
      <4>1. abortLock'[n] = Own(n)
        BY <1>0, <1>1, <3>1, <3>3
      <4>2. Own(n)' = Own(n)
        BY <2>2, <3>3 DEF Own
      <4> QED
        BY <4>1, <4>2
    <3> QED
      BY <3>2, <3>3
  <2> QED
    BY <1>0, <1>1, <2>3 DEF AbortsKnown
<1>7. Prepared'
  BY <1>0, <1>1 DEF Prepared
<1>8. Executions'
  <2>1. \A u, n : (Split(u, n)' <=> Split(u, n)) /\ Active(u)' = Active(u)
    BY <1>1 DEF Split, Active, Updates, RowsAt
  <2>2. \A u : Past(u)' <=> Past(u)
    BY <1>1 DEF Past
  <2>3. ~Past(t)
    <3>1. BatchOf[t] = batch /\ batch \in Nat
      BY <1>2, FallbackFacts DEF Current
    <3> QED
      BY <1>1, <3>1 DEF Past
  <2> QED
    BY <1>0, <1>1, <1>3, <2>1, <2>2, <2>3 DEF Executions
<1>9. (IF phase = "FALLBACK" THEN CountInv ELSE Resting)'
  BY <1>1, <1>4, SchedulesKept
<1> QED
  BY <1>3, <1>4, <1>5, <1>6, <1>7, <1>8, <1>9 DEF FallbackInv

-----------------------------------------------------------------------------
(* The barriers and the exchange of the aborts.                            *)

\* A barrier in front of the fallback only changes the phase.
LEMMA BarrierKeeps ==
  ASSUME FallbackInv, UNCHANGED <<batch, prog, step, outcome, word, db, chan, abortLock,
                                  mail, todo, schedOnly>>,
         phase # "FALLBACK", phase # "DONE", NEW p \in {"COMMIT", "EXCHANGE", "PREPARE"},
         phase' = p, p = "PREPARE" <=> phase = "EXCHANGE", phase # "PREPARE",
         Outcomes', AbortsKnown'
  PROVE  FallbackInv'
<1>0. /\ AriaTypes /\ ScheduleTypeOK /\ HomeCounts /\ Prepared /\ Executions /\ Resting
  BY FallbackFacts DEF FallbackInv
<1>1. /\ batch' = batch /\ prog' = prog /\ todo' = todo /\ dealt' = dealt
      /\ got' = got /\ queue' = queue /\ running' = running /\ local' = local
      /\ remote' = remote /\ input' = input /\ ran' = ran /\ lock' = lock /\ reads' = reads
      /\ abortLock' = abortLock /\ mail' = mail /\ step' = step /\ outcome' = outcome
  BY DEF schedOnly
<1>2. AriaTypes'
  BY <1>0, <1>1 DEF AriaTypes
<1>3. ScheduleTypeOK'
  BY <1>0, <1>1 DEF ScheduleTypeOK
<1>4. HomeCounts'
  <2>1. phase \in {"READ", "COMMIT", "EXCHANGE", "PREPARE"}
    BY <1>0 DEF AriaTypes
  <2> QED
    BY <1>0, <1>1, <2>1 DEF HomeCounts, Current, LocalReads, RemoteReads, RowsAt
<1>5. Prepared'
  BY <1>0, <1>1 DEF Prepared
<1>6. Executions'
  <2>1. \A u, n : (Split(u, n)' <=> Split(u, n)) /\ Active(u)' = Active(u)
    BY <1>1 DEF Split, Active, Updates, RowsAt
  <2>2. FellBack' = FellBack /\ \A u : Past(u)' <=> Past(u)
    BY <1>1 DEF Past, FellBack
  <2> QED
    BY <1>0, <1>1, <2>1, <2>2 DEF Executions
<1>7. Resting'
  BY <1>0, <1>1 DEF Resting, BlindRow, Blinds
<1> QED
  BY <1>2, <1>3, <1>4, <1>5, <1>6, <1>7 DEF FallbackInv

LEMMA EndReadKeeps ==
  ASSUME FallbackInv, EndRead
  PROVE  FallbackInv'
<1>0. Outcomes /\ AbortsKnown /\ AriaTypes
  BY FallbackFacts
<1>1. /\ phase = "READ" /\ phase' = "COMMIT"
      /\ UNCHANGED <<batch, prog, step, outcome, word, db, chan, abortLock, mail, told,
                     todo, schedOnly>>
  BY DEF EndRead, Aria!EndRead, exchange
<1>2. Outcomes'
  BY <1>0, <1>1 DEF Outcomes
<1>3. AbortsKnown'
  <2>1. Fallen' = {}
    <3>1. \A t \in Current : outcome'[t] \in {"none", "no_retry"}
      BY <1>0, <1>1 DEF Outcomes, Current
    <3> QED
      BY <1>1, <3>1 DEF Fallen, FellBack, Current
  <2>2. \A n : Own(n)' = {}
    BY <2>1 DEF Own
  <2> QED
    BY <1>0, <1>1, <2>2 DEF AbortsKnown
<1> QED
  BY <1>1, <1>2, <1>3, BarrierKeeps

LEMMA EndCommitKeeps ==
  ASSUME FallbackInv, EndCommit
  PROVE  FallbackInv'
<1>0. Outcomes /\ AbortsKnown /\ AriaTypes
  BY FallbackFacts
<1>1. /\ phase = "COMMIT" /\ phase' = "EXCHANGE"
      /\ \A t \in Current : step[t] = Aria!Decided
      /\ UNCHANGED <<batch, prog, step, outcome, word, db, chan, abortLock, mail, told,
                     todo, schedOnly>>
  BY DEF EndCommit, exchange
<1>2. Outcomes'
  BY <1>0, <1>1 DEF Outcomes, Current
<1>3. AbortsKnown'
  <2>1. Fallen' = Fallen /\ \A n : Own(n)' = Own(n)
    BY <1>1 DEF Fallen, FellBack, Current, Own
  <2>2. /\ \A n \in Nodes : abortLock'[n] = Own(n)'
        /\ mail' = {} /\ told' = {} /\ Own(Master)' \subseteq Fallen'
    BY <1>0, <1>1, <2>1 DEF AbortsKnown, Own
  <2>3. Collected'
    BY <2>2, MasterAssumption DEF Collected
  <2> QED
    BY <1>1, <2>2, <2>3 DEF AbortsKnown
<1> QED
  BY <1>1, <1>2, <1>3, BarrierKeeps

LEMMA EndExchangeKeeps ==
  ASSUME FallbackInv, EndExchange
  PROVE  FallbackInv'
<1>0. Outcomes /\ AbortsKnown /\ AriaTypes
  BY FallbackFacts
<1>1. /\ phase = "EXCHANGE" /\ phase' = "PREPARE" /\ told' = {}
      /\ Master \in told /\ mail = {}
      /\ UNCHANGED <<batch, prog, step, outcome, word, db, chan, abortLock, mail,
                     todo, schedOnly>>
  BY DEF EndExchange
<1>2. Outcomes'
  BY <1>0, <1>1 DEF Outcomes
<1>3. AbortsKnown'
  <2>1. Fallen' = Fallen
    BY <1>1 DEF Fallen, FellBack, Current
  <2>2. \A n \in Nodes : abortLock[n] = Fallen
    BY <1>0, <1>1 DEF AbortsKnown, Spread
  <2> QED
    BY <1>1, <2>1, <2>2 DEF AbortsKnown
<1> QED
  BY <1>1, <1>2, <1>3, BarrierKeeps

\* A message of the exchange is sent or taken.
LEMMA ExchangeKeeps ==
  ASSUME FallbackInv, Exchange
  PROVE  FallbackInv'
<1>0. /\ AriaTypes /\ ScheduleTypeOK /\ Outcomes /\ HomeCounts /\ AbortsKnown
      /\ Prepared /\ Executions /\ Resting /\ phase = "EXCHANGE"
  BY FallbackFacts DEF FallbackInv, Exchange, SendAborts, TakeAborts, Broadcast, TakeUnion
<1>1. /\ batch' = batch /\ prog' = prog /\ todo' = todo /\ dealt' = dealt
      /\ got' = got /\ queue' = queue /\ running' = running /\ local' = local
      /\ remote' = remote /\ input' = input /\ ran' = ran /\ lock' = lock /\ reads' = reads
      /\ step' = step /\ outcome' = outcome /\ phase' = phase /\ db' = db
      /\ word' = word /\ chan' = chan
  BY DEF Exchange, SendAborts, TakeAborts, Broadcast, TakeUnion, aria, schedOnly
<1>2. Fallen' = Fallen /\ (\A n : Own(n)' = Own(n)) /\ Fallen \subseteq Txns
      /\ \A n : Own(n) \subseteq Fallen
  BY <1>1 DEF Fallen, Own, FellBack, Current
<1>3. abortLock \in [Nodes -> SUBSET Txns] /\ Master \in Nodes /\ told \subseteq Nodes
      /\ IF Master \in told THEN Spread ELSE Collected
  BY <1>0, MasterAssumption DEF AriaTypes, AbortsKnown
<1>4. /\ abortLock' \in [Nodes -> SUBSET Txns] /\ told' \subseteq Nodes
      /\ (IF Master \in told THEN Spread ELSE Collected)'
  <2>1. ASSUME NEW n \in Nodes, SendAborts(n)
        PROVE  /\ abortLock' \in [Nodes -> SUBSET Txns] /\ told' \subseteq Nodes
               /\ (IF Master \in told THEN Spread ELSE Collected)'
    <3>1. /\ n # Master /\ n \notin told /\ told' = told \cup {n} /\ abortLock' = abortLock
          /\ mail' = mail \cup {[from |-> n, to |-> Master, tids |-> abortLock[n]]}
      BY <2>1 DEF SendAborts
    <3>2. Master \notin told
      BY <1>3, <3>1 DEF Spread
    <3>3. abortLock[n] = Own(n)
      BY <1>3, <3>1, <3>2 DEF Collected
    <3>4. Collected'
      BY <1>2, <1>3, <3>1, <3>2, <3>3 DEF Collected, FromNode
    <3> QED
      BY <1>3, <3>1, <3>2, <3>4
  <2>2. ASSUME TakeAborts
        PROVE  /\ abortLock' \in [Nodes -> SUBSET Txns] /\ told' \subseteq Nodes
               /\ (IF Master \in told THEN Spread ELSE Collected)'
    <3>1. PICK msg \in mail : /\ msg.to = Master /\ mail' = mail \ {msg} /\ told' = told
                             /\ abortLock' = [abortLock EXCEPT ![Master] = @ \cup msg.tids]
      BY <2>2 DEF TakeAborts
    <3>2. Master \notin told
      <4>1. \A n \in Nodes \ {Master} : ToNode(n).to = n
        BY DEF ToNode
      <4> QED
        BY <1>3, <3>1, <4>1 DEF Spread
    <3>3. PICK n \in told : msg = FromNode(n)
      BY <1>3, <3>1, <3>2 DEF Collected
    <3>4. msg.tids = Own(n) /\ n \in Nodes
      BY <1>3, <3>3 DEF FromNode
    <3>5. /\ abortLock' \in [Nodes -> SUBSET Txns]
          /\ abortLock'[Master] = abortLock[Master] \cup Own(n)
          /\ \A o \in Nodes \ {Master} : abortLock'[o] = abortLock[o]
      BY <1>2, <1>3, <3>1, <3>4
    <3>6. \A o \in told : FromNode(o) \in mail' \/ Own(o) \subseteq abortLock'[Master]
      <4>1. \A o \in told : FromNode(o) = msg => Own(o) = Own(n)
        BY <3>4 DEF FromNode
      <4> QED
        BY <1>3, <3>1, <3>2, <3>5, <4>1 DEF Collected
    <3>7. Collected'
      <4>1. \A o : FromNode(o)' = FromNode(o)
        BY <1>2 DEF FromNode
      <4>2. mail' \subseteq {FromNode(o) : o \in told'}
        BY <1>3, <3>1, <3>2 DEF Collected
      <4> QED
        BY <1>2, <1>3, <3>1, <3>2, <3>5, <3>6, <4>1, <4>2 DEF Collected
    <3> QED
      BY <1>3, <3>1, <3>2, <3>5, <3>7
  <2>3. ASSUME Broadcast
        PROVE  /\ abortLock' \in [Nodes -> SUBSET Txns] /\ told' \subseteq Nodes
               /\ (IF Master \in told THEN Spread ELSE Collected)'
    <3>1. /\ Master \notin told /\ Nodes \ {Master} \subseteq told /\ mail = {}
          /\ mail' = {[from |-> Master, to |-> n, tids |-> abortLock[Master]]
                        : n \in Nodes \ {Master}}
          /\ told' = told \cup {Master} /\ abortLock' = abortLock
      BY <2>3 DEF Broadcast
    <3>2. abortLock[Master] = Fallen
      <4>1. \A n \in Nodes : Own(n) \subseteq abortLock[Master]
        BY <1>3, <3>1 DEF Collected
      <4>2. \A t \in Fallen : t \in Own(Home[t]) /\ Home[t] \in Nodes
        BY <1>2, HomeAssumption DEF Own
      <4> QED
        BY <1>3, <3>1, <4>1, <4>2 DEF Collected
    <3>3. mail' = {ToNode(n) : n \in Nodes \ {Master}}
      BY <3>1, <3>2 DEF ToNode
    <3>4. \A n \in Nodes : abortLock[n] \subseteq Fallen
      BY <1>2, <1>3, <3>1, <3>2 DEF Collected
    <3>5. Spread'
      <4>1. \A n : ToNode(n)' = ToNode(n)
        BY <1>2 DEF ToNode
      <4> QED
        BY <1>2, <3>1, <3>2, <3>3, <3>4, <4>1 DEF Spread
    <3> QED
      BY <1>3, <3>1, <3>5
  <2>4. ASSUME TakeUnion
        PROVE  /\ abortLock' \in [Nodes -> SUBSET Txns] /\ told' \subseteq Nodes
               /\ (IF Master \in told THEN Spread ELSE Collected)'
    <3>1. PICK msg \in mail : /\ msg.from = Master /\ mail' = mail \ {msg} /\ told' = told
                             /\ abortLock' = [abortLock EXCEPT ![msg.to] = @ \cup msg.tids]
      BY <2>4 DEF TakeUnion
    <3>2. Master \in told
      <4>1. \A n : FromNode(n).from = n
        BY DEF FromNode
      <4> QED
        BY <1>3, <3>1, <4>1 DEF Collected
    <3>3. PICK n \in Nodes \ {Master} : msg = ToNode(n)
      BY <1>3, <3>1, <3>2 DEF Spread
    <3>4. msg.tids = Fallen /\ msg.to = n
      BY <3>3 DEF ToNode
    <3>5. /\ abortLock' \in [Nodes -> SUBSET Txns]
          /\ abortLock'[n] = Fallen
          /\ \A o \in Nodes \ {n} : abortLock'[o] = abortLock[o]
      <4>1. abortLock[n] \cup Fallen = Fallen
        BY <1>3, <3>2, <3>3 DEF Spread
      <4> QED
        BY <1>2, <1>3, <3>1, <3>3, <3>4, <4>1
    <3>6. \A o \in Nodes \ {Master} : ToNode(o) \in mail' \/ abortLock'[o] = Fallen
      <4>1. \A o : ToNode(o) = msg => o = n
        BY <3>4 DEF ToNode
      <4> QED
        BY <1>3, <3>1, <3>2, <3>5, <4>1 DEF Spread
    <3>7. Spread'
      <4>1. \A o : ToNode(o)' = ToNode(o)
        BY <1>2 DEF ToNode
      <4>2. mail' \subseteq {ToNode(o) : o \in Nodes \ {Master}}
        BY <1>3, <3>1, <3>2 DEF Spread
      <4>3. abortLock'[Master] = Fallen /\ \A o \in Nodes : abortLock'[o] \subseteq Fallen
        BY <1>3, <3>2, <3>3, <3>5 DEF Spread
      <4> QED
        BY <1>2, <1>3, <3>1, <3>2, <3>6, <4>1, <4>2, <4>3 DEF Spread
    <3> QED
      BY <1>3, <3>1, <3>2, <3>5, <3>7
  <2> QED
    BY <2>1, <2>2, <2>3, <2>4 DEF Exchange
<1>5. AriaTypes' /\ ScheduleTypeOK'
  BY <1>0, <1>1, <1>4 DEF AriaTypes, ScheduleTypeOK
<1>6. Outcomes'
  BY <1>0, <1>1 DEF Outcomes
<1>7. HomeCounts'
  BY <1>0, <1>1 DEF HomeCounts, Current, LocalReads, RemoteReads, RowsAt
<1>8. AbortsKnown'
  BY <1>0, <1>1, <1>4 DEF AbortsKnown
<1>9. Prepared'
  BY <1>0, <1>1 DEF Prepared
<1>10. Executions'
  <2>1. \A u, n : (Split(u, n)' <=> Split(u, n)) /\ Active(u)' = Active(u)
    BY <1>1 DEF Split, Active, Updates, RowsAt
  <2>2. FellBack' = FellBack /\ \A u : Past(u)' <=> Past(u)
    BY <1>1 DEF Past, FellBack
  <2> QED
    BY <1>0, <1>1, <2>1, <2>2 DEF Executions
<1>11. Resting'
  BY <1>0, <1>1 DEF Resting, BlindRow, Blinds
<1> QED
  BY <1>0, <1>1, <1>5, <1>6, <1>7, <1>8, <1>9, <1>10, <1>11 DEF FallbackInv


-----------------------------------------------------------------------------
(* The preparation, the fallback and its end.                              *)

LEMMA PrepareKeeps ==
  ASSUME FallbackInv, NEW n \in Nodes, NEW t \in Txns, Prepare(n, t)
  PROVE  FallbackInv'
<1>0. /\ AriaTypes /\ ScheduleTypeOK /\ Outcomes /\ HomeCounts /\ AbortsKnown
      /\ Prepared /\ Executions /\ Resting /\ ProgTypes /\ phase = "PREPARE"
  BY FallbackFacts DEF FallbackInv, Prepare
<1>1. /\ batch' = batch /\ phase' = phase /\ prog' = prog /\ step' = step
      /\ outcome' = outcome /\ db' = db /\ chan' = chan /\ abortLock' = abortLock
      /\ mail' = mail /\ told' = told /\ dealt' = dealt /\ got' = got /\ queue' = queue
      /\ running' = running /\ input' = input /\ ran' = ran /\ lock' = lock /\ reads' = reads
      /\ t \in Relevant(n) /\ t \notin todo[n]
      /\ todo' = [todo EXCEPT ![n] = @ \cup {t}]
      /\ word' = [k \in Keys |-> IF k \in RowsAt(t, n) THEN Aria!ZeroWord ELSE word[k]]
      /\ \/ Home[t] = n /\ local' = local /\ remote' = remote
         \/ Home[t] # n /\ Counts(t, n)
  BY DEF Prepare, exchange
<1>2. t \in Fallen /\ t \in Current /\ outcome[t] = "aborted"
  BY <1>0, <1>1 DEF AbortsKnown, Relevant, Fallen, FellBack
<1>3. /\ local' \in [Nodes -> [Txns -> Int]] /\ remote' \in [Nodes -> [Txns -> Int]]
      /\ local'[n][t] = LocalReads(t, n) /\ remote'[n][t] = RemoteReads(t, n)
      /\ \A o \in Nodes, u \in Txns : o # n \/ u # t =>
           local'[o][u] = local[o][u] /\ remote'[o][u] = remote[o][u]
  <2>1. CASE Home[t] = n
    <3>1. local' = local /\ remote' = remote
      BY <1>1, <2>1
    <3>2. step[t] = 4
      BY <1>0, <1>2 DEF Outcomes, Aria!Decided
    <3>3. local[n][t] = LocalReads(t, n) /\ remote[n][t] = RemoteReads(t, n)
      BY <1>0, <1>2, <2>1, <3>2 DEF HomeCounts, Aria!Executed
    <3> QED
      BY <1>0, <3>1, <3>3 DEF ScheduleTypeOK
  <2>2. CASE Home[t] # n
    BY <1>0, <1>1, <2>2, CountsFacts
  <2> QED
    BY <2>1, <2>2
<1>4. todo' \in [Nodes -> SUBSET Txns] /\ todo'[n] = todo[n] \cup {t}
      /\ \A o \in Nodes : o # n => todo'[o] = todo[o]
  BY <1>0, <1>1 DEF ScheduleTypeOK
<1>5. ScheduleTypeOK'
  BY <1>0, <1>1, <1>3, <1>4 DEF ScheduleTypeOK
<1>6. AriaTypes'
  <2>1. Aria!ZeroWord \in Aria!Word
    BY DEF Aria!ZeroWord, Aria!Word
  <2>2. word' \in [Keys -> Aria!Word]
    BY <1>0, <1>1, <2>1 DEF AriaTypes
  <2> QED
    BY <1>0, <1>1, <2>2 DEF AriaTypes
<1>7. Outcomes'
  BY <1>0, <1>1 DEF Outcomes
<1>8. \A u, o : LocalReads(u, o)' = LocalReads(u, o) /\ RemoteReads(u, o)' = RemoteReads(u, o)
  BY <1>1 DEF LocalReads, RemoteReads, RowsAt
<1>9. HomeCounts'
  <2>1. ASSUME NEW u \in Current, step[u] >= Aria!Executed, outcome[u] # "no_retry"
        PROVE  /\ local'[Home[u]][u] = LocalReads(u, Home[u])
               /\ remote'[Home[u]][u] = RemoteReads(u, Home[u])
    <3>1. u \in Txns /\ Home[u] \in Nodes
      BY HomeAssumption DEF Current
    <3>2. /\ local[Home[u]][u] = LocalReads(u, Home[u])
          /\ remote[Home[u]][u] = RemoteReads(u, Home[u])
      BY <1>0, <2>1 DEF HomeCounts
    <3> QED
      BY <1>3, <3>1, <3>2
  <2> QED
    BY <1>1, <1>8, <2>1 DEF HomeCounts, Current
<1>10. AbortsKnown'
  BY <1>0, <1>1 DEF AbortsKnown, Fallen, FellBack, Current
<1>11. Prepared'
  <2>1. ASSUME NEW o \in Nodes, NEW u \in todo'[o]
        PROVE  u \in Relevant(o) /\ local'[o][u] = LocalReads(u, o)
               /\ remote'[o][u] = RemoteReads(u, o)
    <3>1. CASE o = n /\ u = t
      BY <1>1, <1>3, <3>1
    <3>2. CASE ~(o = n /\ u = t)
      <4>1. u \in todo[o] /\ u \in Txns
        BY <1>0, <1>4, <2>1, <3>2 DEF ScheduleTypeOK
      <4> QED
        BY <1>0, <1>3, <3>2, <4>1 DEF Prepared
    <3> QED
      BY <3>1, <3>2
  <2>2. \A o : Relevant(o)' = Relevant(o)
    BY <1>1 DEF Relevant, RowsAt
  <2> QED
    BY <1>0, <1>1, <1>8, <2>1, <2>2 DEF Prepared
<1>12. Executions'
  <2>1. \A u, o : (Split(u, o)' <=> Split(u, o)) /\ Active(u)' = Active(u)
    BY <1>1 DEF Split, Active, Updates, RowsAt
  <2>2. FellBack' = FellBack /\ \A u : Past(u)' <=> Past(u)
    BY <1>1 DEF Past, FellBack
  <2>3. \A o \in Nodes : todo[o] \subseteq todo'[o]
    BY <1>4
  <2> QED
    BY <1>0, <1>1, <2>1, <2>2, <2>3 DEF Executions
<1>13. Resting'
  BY <1>0, <1>1 DEF Resting, BlindRow, Blinds
<1> QED
  BY <1>0, <1>1, <1>5, <1>6, <1>7, <1>9, <1>10, <1>11, <1>12, <1>13 DEF FallbackInv

\* All nodes begin the fallback with one schedule.
LEMMA EndPrepareKeeps ==
  ASSUME FallbackInv, EndPrepare
  PROVE  FallbackInv'
<1>0. /\ AriaTypes /\ ScheduleTypeOK /\ Outcomes /\ AbortsKnown
      /\ Prepared /\ Executions /\ Resting /\ ProgTypes /\ phase = "PREPARE"
      /\ batch \in Nat
  BY FallbackFacts DEF FallbackInv, EndPrepare
<1>1. /\ batch' = batch /\ prog' = prog /\ todo' = todo /\ dealt' = dealt
      /\ got' = got /\ queue' = queue /\ running' = running /\ local' = local
      /\ remote' = remote /\ input' = input /\ ran' = ran /\ lock' = lock /\ reads' = reads
      /\ step' = step /\ outcome' = outcome /\ db' = db /\ word' = word /\ chan' = chan
      /\ abortLock' = abortLock /\ mail' = mail /\ told' = told
      /\ phase' = "FALLBACK" /\ \A n \in Nodes : todo[n] = Relevant(n)
  BY DEF EndPrepare, exchange, schedOnly
<1>2. ScheduleTypeOK' /\ AriaTypes'
  BY <1>0, <1>1 DEF ScheduleTypeOK, AriaTypes
<1>3. Outcomes'
  BY <1>0, <1>1 DEF Outcomes
<1>4. HomeCounts'
  BY <1>1 DEF HomeCounts
<1>5. AbortsKnown'
  BY <1>0, <1>1 DEF AbortsKnown, Fallen, FellBack, Current
<1>6. Prepared'
  BY <1>1 DEF Prepared, Relevant, RowsAt
<1>7. Executions'
  <2>1. \A u, n : (Split(u, n)' <=> Split(u, n)) /\ Active(u)' = Active(u)
    BY <1>1 DEF Split, Active, Updates, RowsAt
  <2>2. FellBack' = FellBack /\ \A u : Past(u)' <=> Past(u)
    BY <1>0, <1>1 DEF Past, FellBack
  <2> QED
    BY <1>0, <1>1, <2>1, <2>2 DEF Executions
<1>8. AtStart'
  <2>1. ProgTypes'
    BY <1>0, <1>1 DEF ProgTypes
  <2>2. TodoAgreed'
    <3>1. ASSUME NEW o \in Nodes, NEW n \in Nodes, NEW t \in todo[o], RowsAt(t, n) # {}
          PROVE  t \in todo[n]
      BY <1>0, <1>1, <3>1 DEF Relevant, AbortsKnown
    <3> QED
      BY <1>1, <3>1 DEF TodoAgreed, RowsAt
  <2>3. Untouched'
    BY <1>0, <1>1 DEF Resting, Untouched, NothingOut
  <2>4. \A c \in Lanes : reads'[c] = <<>>
    BY <1>0, <1>1 DEF Resting
  <2>5. \A k \in Keys : BlindRow(k)' \/ lock'[k] = Free
    BY <1>0, <1>1 DEF Resting, BlindRow, Blinds
  <2>6. ASSUME NEW n \in Nodes, NEW t \in todo'[n]
        PROVE  ran'[n][t] = 0 /\ local'[n][t] = LocalReads(t, n)'
               /\ remote'[n][t] = RemoteReads(t, n)'
    <3>1. t \in todo[n] /\ t \in Fallen /\ t \in Txns /\ BatchOf[t] = batch
      BY <1>0, <1>1 DEF Relevant, AbortsKnown, Fallen, FellBack, Current
    <3>2. ran[n][t] = 0
      BY <1>0, <3>1 DEF Executions, Past
    <3>3. local[n][t] = LocalReads(t, n) /\ remote[n][t] = RemoteReads(t, n)
      BY <1>0, <3>1 DEF Prepared
    <3> QED
      BY <1>1, <3>2, <3>3 DEF LocalReads, RemoteReads, RowsAt
  <2> QED
    BY <1>2, <2>1, <2>2, <2>3, <2>4, <2>5, <2>6 DEF AtStart
<1>9. CountInv'
  BY <1>8, ScheduleBegins
<1> QED
  BY <1>1, <1>2, <1>3, <1>4, <1>5, <1>6, <1>7, <1>9 DEF FallbackInv


\* Only what is in the schedule of a node is executed there.
LEMMA RunsScheduled ==
  ASSUME CountInv, ScheduleNext, NEW n \in Nodes, NEW t \in Txns, t \notin todo[n]
  PROVE  ran'[n][t] = ran[n][t]
<1>1. ScheduleTypeOK /\ HandedOut /\ DealtInOrder
  BY DEF CountInv, LockInv
<1>2. ASSUME NEW o \in Nodes, NEW w \in Executors, Commit(o, w)
      PROVE  ran'[n][t] = ran[n][t]
  <2>1. /\ running[o][w] # NoTxn
        /\ ran' = [ran EXCEPT ![o][running[o][w]] = @ + 1]
    BY <1>2 DEF Commit
  <2>2. running[o][w] \in todo[o]
    BY <1>1, <2>1, WorkersServe DEF HandedOut, DealtInOrder
  <2>3. ~(o = n /\ running[o][w] = t)
    BY <2>2
  <2>4. ran \in [Nodes -> [Txns -> Nat]] /\ running[o][w] \in Txns /\ ran[o][running[o][w]] + 1 \in Nat
    BY <1>1, <2>2 DEF ScheduleTypeOK
  <2> QED
    BY <2>1, <2>3, <2>4, Replaced
<1>3. ASSUME NEW o \in Nodes, NEW m \in Managers, Manage(o, m)
      PROVE  ran'[n][t] = ran[n][t]
  BY <1>3 DEF Manage, Assign, Grant
<1>4. ASSUME NEW o \in Nodes, NEW w \in Executors, Begin(o, w) \/ Abort(o, w)
      PROVE  ran'[n][t] = ran[n][t]
  BY <1>4 DEF Begin, Abort
<1>5. ASSUME NEW c \in Lanes, ReadRequest(c)
      PROVE  ran'[n][t] = ran[n][t]
  BY <1>5 DEF ReadRequest
<1> QED
  BY <1>2, <1>3, <1>4, <1>5 DEF ScheduleNext, Execute

LEMMA FallbackKeeps ==
  ASSUME FallbackInv, Fallback
  PROVE  FallbackInv'
<1>0. /\ AriaTypes /\ ScheduleTypeOK /\ Outcomes /\ AbortsKnown
      /\ Prepared /\ Executions /\ ProgTypes /\ batch \in Nat
  BY FallbackFacts
<1>1. /\ phase = "FALLBACK" /\ CountInv
      /\ batch' = batch /\ phase' = phase /\ prog' = prog /\ step' = step
      /\ outcome' = outcome /\ word' = word /\ chan' = chan
      /\ abortLock' = abortLock /\ mail' = mail /\ told' = told /\ todo' = todo
      /\ ScheduleNext
  <2>1. /\ phase = "FALLBACK" /\ UNCHANGED <<ariaOnly, exchange, todo>>
        /\ ScheduleNext
    BY DEF Fallback, CalvinAssign, CalvinGrant, CalvinBegin, CalvinCommit, CalvinAbort,
           CalvinReadRequest, ScheduleNext, Manage, Execute
  <2> QED
    BY <2>1 DEF FallbackInv, ariaOnly, exchange
<1>2. CountInv' /\ ScheduleTypeOK'
  BY <1>0, <1>1, CountInvStep DEF ScheduleStep, CountInv, LockInv
<1>3. AriaTypes'
  BY <1>0, <1>1 DEF AriaTypes
<1>4. Outcomes' /\ HomeCounts'
  BY <1>0, <1>1 DEF Outcomes, HomeCounts
<1>5. AbortsKnown'
  BY <1>0, <1>1 DEF AbortsKnown, Fallen, FellBack, Current
<1>6. Prepared'
  BY <1>0, <1>1 DEF Prepared, Relevant, RowsAt
<1>7. Executions'
  <2>1. \A u, n : (Split(u, n)' <=> Split(u, n)) /\ Active(u)' = Active(u)
    BY <1>1 DEF Split, Active, Updates, RowsAt
  <2>2. FellBack' = FellBack /\ \A u : Past(u)' <=> Past(u)
    BY <1>1 DEF Past, FellBack
  <2>3. ASSUME NEW n \in Nodes, NEW t \in todo[n]
        PROVE  t \in FellBack /\ ~Past(t)
    BY <1>0, <1>1, <2>3 DEF Prepared, Relevant, AbortsKnown, Fallen, Current, Past
  <2>4. \A n \in Nodes, t \in Txns : t \notin todo[n] => ran'[n][t] = ran[n][t]
    BY <1>1, RunsScheduled
  <2> QED
    BY <1>0, <1>1, <2>1, <2>2, <2>3, <2>4 DEF Executions
<1> QED
  BY <1>1, <1>2, <1>3, <1>4, <1>5, <1>6, <1>7 DEF FallbackInv

\* The barrier finds everybody done.
LEMMA EndFallbackKeeps ==
  ASSUME FallbackInv, EndFallback
  PROVE  FallbackInv'
<1>0. /\ AriaTypes /\ ScheduleTypeOK /\ Outcomes /\ AbortsKnown
      /\ Prepared /\ Executions /\ ProgTypes /\ phase = "FALLBACK" /\ CountInv
      /\ batch \in Nat /\ NBatches \in Nat /\ batch <= NBatches
      /\ \A t \in Txns : BatchOf[t] \in Nat /\ BatchOf[t] <= NBatches
  BY FallbackFacts DEF FallbackInv, EndFallback
<1>1. /\ prog' = prog /\ got' = got /\ queue' = queue /\ running' = running
      /\ local' = local /\ remote' = remote /\ input' = input /\ ran' = ran
      /\ lock' = lock /\ reads' = reads /\ step' = step /\ outcome' = outcome
      /\ db' = db /\ word' = word /\ chan' = chan /\ mail' = mail /\ told' = told
      /\ ScheduleDone
      /\ \/ batch < NBatches /\ batch' = batch + 1 /\ phase' = "READ"
         \/ ~(batch < NBatches) /\ batch' = batch /\ phase' = "DONE"
      /\ abortLock' = [n \in Nodes |-> {}]
      /\ todo' = [n \in Nodes |-> {}]
      /\ dealt' = [n \in Nodes |-> [m \in Managers |-> {}]]
  BY DEF EndFallback
<1>2. /\ \A n \in Nodes, m \in Managers : got[n][m] = {}
      /\ NothingOut
      /\ \A n \in Nodes : \A t \in todo[n] : n \in Active(t) => ran[n][t] > 0
      /\ \A c \in Lanes : reads[c] = <<>>
  BY <1>0, <1>1, DoneFacts
<1>3. ScheduleTypeOK'
  BY <1>0, <1>1 DEF ScheduleTypeOK
<1>4. AriaTypes'
  <2>1. batch' \in 1..NBatches
    BY <1>0, <1>1 DEF AriaTypes
  <2> QED
    BY <1>0, <1>1, <2>1 DEF AriaTypes
<1>5. Outcomes'
  <2>1. ASSUME NEW t \in Txns
        PROVE  /\ BatchOf[t] < batch' => step[t] = 4
               /\ BatchOf[t] > batch' => step[t] = 0
               /\ BatchOf[t] = batch' /\ phase' \notin {"READ", "COMMIT"} => step[t] = 4
               /\ BatchOf[t] = batch' /\ phase' = "READ" => outcome[t] \in {"none", "no_retry"}
    <3>1. /\ BatchOf[t] <= batch => step[t] = 4
          /\ BatchOf[t] > batch => step[t] = 0 /\ outcome[t] = "none"
      BY <1>0 DEF Outcomes, Aria!Generated, Aria!Decided
    <3> QED
      BY <1>0, <1>1, <3>1
  <2> QED
    BY <1>0, <1>1, <2>1 DEF Outcomes, Aria!Generated, Aria!Decided
<1>6. HomeCounts'
  <2>1. CASE phase' = "READ"
    <3>1. \A t \in Txns : BatchOf[t] = batch' => step[t] = 0
      BY <1>0, <1>1, <2>1 DEF Outcomes, Aria!Generated
    <3> QED
      BY <1>1, <3>1 DEF HomeCounts, Current, Aria!Executed
  <2>2. CASE phase' = "DONE"
    BY <2>2 DEF HomeCounts
  <2> QED
    BY <1>1, <2>1, <2>2
<1>7. AbortsKnown'
  BY <1>0, <1>1 DEF AbortsKnown
<1>8. Prepared'
  BY <1>1 DEF Prepared
<1>9. Executions'
  <2>1. \A u, n : (Split(u, n)' <=> Split(u, n)) /\ Active(u)' = Active(u)
    BY <1>1 DEF Split, Active, Updates, RowsAt
  <2>2. FellBack' = FellBack /\ \A t \in Txns : Past(t)' <=> BatchOf[t] <= batch
    BY <1>0, <1>1 DEF Past, FellBack
  <2>3. ASSUME NEW n \in Nodes, NEW t \in Txns, BatchOf[t] <= batch, t \in FellBack,
               n \in Active(t)
        PROVE  ran[n][t] = 1 \/ (ran[n][t] > 1 /\ Split(t, n))
    <3>1. CASE BatchOf[t] < batch
      BY <1>0, <2>3, <3>1 DEF Executions, Past
    <3>2. CASE BatchOf[t] = batch
      <4>1. PICK k \in RowsAt(t, n) : TRUE
        BY <2>3 DEF Active, Updates, RowsAt
      <4>2. t \in todo[n]
        BY <1>0, <2>3, <3>2, <4>1 DEF Prepared, Relevant, AbortsKnown, Fallen, Current
      <4>3. ran[n][t] > 0 /\ ran[n][t] \in Nat
        BY <1>0, <1>2, <2>3, <4>2 DEF ScheduleTypeOK
      <4>4. ~Split(t, n) => ran[n][t] <= 1
        BY <1>0, <2>3, <4>1, <4>2 DEF CountInv, RunsCounted
      <4> QED
        BY <4>3, <4>4
    <3> QED
      BY <1>0, <2>3, <3>1, <3>2
  <2>4. ASSUME NEW n \in Nodes, NEW t \in Txns, ~(BatchOf[t] <= batch)
        PROVE  ran[n][t] = 0
    <3>1. t \notin todo[n] /\ ~Past(t)
      BY <1>0, <2>4 DEF Prepared, Relevant, AbortsKnown, Fallen, Current, Past
    <3> QED
      BY <1>0, <3>1 DEF Executions
  <2>5. \A n \in Nodes, t \in Txns : t \notin FellBack => ran[n][t] = 0
    BY <1>0 DEF Executions
  <2> QED
    BY <1>1, <2>1, <2>2, <2>3, <2>4, <2>5 DEF Executions
<1>10. Resting'
  <2>1. ASSUME NEW k \in Keys PROVE BlindRow(k) \/ lock[k] = Free
    <3>1. \A t \in Txns : ~Holds(t, k)
      BY <1>2, NobodyHolds DEF NothingOut
    <3>2. BlindRow(k) \/ RowExact(k)
      BY <1>0, RowsExact DEF CountInv, LockInv
    <3>3. \A j \in Keys, t \in Txns : ~Holds(t, j)
      BY <1>2, NobodyHolds DEF NothingOut
    <3> QED
      BY <3>2, <3>3, FreeRows
  <2> QED
    BY <1>1, <1>2, <2>1 DEF Resting, NothingOut, BlindRow, Blinds
<1> QED
  BY <1>1, <1>3, <1>4, <1>5, <1>6, <1>7, <1>8, <1>9, <1>10 DEF FallbackInv

-----------------------------------------------------------------------------
LEMMA FallbackBegins == AriaFBInit => FallbackInv
<1> SUFFICES ASSUME AriaFBInit PROVE FallbackInv
  OBVIOUS
<1>1. /\ batch = 1 /\ phase = "READ" /\ prog \in [Txns -> Programs]
      /\ step = [t \in Txns |-> 0] /\ outcome = [t \in Txns |-> "none"]
      /\ word = [k \in Keys |-> Aria!ZeroWord] /\ db = [k \in Keys |-> NoTxn]
      /\ chan = [c \in Aria!Channels |-> <<>>]
      /\ todo = [n \in Nodes |-> {}]
      /\ dealt = [n \in Nodes |-> [m \in Managers |-> {}]]
      /\ got = [n \in Nodes |-> [m \in Managers |-> {}]]
      /\ queue = [n \in Nodes |-> [w \in Executors |-> <<>>]]
      /\ running = [n \in Nodes |-> [w \in Executors |-> NoTxn]]
      /\ local = [n \in Nodes |-> [t \in Txns |-> 0]]
      /\ remote = [n \in Nodes |-> [t \in Txns |-> 0]]
      /\ input = [n \in Nodes |-> [t \in Txns |-> [k \in Keys |-> NoTxn]]]
      /\ ran = [n \in Nodes |-> [t \in Txns |-> 0]]
      /\ lock = [k \in Keys |-> Free]
      /\ reads = [c \in Lanes |-> <<>>]
      /\ abortLock = [n \in Nodes |-> {}] /\ mail = {} /\ told = {}
  BY DEF AriaFBInit, Aria!Init, Aria!Generated
<1>2. ScheduleTypeOK
  BY <1>1 DEF ScheduleTypeOK, Free
<1>3. AriaTypes
  <2>1. Aria!ZeroWord \in Aria!Word
    BY DEF Aria!ZeroWord, Aria!Word
  <2> QED
    BY <1>1, <2>1, BatchAssumption DEF AriaTypes, Aria!Generated, Aria!Decided
<1>4. Outcomes
  <2>1. \A t \in Txns : BatchOf[t] \in 1..NBatches
    BY BatchAssumption
  <2> QED
    BY <1>1, <2>1, BatchAssumption DEF Outcomes, Aria!Generated, Aria!Decided
<1>5. HomeCounts
  BY <1>1 DEF HomeCounts, Current, Aria!Executed
<1>6. AbortsKnown
  BY <1>1 DEF AbortsKnown
<1>7. Prepared
  BY <1>1 DEF Prepared
<1>8. Executions
  <2>1. \A t \in Txns : ~Past(t) /\ t \notin FellBack
    BY <1>1, BatchAssumption DEF Past, FellBack
  <2> QED
    BY <1>1, <2>1 DEF Executions
<1>9. Resting
  BY <1>1 DEF Resting
<1> QED
  BY <1>1, <1>2, <1>3, <1>4, <1>5, <1>6, <1>7, <1>8, <1>9 DEF FallbackInv

LEMMA FallbackStutters ==
  ASSUME FallbackInv, UNCHANGED ariaFBVars
  PROVE  FallbackInv'
<1>1. /\ UNCHANGED <<batch, phase, prog, exchange, todo, schedOnly>>
      /\ step' = step /\ outcome' = outcome /\ word' = word /\ chan' = chan /\ db' = db
      /\ abortLock' = abortLock /\ local' = local /\ remote' = remote
  BY DEF ariaFBVars, aria, schedOnly, exchange
<1>2. AriaTypes /\ ScheduleTypeOK /\ Outcomes /\ HomeCounts
  BY FallbackFacts
<1>3. AriaTypes' /\ FellBack' = FellBack /\ db' \in [Keys -> Txns \cup {NoTxn}]
  BY <1>1, <1>2 DEF AriaTypes, FellBack, ScheduleTypeOK
<1>4. Outcomes' /\ HomeCounts'
  BY <1>1, <1>2 DEF Outcomes, HomeCounts, Current, LocalReads, RemoteReads, RowsAt
<1> QED
  BY <1>1, <1>3, <1>4, QuietStep

LEMMA FallbackStep ==
  ASSUME FallbackInv, [AriaFBNext]_ariaFBVars
  PROVE  FallbackInv'
<1>1. ASSUME NEW t \in Txns, Work(t) PROVE FallbackInv'
  BY <1>1, RollbackKeeps, ExecuteKeeps, ReserveKeeps, AnalyzeKeeps, CommitKeeps, AbortKeeps
     DEF Work
<1>2. ASSUME NEW c \in Aria!Channels, Process(c) PROVE FallbackInv'
  BY <1>2, ProcessKeeps
<1>3. ASSUME NEW n \in Nodes, NEW t \in Txns, Prepare(n, t) PROVE FallbackInv'
  BY <1>3, PrepareKeeps
<1>4. CASE Barrier
  BY <1>4, EndReadKeeps, EndCommitKeeps, EndExchangeKeeps, EndPrepareKeeps, EndFallbackKeeps
     DEF Barrier
<1> QED
  BY <1>1, <1>2, <1>3, <1>4, ExchangeKeeps, FallbackKeeps, FallbackStutters DEF AriaFBNext

\* The inductive invariant of AriaFB holds: from the aborts of Aria to the end of
\* the fallback.
THEOREM FallbackInvHolds == AriaFBSpec => []FallbackInv
<1>1. AriaFBInit => FallbackInv
  BY FallbackBegins
<1>2. FallbackInv /\ [AriaFBNext]_ariaFBVars => FallbackInv'
  BY FallbackStep
<1> QED
  BY <1>1, <1>2, PTL DEF AriaFBSpec

\* AriaFB executes what Aria has aborted, all of it and once: the exchange of the
\* ids, prepare_calvin_input and run_calvin_transactions.
THEOREM NobodyDroppedHolds == AriaFBSpec => []NobodyDropped
<1>1. FallbackInv => NobodyDropped
  <2> SUFFICES ASSUME FallbackInv PROVE NobodyDropped
    OBVIOUS
  <2>1. /\ AriaTypes /\ ScheduleTypeOK /\ Outcomes /\ AbortsKnown /\ Executions
        /\ batch \in Nat /\ \A t \in Txns : BatchOf[t] \in Nat
    BY FallbackFacts
  <2>2. TypeOK
    BY <2>1 DEF TypeOK, AriaTypes, AbortsKnown
  <2>3. phase \in {"PREPARE", "FALLBACK"} =>
          \A n \in Nodes : abortLock[n] = FellBack \cap Current
    BY <2>1 DEF AbortsKnown, Fallen
  <2>4. \A t \in Txns, n \in Nodes : t \notin FellBack => ran[n][t] = 0
    BY <2>1 DEF Executions
  <2>5. ASSUME phase \in {"READ", "DONE"}, NEW t \in FellBack, NEW n \in Active(t)
        PROVE  ran[n][t] = 1 \/ (ran[n][t] > 1 /\ Split(t, n))
    <3>1. t \in Txns /\ outcome[t] = "aborted"
      BY DEF FellBack
    <3>2. Past(t)
      BY <2>1, <2>5, <3>1 DEF Outcomes, Past, Aria!Generated, Aria!Decided
    <3>3. n \in Nodes
      BY <3>1, FallbackFacts, LayoutAssumption DEF Active, Updates, ProgTypes
    <3> QED
      BY <2>1, <3>1, <3>2, <3>3 DEF Executions
  <2> QED
    BY <2>2, <2>3, <2>4, <2>5 DEF NobodyDropped
<1> QED
  BY <1>1, FallbackInvHolds, PTL

-----------------------------------------------------------------------------
(* The words that the lock managers of AriaFB test.                        *)

OthersOnly == \A c \in Aria!Channels : chan[c] \in Seq(Others)

\* Messages that reserve nothing are sent.
LEMMA OthersSent ==
  ASSUME OthersOnly, NEW msgs \in SUBSET Aria!Message, IsFiniteSet(msgs),
         \A m \in msgs : m.type # "RESERVE", Aria!Send(msgs)
  PROVE  OthersOnly'
<1>1. ASSUME NEW c \in Aria!Channels
      PROVE  chan[c] \o Aria!SetToSeq({m \in msgs : Aria!Route(m) = c}) \in Seq(Others)
  <2> DEFINE T == {m \in msgs : Aria!Route(m) = c}
  <2>1. IsFiniteSet(T) /\ T \subseteq Others
    BY FS_Subset DEF Others
  <2> HIDE DEF T
  <2>2. Aria!SetToSeq(T) \in Seq(Others)
    <3>1. Aria!SetToSeq(T) \in Seq(T)
      BY <2>1, AriaSequence
    <3> QED
      BY <2>1, <3>1
  <2>3. chan[c] \in Seq(Others)
    BY DEF OthersOnly
  <2>4. chan[c] \o Aria!SetToSeq(T) \in Seq(Others)
    BY <2>2, <2>3
  <2> QED
    BY <2>4 DEF T
<1> QED
  BY <1>1 DEF Aria!Send, OthersOnly

\* A handler answers with a message of the type it has taken.
LEMMA OthersTaken ==
  ASSUME FallbackInv, OthersOnly, NEW c \in Aria!Channels, Process(c)
  PROVE  OthersOnly' /\ word' = word
<1> DEFINE m == Head(chan[c])
<1>0. /\ AriaTypes /\ ScheduleTypeOK /\ AriaChannels
      /\ \A t \in Txns : BatchOf[t] \in Nat
  BY FallbackFacts
<1>1. chan[c] \in Seq(Others) /\ chan[c] # <<>>
  BY DEF OthersOnly, Process, SearchRequest, SearchResponse, ReserveRequest, CheckRequest,
         CheckResponse, WriteRequest, Aria!SearchRequest, Aria!SearchResponse,
         Aria!ReserveRequest, Aria!CheckRequest, Aria!CheckResponse, Aria!WriteRequest,
         Aria!Take
<1>2. m \in Others /\ Tail(chan[c]) \in Seq(Others)
  BY <1>1
<1>3. m.type # "RESERVE"
  BY <1>2 DEF Others
<1> HIDE DEF m
<1>4. ASSUME Aria!Drop(c) PROVE OthersOnly'
  BY <1>0, <1>2, <1>4 DEF Aria!Drop, OthersOnly, AriaChannels
<1>5. ASSUME NEW val \in Txns \cup {NoTxn}, NEW found \in SUBSET Aria!Flags,
             Aria!Reply(c, m, val, found)
      PROVE  OthersOnly'
  <2> DEFINE a == [m EXCEPT !.answer = TRUE, !.val = val, !.found = found]
             b == Aria!Back(c)
  <2>1. a \in Others
    BY <1>2, <1>5 DEF Others, Aria!Message
  <2>2. b \in Aria!Channels /\ b # c
    BY DEF Aria!Channels, Aria!Back
  <2> HIDE DEF a, b
  <2>3. chan' = [chan EXCEPT ![c] = Tail(chan[c]), ![b] = Append(chan[b], a)]
    BY <1>0, <1>5, <2>2 DEF Aria!Reply, a, b, AriaChannels
  <2>4. Append(chan[b], a) \in Seq(Others)
    <3>1. chan[b] \in Seq(Others)
      BY <2>2 DEF OthersOnly
    <3> QED
      BY <2>1, <3>1
  <2> QED
    BY <1>0, <1>2, <2>2, <2>3, <2>4 DEF OthersOnly, AriaChannels
<1>6. CASE SearchRequest(c)
  <2>1. Aria!Reply(c, m, db[m.key], {}) /\ word' = word
    BY <1>6 DEF SearchRequest, Aria!SearchRequest, m
  <2>2. db[m.key] \in Txns \cup {NoTxn}
    BY <1>0, <1>2 DEF ScheduleTypeOK, Others, Aria!Message
  <2> QED
    BY <1>5, <2>1, <2>2
<1>7. CASE CheckRequest(c)
  <2> DEFINE found == IF m.write
                        THEN Aria!WriteFlags(word[m.key], BatchOf[m.txn], Tid[m.txn])
                        ELSE Aria!ReadFlags(word[m.key], BatchOf[m.txn], Tid[m.txn])
  <2>1. Aria!Reply(c, m, NoTxn, found) /\ word' = word
    BY <1>7 DEF CheckRequest, Aria!CheckRequest, m
  <2>2. m.txn \in Txns /\ word[m.key] \in Aria!Word
    BY <1>0, <1>2 DEF AriaTypes, Others, Aria!Message
  <2>3. found \in SUBSET Aria!Flags
    BY <1>0, <2>2, AriaWords
  <2> HIDE DEF found
  <2> QED
    BY <1>5, <2>1, <2>3
<1>8. CASE SearchResponse(c) \/ CheckResponse(c) \/ WriteRequest(c)
  BY <1>4, <1>8 DEF SearchResponse, CheckResponse, WriteRequest, Aria!SearchResponse,
                    Aria!CheckResponse, Aria!WriteRequest
<1>9. ~ReserveRequest(c)
  BY <1>3 DEF ReserveRequest, Aria!ReserveRequest, Aria!Take, m
<1> QED
  BY <1>6, <1>7, <1>8, <1>9 DEF Process

\* A worker in COMMIT asks for flags, or sends a write.
LEMMA OthersCommitted ==
  ASSUME FallbackInv, OthersOnly, NEW t \in Txns, phase = "COMMIT", Work(t)
  PROVE  OthersOnly'
<1>1. \/ chan' = chan
      \/ \E asked \in SUBSET Aria!Remote(t, Aria!Reads(t)) :
           Aria!Send(Aria!Requests("CHECK", t, asked, FALSE) \cup
                     Aria!Requests("CHECK", t, Aria!Remote(t, Aria!Writes(t)), TRUE))
      \/ Aria!Send(Aria!Requests("WRITE", t, Aria!Remote(t, Aria!Writes(t)), TRUE))
  BY DEF Work, AriaRollback, AriaExecute, AriaReserve, AriaAnalyze, AriaCommit, AriaAbort,
         Aria!Rollback, Aria!Execute, Aria!Reserve, Aria!Analyze, Aria!Commit, Aria!Abort,
         Aria!Ask
<1>2. Aria!Remote(t, Aria!Writes(t)) \in SUBSET Keys /\ "CHECK" \in Aria!Types
      /\ "WRITE" \in Aria!Types
  BY AriaRows DEF Aria!Types
<1>3. \A type, keys, write : \A m \in Aria!Requests(type, t, keys, write) : m.type = type
  BY DEF Aria!Requests
<1>4. CASE chan' = chan
  BY <1>4 DEF OthersOnly
<1>5. ASSUME NEW asked \in SUBSET Aria!Remote(t, Aria!Reads(t)),
             Aria!Send(Aria!Requests("CHECK", t, asked, FALSE) \cup
                       Aria!Requests("CHECK", t, Aria!Remote(t, Aria!Writes(t)), TRUE))
      PROVE  OthersOnly'
  <2> DEFINE r == Aria!Requests("CHECK", t, asked, FALSE)
             w == Aria!Requests("CHECK", t, Aria!Remote(t, Aria!Writes(t)), TRUE)
  <2>1. asked \in SUBSET Keys
    BY <1>5, AriaRows
  <2>2. /\ r \subseteq Aria!Message /\ IsFiniteSet(r)
        /\ w \subseteq Aria!Message /\ IsFiniteSet(w)
    BY <1>2, <2>1, AriaRequests
  <2>3. Aria!Send(r \cup w) /\ \A m \in r \cup w : m.type # "RESERVE"
    BY <1>3, <1>5
  <2> HIDE DEF r, w
  <2>4. IsFiniteSet(r \cup w) /\ (r \cup w) \in SUBSET Aria!Message
    BY <2>2, FS_Union
  <2> QED
    BY <2>3, <2>4, OthersSent
<1>6. CASE Aria!Send(Aria!Requests("WRITE", t, Aria!Remote(t, Aria!Writes(t)), TRUE))
  <2> DEFINE w == Aria!Requests("WRITE", t, Aria!Remote(t, Aria!Writes(t)), TRUE)
  <2>1. w \in SUBSET Aria!Message /\ IsFiniteSet(w)
    BY <1>2, AriaRequests
  <2>2. Aria!Send(w) /\ \A m \in w : m.type # "RESERVE"
    BY <1>3, <1>6
  <2> HIDE DEF w
  <2> QED
    BY <2>1, <2>2, OthersSent
<1> QED
  BY <1>1, <1>4, <1>5, <1>6

Cleared ==
  \A n \in Nodes : \A t \in todo[n] : \A k \in RowsAt(t, n) : word[k] = Aria!ZeroWord

\* WordsCleared, by its parts.
LEMMA ClearedParts ==
  WordsCleared <=> \/ lateReserve
                   \/ /\ phase # "READ" => OthersOnly
                      /\ phase \in {"PREPARE", "FALLBACK"} => Cleared
BY DEF WordsCleared, OthersOnly, Cleared

LEMMA ClearedBegins == AriaFBInit => WordsCleared
BY DEF AriaFBInit, Aria!Init, WordsCleared

LEMMA ClearedStep ==
  ASSUME FallbackInv, WordsCleared, [AriaFBNext]_ariaFBVars
  PROVE  WordsCleared'
<1>0. (WordsCleared <=> \/ lateReserve
                        \/ /\ phase # "READ" => OthersOnly
                           /\ phase \in {"PREPARE", "FALLBACK"} => Cleared)'
  BY ClearedParts, PTL
<1>1. /\ lateReserve \/ ((phase # "READ" => OthersOnly) /\
                         (phase \in {"PREPARE", "FALLBACK"} => Cleared))
      /\ WordsCleared' <=> \/ lateReserve'
                           \/ /\ phase' # "READ" => OthersOnly'
                              /\ phase' \in {"PREPARE", "FALLBACK"} => Cleared'
  BY <1>0, ClearedParts
<1>2. ASSUME NEW t \in Txns, Work(t) PROVE WordsCleared'
  <2>1. /\ phase' = phase /\ lateReserve' = lateReserve /\ phase \in {"READ", "COMMIT"}
    BY <1>2 DEF Work, AriaRollback, AriaExecute, AriaReserve, AriaAnalyze, AriaCommit,
         AriaAbort, Aria!Rollback, Aria!Execute, Aria!Reserve, Aria!Analyze, Aria!Commit,
         Aria!Abort, Aria!late
  <2> QED
    BY <1>1, <1>2, <2>1, OthersCommitted
<1>3. ASSUME NEW c \in Aria!Channels, Process(c) PROVE WordsCleared'
  <2>1. UNCHANGED <<phase, lateReserve, prog, todo>>
    BY <1>3 DEF Process, SearchRequest, SearchResponse, ReserveRequest, CheckRequest,
         CheckResponse, WriteRequest, Aria!SearchRequest, Aria!SearchResponse,
         Aria!ReserveRequest, Aria!CheckRequest, Aria!CheckResponse, Aria!WriteRequest,
         Aria!late
  <2>2. OthersOnly => OthersOnly' /\ (Cleared => Cleared')
    <3> SUFFICES ASSUME OthersOnly PROVE OthersOnly' /\ (Cleared => Cleared')
      OBVIOUS
    <3>1. OthersOnly' /\ word' = word
      BY <1>3, OthersTaken
    <3> QED
      BY <2>1, <3>1 DEF Cleared, RowsAt
  <2> QED
    BY <1>1, <2>1, <2>2
<1>4. ASSUME NEW n \in Nodes, NEW t \in Txns, Prepare(n, t) PROVE WordsCleared'
  <2>1. /\ UNCHANGED <<phase, lateReserve, prog, chan>> /\ phase = "PREPARE"
        /\ todo' = [todo EXCEPT ![n] = @ \cup {t}]
        /\ word' = [k \in Keys |-> IF k \in RowsAt(t, n) THEN Aria!ZeroWord ELSE word[k]]
    BY <1>4 DEF Prepare
  <2>2. OthersOnly => OthersOnly'
    BY <2>1 DEF OthersOnly
  <2>3. ASSUME Cleared PROVE Cleared'
    <3>1. todo \in [Nodes -> SUBSET Txns] /\ ProgTypes
      BY FallbackFacts DEF ScheduleTypeOK
    <3> SUFFICES ASSUME NEW o \in Nodes, NEW u \in todo'[o], NEW k \in RowsAt(u, o)
                 PROVE  word'[k] = Aria!ZeroWord
      BY <2>1 DEF Cleared, RowsAt
    <3>2. u \in todo[o] \/ (o = n /\ u = t)
      BY <2>1, <3>1
    <3>3. k \in Keys
      BY <3>1, <3>2 DEF RowsAt, ProgTypes
    <3> QED
      BY <2>1, <2>3, <3>2, <3>3 DEF Cleared
  <2> QED
    BY <1>1, <2>1, <2>2, <2>3
<1>5. CASE Exchange \/ Fallback \/ UNCHANGED ariaFBVars
  <2>1. UNCHANGED <<phase, lateReserve, prog, chan, word, todo>>
    <3>1. CASE Exchange
      BY <3>1 DEF Exchange, SendAborts, TakeAborts, Broadcast, TakeUnion, aria
    <3>2. CASE Fallback
      BY <3>2 DEF Fallback, CalvinAssign, CalvinGrant, CalvinBegin, CalvinCommit,
                  CalvinAbort, CalvinReadRequest, ariaOnly
    <3>3. CASE UNCHANGED ariaFBVars
      BY <3>3 DEF ariaFBVars, aria
    <3> QED
      BY <1>5, <3>1, <3>2, <3>3
  <2>2. (OthersOnly => OthersOnly') /\ (Cleared => Cleared')
    BY <2>1 DEF OthersOnly, Cleared, RowsAt
  <2> QED
    BY <1>1, <2>1, <2>2
<1>6. CASE EndRead
  <2>1. /\ phase' = "COMMIT" /\ chan' = chan
        /\ lateReserve' = (lateReserve \/ Aria!InFlight("RESERVE"))
    BY <1>6 DEF EndRead, Aria!EndRead
  <2>2. ASSUME ~Aria!InFlight("RESERVE") PROVE OthersOnly'
    <3>1. ASSUME NEW c \in Aria!Channels PROVE chan[c] \in Seq(Others)
      <4>1. chan[c] \in Seq(Aria!Message)
        BY FallbackFacts DEF AriaChannels
      <4>2. \A i \in 1..Len(chan[c]) : chan[c][i] \in Others
        BY <2>2, <4>1 DEF Aria!InFlight, Others
      <4> QED
        BY <4>1, <4>2
    <3> QED
      BY <2>1, <3>1 DEF OthersOnly
  <2> QED
    BY <1>1, <2>1, <2>2
<1>7. CASE EndCommit \/ EndExchange \/ EndPrepare \/ EndFallback
  <2>1. /\ UNCHANGED <<lateReserve, prog, chan, word>> /\ phase # "READ"
        /\ \/ phase' \in {"EXCHANGE", "READ", "DONE"}
           \/ phase = "EXCHANGE" /\ todo' = todo
           \/ phase = "PREPARE" /\ todo' = todo
    BY <1>7 DEF EndCommit, EndExchange, EndPrepare, EndFallback
  <2>2. OthersOnly => OthersOnly'
    BY <2>1 DEF OthersOnly
  <2>3. CASE phase' \in {"EXCHANGE", "READ", "DONE"}
    BY <1>1, <2>1, <2>2, <2>3
  <2>4. CASE phase = "EXCHANGE" /\ todo' = todo
    <3>1. \A n \in Nodes : todo'[n] = {}
      BY <2>4, FallbackFacts DEF Prepared
    <3>2. Cleared'
      BY <3>1 DEF Cleared
    <3> QED
      BY <1>1, <2>1, <2>2, <3>2
  <2>5. CASE phase = "PREPARE" /\ todo' = todo
    <3>1. Cleared => Cleared'
      BY <2>1, <2>5 DEF Cleared, RowsAt
    <3> QED
      BY <1>1, <2>1, <2>2, <2>5, <3>1
  <2> QED
    BY <2>1, <2>3, <2>4, <2>5
<1> QED
  BY <1>2, <1>3, <1>4, <1>5, <1>6, <1>7 DEF AriaFBNext, Barrier

\* What Prepare has cleared of reservations stays so until the fallback is over.
LEMMA WordsClearedHolds == AriaFBSpec => []WordsCleared
<1>1. AriaFBInit => WordsCleared
  BY ClearedBegins
<1>2. FallbackInv /\ WordsCleared /\ [AriaFBNext]_ariaFBVars => WordsCleared'
  BY ClearedStep
<1> QED
  BY <1>1, <1>2, FallbackInvHolds, PTL DEF AriaFBSpec

\* The lock bits of AriaFB: prepare_calvin_input clears the words they are put
\* in, calvin_commit and calvin_abort leave none behind.
THEOREM AriaFBLocksExactHolds == AriaFBSpec => []AriaFBLocksExact
<1>1. FallbackInv /\ WordsCleared => AriaFBLocksExact
  <2> SUFFICES ASSUME FallbackInv, WordsCleared PROVE AriaFBLocksExact
    OBVIOUS
  <2>1. CASE phase = "FALLBACK"
    BY <2>1 DEF FallbackInv, CountInv, LockInv, AriaFBLocksExact, WordsCleared
  <2>2. CASE phase # "FALLBACK"
    <3>1. Resting
      BY <2>2 DEF FallbackInv
    <3>2. \A k \in Keys, t \in Txns : ~Holds(t, k)
      BY <3>1, NobodyHolds DEF Resting
    <3>3. RowLocksExact
      BY <3>1, <3>2, FreeRows, RowsExact DEF Resting
    <3>4. Assumed => Unlocked(Keys) /\ \A c \in Lanes : reads[c] = <<>>
      BY <3>1 DEF Resting, Assumed, Unlocked, BlindRow
    <3> QED
      BY <2>2, <3>3, <3>4 DEF AriaFBLocksExact
  <2> QED
    BY <2>1, <2>2
<1> QED
  BY <1>1, FallbackInvHolds, WordsClearedHolds, PTL
=============================================================================
