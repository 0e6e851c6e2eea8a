---------------------- MODULE MicroBlockPartition_proofs ----------------------
(***************************************************************************)
(* The partition of PRDCC is correct for any number of transactions and    *)
(* workers and any conflicts: the graph is complete when it is used, and   *)
(* the greedy partition keeps what it promises.                            *)
(***************************************************************************)
EXTENDS MicroBlockPartition, ConflictPrediction, TLAPS

Ascending(s) == \A i, j \in 1..Len(s) : i < j => s[i] < s[j]

\* No element comes later than its id allows: it bounds the length of a list.
Above(s) == \A i \in 1..Len(s) : i <= s[i]

\* What has been scanned is smaller than what has not.
Behind(s) ==
  \A i \in 1..Len(s) : \A k \in at..Len(remaining) : s[i] < remaining[k]

Apart(es, s) ==
  \A e \in es : Separates(e[3]) => ~(Member(e[1], s) /\ Member(e[2], s))

Cause(es, t, s) ==
  \E e \in es : e[2] = t /\ Separates(e[3]) /\ Member(e[1], s)

\* An edge is in the graph or with the worker that has found it.
GraphInv ==
  /\ pc = "prepare" => predicted = {}
  /\ pc = "predict" => enabled
  /\ pc # "predict" => \A w \in Workers : edges[w] = {}
  /\ enabled /\ pc # "prepare" =>
       \A e \in Edge : e \in predicted <=>
         \/ <<e[2], e[3]>> \in graph[e[1]]
         \/ \E w \in Workers : e \in edges[w]
  /\ enabled /\ pc # "prepare" =>
       \A t \in Txns : \A s \in graph[t] : t < s[1]

\* The lists of the greedy partition are ascending, current and postponed
\* have grown from what the cursor has passed.
ListsInv ==
  pc = "greedy" =>
    /\ enabled
    /\ Ascending(remaining) /\ Ascending(current) /\ Ascending(postponed)
    /\ Above(remaining) /\ Above(postponed)
    /\ Behind(current) /\ Behind(postponed)
    /\ at <= Len(remaining) + 1
    /\ Len(current) < at /\ Len(postponed) < at
    /\ at > 1 => current # <<>>

\* The block that is being filled holds no conflict, and has postponed what
\* it had to.
CurrentInv ==
  pc = "greedy" =>
    /\ Apart(predicted, current)
    /\ \A i \in 1..Len(postponed) : Cause(predicted, postponed[i], current)

\* The blocks made so far, and why everything else is not in them.
BlocksInv ==
  /\ pc = "done" \/ pc = "greedy" =>
       \A b \in 1..Len(schedule) : Ascending(schedule[b])
  /\ enabled /\ (pc = "done" \/ pc = "greedy") =>
       /\ \A b \in 1..Len(schedule) : Apart(predicted, schedule[b])
       /\ \A b, c \in 1..Len(schedule) : b < c =>
            \A i \in 1..Len(schedule[c]) : Cause(predicted, schedule[c][i], schedule[b])
  /\ pc = "greedy" =>
       \A b \in 1..Len(schedule) :
         /\ \A i \in 1..Len(remaining) : Cause(predicted, remaining[i], schedule[b])
         /\ \A i \in 1..Len(current) : Cause(predicted, current[i], schedule[b])
         /\ \A i \in 1..Len(postponed) : Cause(predicted, postponed[i], schedule[b])

IInv == TypeOK /\ GraphInv /\ ListsInv /\ CurrentInv /\ BlocksInv
-----------------------------------------------------------------------------
\* The elements of a list with one more.
LEMMA AppendFacts ==
  ASSUME NEW S, NEW s \in Seq(S), NEW e \in S
  PROVE  /\ Append(s, e) \in Seq(S)
         /\ Len(Append(s, e)) = Len(s) + 1
         /\ \A i \in 1..Len(s) : Append(s, e)[i] = s[i]
         /\ Append(s, e)[Len(s) + 1] = e
         /\ Append(s, e) # <<>>
OBVIOUS

LEMMA AppendMember ==
  ASSUME NEW s \in Seq(Txns), NEW e \in Txns, NEW t
  PROVE  Member(t, Append(s, e)) <=> Member(t, s) \/ t = e
<1>1. Len(s) \in Nat
  OBVIOUS
<1>2. \A i \in 1..Len(s) + 1 : i \in 1..Len(s) \/ i = Len(s) + 1
  BY <1>1
<1> QED  BY <1>1, <1>2, AppendFacts DEF Member

\* A list that is above its places fits the transactions there are.
LEMMA AboveFits ==
  ASSUME NEW s \in Seq(Txns), Above(s)
  PROVE  Len(s) <= NTxns
<1>1. CASE Len(s) = 0
  BY <1>1, SizesAssumption
<1>2. CASE Len(s) # 0
  <2>1. Len(s) \in 1..Len(s)
    BY <1>2
  <2>2. s[Len(s)] \in Txns
    BY <2>1
  <2>3. Len(s) <= s[Len(s)]
    BY <2>1 DEF Above
  <2> QED  BY <2>2, <2>3, SizesAssumption DEF Txns
<1> QED  BY <1>1, <1>2

\* Only what is behind the cursor is in the lists, so the next element comes
\* last in each.
LEMMA AppendAscending ==
  ASSUME NEW s \in Seq(Txns), NEW e \in Txns, Ascending(s),
         \A i \in 1..Len(s) : s[i] < e
  PROVE  Ascending(Append(s, e))
<1>1. /\ Len(Append(s, e)) = Len(s) + 1
      /\ \A i \in 1..Len(s) : Append(s, e)[i] = s[i]
      /\ Append(s, e)[Len(s) + 1] = e
  BY AppendFacts
<1>2. Len(s) \in Nat
  OBVIOUS
<1> SUFFICES ASSUME NEW i \in 1..Len(s) + 1, NEW j \in 1..Len(s) + 1, i < j
             PROVE  Append(s, e)[i] < Append(s, e)[j]
  BY <1>1 DEF Ascending
<1>3. i \in 1..Len(s)
  BY <1>2
<1>4. CASE j \in 1..Len(s)
  BY <1>1, <1>3, <1>4 DEF Ascending
<1>5. CASE j = Len(s) + 1
  BY <1>1, <1>3, <1>5
<1> QED  BY <1>2, <1>4, <1>5

LEMMA AppendAbove ==
  ASSUME NEW s \in Seq(Txns), NEW e \in Txns, Above(s), Len(s) < e
  PROVE  Above(Append(s, e))
<1>1. /\ Len(Append(s, e)) = Len(s) + 1
      /\ \A i \in 1..Len(s) : Append(s, e)[i] = s[i]
      /\ Append(s, e)[Len(s) + 1] = e
  BY AppendFacts
<1>2. Len(s) \in Nat /\ e \in Nat
  BY SizesAssumption DEF Txns
<1>3. \A i \in 1..Len(s) + 1 : i \in 1..Len(s) \/ i = Len(s) + 1
  BY <1>2
<1>4. \A i \in 1..Len(s) : i <= Append(s, e)[i]
  BY <1>1 DEF Above
<1>5. Len(s) + 1 <= Append(s, e)[Len(s) + 1]
  BY <1>1, <1>2
<1> QED  BY <1>1, <1>3, <1>4, <1>5 DEF Above

\* Block b of the fixed partition, and where a transaction is in it.
LEMMA FixedFacts ==
  ASSUME NEW b \in 1..NFixed
  PROVE  /\ FixedBlock(b) \in Seq(Txns)
         /\ Ascending(FixedBlock(b))
<1> DEFINE N == NFixed
           first == (b - 1) * BatchSize
           len   == IF b < N THEN BatchSize ELSE NTxns - first
<1>1. /\ NTxns \in Nat /\ BatchSize \in Nat
      /\ NTxns >= 1 /\ BatchSize >= 1
  BY SizesAssumption
<1>2. /\ N \in Nat
      /\ N * BatchSize <= NTxns + BatchSize - 1
      /\ NTxns + BatchSize - 1 < N * BatchSize + BatchSize
  BY <1>1 DEF NFixed
<1>3. b \in Nat /\ 1 <= b /\ b <= N
  BY <1>2
<1>4. first \in Nat /\ first + BatchSize = b * BatchSize
  BY <1>1, <1>3
<1>5. b < N => b * BatchSize + BatchSize <= N * BatchSize
  BY <1>1, <1>2, <1>3
<1>6. b * BatchSize <= N * BatchSize
  BY <1>1, <1>2, <1>3
<1>7. len \in Nat /\ first + len <= NTxns
  BY <1>1, <1>2, <1>4, <1>5, <1>6
<1>8. FixedBlock(b) = [i \in 1..len |-> first + i]
  BY DEF FixedBlock
<1> HIDE DEF first, len, N
<1>9. \A i \in 1..len : first + i \in Txns
  BY <1>1, <1>4, <1>7 DEF Txns
<1>10. FixedBlock(b) \in Seq(Txns) /\ Len(FixedBlock(b)) = len
  BY <1>7, <1>8, <1>9
<1>11. Ascending(FixedBlock(b))
  BY <1>4, <1>7, <1>8, <1>10 DEF Ascending
<1> QED  BY <1>10, <1>11
-----------------------------------------------------------------------------
LEMMA InitIInv == Init => IInv
<1> SUFFICES ASSUME Init PROVE IInv
  OBVIOUS
<1>1. TypeOK
  <2>1. row \in [Workers -> 1..NTxns + NWorkers]
    BY SizesAssumption DEF Init, Workers
  <2>2. at \in 1..NTxns + 1
    BY SizesAssumption DEF Init
  <2> QED  BY <2>1, <2>2 DEF Init, TypeOK
<1>2. GraphInv
  BY DEF Init, GraphInv
<1>3. ListsInv /\ CurrentInv /\ BlocksInv
  BY DEF Init, ListsInv, CurrentInv, BlocksInv
<1> QED  BY <1>1, <1>2, <1>3 DEF IInv

\* An action of the prediction leaves the lists alone, which do not count yet.
LEMMA NotYetGreedy ==
  ASSUME pc' \in {"prepare", "predict", "partition"}
  PROVE  ListsInv' /\ CurrentInv' /\ BlocksInv'
BY DEF ListsInv, CurrentInv, BlocksInv

LEMMA PrepareStep == IInv /\ Prepare => IInv'
<1> SUFFICES ASSUME IInv, Prepare PROVE IInv'
  OBVIOUS
<1>1. TypeOK /\ GraphInv
  BY DEF IInv
<1>2. pc' \in {"prepare", "predict", "partition"}
  BY DEF Prepare
<1>3. TypeOK'
  BY <1>1 DEF TypeOK, Prepare, partitionVars
<1>4. GraphInv'
  <2>1. predicted' = {} /\ edges' = edges /\ enabled' = enabled
    BY <1>1 DEF GraphInv, Prepare
  <2>2. \A w \in Workers : edges[w] = {}
    BY <1>1 DEF GraphInv, Prepare
  <2>3. enabled => \A t \in Txns : graph'[t] = {}
    BY DEF Prepare
  <2>4. \A e \in Edge : e[1] \in Txns
    BY DEF Edge
  <2>5. pc' = "predict" => enabled'
    BY <2>1 DEF Prepare
  <2> QED  BY <1>2, <2>1, <2>2, <2>3, <2>4, <2>5 DEF GraphInv
<1> QED  BY <1>2, <1>3, <1>4, NotYetGreedy DEF IInv

LEMMA CompareStep ==
  ASSUME IInv, NEW w \in Workers, Compare(w)
  PROVE  IInv'
<1>1. TypeOK /\ GraphInv
  BY DEF IInv
<1>2. pc = "predict" /\ pc' = "predict" /\ graph' = graph /\ enabled' = enabled
  BY DEF Compare
<1>3. PICK new \in SUBSET Edge :
        /\ edges' = [edges EXCEPT ![w] = @ \cup new]
        /\ predicted' = predicted \cup new
  BY DEF Compare
<1>4. row' \in [Workers -> 1..NTxns + NWorkers]
  <2>1. row[w] + NWorkers \in 1..NTxns + NWorkers
    BY <1>1, SizesAssumption DEF TypeOK, Compare
  <2> QED  BY <1>1, <2>1 DEF TypeOK, Compare
<1>5. edges' \in [Workers -> SUBSET Edge] /\ predicted' \in SUBSET Edge
  BY <1>1, <1>3 DEF TypeOK
<1>6. TypeOK'
  BY <1>1, <1>2, <1>4, <1>5 DEF TypeOK, Compare, partitionVars
<1>7. \A v \in Workers : edges'[v] = IF v = w THEN edges[v] \cup new ELSE edges[v]
  BY <1>1, <1>3 DEF TypeOK
<1>8. GraphInv'
  BY <1>1, <1>2, <1>3, <1>7 DEF GraphInv
<1> QED  BY <1>2, <1>6, <1>8, NotYetGreedy DEF IInv

\* Insert moves the edges of a transaction from the worker to the graph.
LEMMA InsertStep ==
  ASSUME IInv, NEW w \in Workers, NEW t \in Txns, Insert(w, t)
  PROVE  IInv'
<1> DEFINE mine == {x \in edges[w] : x[1] = t}
           new  == {<<e[2], e[3]>> : e \in mine}
<1>1. TypeOK /\ GraphInv
  BY DEF IInv
<1>2. /\ pc = "predict" /\ pc' = "predict" /\ enabled' = enabled
      /\ predicted' = predicted
      /\ graph' = [graph EXCEPT ![t] = @ \cup new]
      /\ edges' = [edges EXCEPT ![w] = {e \in @ : e[1] # t}]
  BY DEF Insert
<1>3. \A e \in mine : /\ e \in Edge /\ e[1] = t
                      /\ e[2] \in Txns /\ e[3] \in Conflicts /\ t < e[2]
  BY <1>1 DEF TypeOK, Edge
<1>4. new \subseteq Successor /\ \A s \in new : t < s[1]
  BY <1>3 DEF Successor
<1>5. graph' \in [Txns -> SUBSET Successor]
  BY <1>1, <1>2, <1>4 DEF TypeOK
<1>6. edges' \in [Workers -> SUBSET Edge]
  BY <1>1, <1>2 DEF TypeOK
<1>7. TypeOK'
  BY <1>1, <1>2, <1>5, <1>6 DEF TypeOK, Insert, partitionVars
<1>8. \A u \in Txns : graph'[u] = IF u = t THEN graph[u] \cup new ELSE graph[u]
  BY <1>1, <1>2 DEF TypeOK
<1>9. \A v \in Workers :
        edges'[v] = IF v = w THEN {e \in edges[v] : e[1] # t} ELSE edges[v]
  BY <1>1, <1>2 DEF TypeOK
<1>10. \A e \in Edge : e[1] = t => (<<e[2], e[3]>> \in new <=> e \in edges[w])
  <2> SUFFICES ASSUME NEW e \in Edge, e[1] = t
               PROVE  <<e[2], e[3]>> \in new <=> e \in edges[w]
    OBVIOUS
  <2>1. ASSUME e \in edges[w] PROVE <<e[2], e[3]>> \in new
    BY <2>1
  <2>2. ASSUME NEW x \in mine, <<x[2], x[3]>> = <<e[2], e[3]>> PROVE e \in edges[w]
    <3>1. x[1] = e[1] /\ x[2] = e[2] /\ x[3] = e[3]
      BY <1>3, <2>2
    <3>2. x = e
      BY <1>3, <3>1 DEF Edge
    <3> QED  BY <3>2
  <2> QED  BY <2>1, <2>2
<1> HIDE DEF new, mine
<1>11. \A e \in Edge : e \in predicted <=>
         \/ <<e[2], e[3]>> \in graph'[e[1]]
         \/ \E v \in Workers : e \in edges'[v]
  <2> SUFFICES ASSUME NEW e \in Edge
               PROVE  e \in predicted <=>
                        \/ <<e[2], e[3]>> \in graph'[e[1]]
                        \/ \E v \in Workers : e \in edges'[v]
    OBVIOUS
  <2>1. e[1] \in Txns
    BY DEF Edge
  <2>2. e \in predicted <=> \/ <<e[2], e[3]>> \in graph[e[1]]
                            \/ \E v \in Workers : e \in edges[v]
    BY <1>1, <1>2 DEF GraphInv
  <2>3. CASE e[1] = t
    BY <1>8, <1>9, <1>10, <2>1, <2>2, <2>3
  <2>4. CASE e[1] # t
    BY <1>8, <1>9, <2>1, <2>2, <2>4
  <2> QED  BY <2>3, <2>4
<1>12. \A u \in Txns : \A s \in graph'[u] : u < s[1]
  BY <1>1, <1>2, <1>4, <1>8 DEF GraphInv
<1>13. GraphInv'
  BY <1>1, <1>2, <1>11, <1>12 DEF GraphInv
<1> QED  BY <1>2, <1>7, <1>13, NotYetGreedy DEF IInv

LEMMA PredictedStep == IInv /\ Predicted => IInv'
<1> SUFFICES ASSUME IInv, Predicted PROVE IInv'
  OBVIOUS
<1>1. TypeOK /\ GraphInv
  BY DEF IInv
<1>2. pc = "predict" /\ pc' = "partition" /\ UNCHANGED <<graphVars, partitionVars>>
  BY DEF Predicted
<1>3. TypeOK'
  BY <1>1, <1>2 DEF TypeOK, graphVars, partitionVars
<1>4. GraphInv'
  BY <1>1, <1>2 DEF GraphInv, Predicted, graphVars
<1> QED  BY <1>2, <1>3, <1>4, NotYetGreedy DEF IInv

LEMMA NextMacroBlockStep == IInv /\ NextMacroBlock => IInv'
<1> SUFFICES ASSUME IInv, NextMacroBlock PROVE IInv'
  OBVIOUS
<1>1. TypeOK /\ GraphInv
  BY DEF IInv
<1>2. row' \in [Workers -> 1..NTxns + NWorkers]
  BY SizesAssumption DEF NextMacroBlock, Workers
<1>3. TypeOK'
  BY <1>1, <1>2 DEF TypeOK, NextMacroBlock, partitionVars
<1>4. GraphInv'
  BY <1>1 DEF GraphInv, NextMacroBlock
<1>5. pc' \in {"prepare", "predict", "partition"}
  BY DEF NextMacroBlock
<1> QED  BY <1>3, <1>4, <1>5, NotYetGreedy DEF IInv

\* The graph does not change while the manager partitions.
LEMMA GraphKept ==
  ASSUME GraphInv, UNCHANGED graphVars,
         pc \in {"partition", "greedy"}, pc' \in {"greedy", "done"}
  PROVE  GraphInv'
BY DEF GraphInv, graphVars

LEMMA FixedBlocksStep == IInv /\ FixedBlocks => IInv'
<1> SUFFICES ASSUME IInv, FixedBlocks PROVE IInv'
  OBVIOUS
<1>1. TypeOK /\ GraphInv
  BY DEF IInv
<1>2. /\ pc = "partition" /\ ~enabled /\ pc' = "done" /\ UNCHANGED graphVars
      /\ schedule' = [b \in 1..NFixed |-> FixedBlock(b)]
  BY DEF FixedBlocks
<1>3. NFixed \in Nat
  BY SizesAssumption DEF NFixed
<1>4. schedule' \in Seq(Seq(Txns)) /\ Len(schedule') = NFixed
  BY <1>2, <1>3, FixedFacts
<1>5. \A b \in 1..Len(schedule') : Ascending(schedule'[b])
  BY <1>2, <1>4, FixedFacts
<1>6. TypeOK'
  BY <1>1, <1>2, <1>4 DEF TypeOK, FixedBlocks, graphVars
<1>7. GraphInv'
  BY <1>1, <1>2, GraphKept
<1>8. ListsInv' /\ CurrentInv' /\ BlocksInv'
  BY <1>2, <1>5 DEF ListsInv, CurrentInv, BlocksInv, graphVars
<1> QED  BY <1>6, <1>7, <1>8 DEF IInv

LEMMA StartGreedyStep == IInv /\ StartGreedy => IInv'
<1> SUFFICES ASSUME IInv, StartGreedy PROVE IInv'
  OBVIOUS
<1>1. TypeOK /\ GraphInv
  BY DEF IInv
<1>2. /\ pc = "partition" /\ enabled /\ pc' = "greedy" /\ UNCHANGED graphVars
      /\ remaining' = [t \in Txns |-> t] /\ at' = 1
      /\ current' = <<>> /\ postponed' = <<>> /\ schedule' = <<>>
  BY DEF StartGreedy
<1>3. NTxns \in Nat /\ NTxns >= 1
  BY SizesAssumption
<1>4. /\ remaining' \in Seq(Txns) /\ Len(remaining') = NTxns
      /\ \A i \in 1..NTxns : remaining'[i] = i
  BY <1>2, <1>3 DEF Txns
<1>5. TypeOK'
  BY <1>1, <1>2, <1>3, <1>4 DEF TypeOK, graphVars
<1>6. GraphInv'
  BY <1>1, <1>2, GraphKept
<1>7. ListsInv'
  BY <1>2, <1>3, <1>4 DEF ListsInv, Ascending, Above, Behind, graphVars
<1>8. CurrentInv' /\ BlocksInv'
  BY <1>2 DEF CurrentInv, BlocksInv, Apart, Member
<1> QED  BY <1>5, <1>6, <1>7, <1>8 DEF IInv
-----------------------------------------------------------------------------
\* What holds of the transaction at the cursor.
LEMMA AtCursor ==
  ASSUME IInv, Scanning
  PROVE  /\ TypeOK /\ GraphInv /\ ListsInv /\ CurrentInv /\ BlocksInv
         /\ pc = "greedy" /\ enabled
         /\ at \in 1..Len(remaining) /\ remaining[at] \in Txns
         /\ remaining \in Seq(Txns) /\ current \in Seq(Txns)
         /\ postponed \in Seq(Txns)
         /\ \A i \in 1..Len(current) : current[i] < remaining[at]
         /\ \A i \in 1..Len(postponed) : postponed[i] < remaining[at]
         /\ Len(postponed) < remaining[at]
<1>1. TypeOK /\ GraphInv /\ ListsInv /\ CurrentInv /\ BlocksInv /\ pc = "greedy"
  BY DEF IInv, Scanning
<1>2. /\ remaining \in Seq(Txns) /\ current \in Seq(Txns)
      /\ postponed \in Seq(Txns) /\ at \in 1..NTxns + 1
  BY <1>1 DEF TypeOK
<1>3. Len(remaining) \in Nat /\ Len(postponed) \in Nat
  BY <1>2
<1>4. at \in 1..Len(remaining) /\ at \in at..Len(remaining)
  BY <1>2, <1>3, SizesAssumption DEF Scanning
<1>5. remaining[at] \in Txns
  BY <1>2, <1>4
<1>6. /\ \A i \in 1..Len(current) : current[i] < remaining[at]
      /\ \A i \in 1..Len(postponed) : postponed[i] < remaining[at]
      /\ enabled
  BY <1>1, <1>4 DEF ListsInv, Behind
<1>7. Len(postponed) < at /\ at <= remaining[at]
  BY <1>1, <1>4 DEF ListsInv, Above
<1>8. Len(postponed) < remaining[at]
  BY <1>3, <1>4, <1>5, <1>7, SizesAssumption DEF Txns
<1> QED  BY <1>1, <1>2, <1>4, <1>5, <1>6, <1>8

\* The edge that postpones a transaction is a predicted conflict.
LEMMA PostponedByConflict ==
  ASSUME IInv, Scanning, ShouldPostpone(remaining[at])
  PROVE  Cause(predicted, remaining[at], current)
<1> DEFINE t == remaining[at]
<1>1. /\ TypeOK /\ GraphInv /\ pc = "greedy" /\ enabled /\ t \in Txns
      /\ current \in Seq(Txns)
  BY AtCursor
<1>2. PICK i \in 1..Len(current) :
        \E s \in graph[current[i]] : s[1] = t /\ Separates(s[2])
  BY DEF ShouldPostpone
<1>3. PICK s \in graph[current[i]] : s[1] = t /\ Separates(s[2])
  BY <1>2
<1>4. current[i] \in Txns
  BY <1>1
<1>5. s \in Successor /\ current[i] < s[1]
  BY <1>1, <1>3, <1>4 DEF TypeOK, GraphInv
<1> DEFINE e == <<current[i], t, s[2]>>
<1>6. e \in Edge /\ <<e[2], e[3]>> = s
  BY <1>1, <1>3, <1>4, <1>5 DEF Edge, Successor
<1>7. e \in predicted
  <2>1. <<e[2], e[3]>> \in graph[e[1]]
    BY <1>3, <1>6
  <2> HIDE DEF e
  <2> QED  BY <1>1, <1>6, <2>1 DEF GraphInv
<1>8. e[2] = t /\ Separates(e[3]) /\ Member(e[1], current)
  BY <1>3 DEF Member
<1> HIDE DEF e, t
<1> QED  BY <1>7, <1>8 DEF Cause, t

\* Without such an edge the transaction may join the block.
LEMMA PlacedApart ==
  ASSUME IInv, Scanning, ~ShouldPostpone(remaining[at])
  PROVE  Apart(predicted, Append(current, remaining[at]))
<1> DEFINE t == remaining[at]
<1>1. /\ TypeOK /\ GraphInv /\ CurrentInv /\ pc = "greedy" /\ enabled
      /\ t \in Txns /\ current \in Seq(Txns)
      /\ \A i \in 1..Len(current) : current[i] < t
  BY AtCursor
<1>2. \A u : Member(u, Append(current, t)) <=> Member(u, current) \/ u = t
  BY <1>1, AppendMember
<1>3. \A u : Member(u, current) => u \in Txns /\ u < t
  BY <1>1 DEF Member
<1>4. Apart(predicted, current)
  BY <1>1 DEF CurrentInv
<1> SUFFICES ASSUME NEW e \in predicted, Separates(e[3]),
                    Member(e[1], Append(current, t)),
                    Member(e[2], Append(current, t))
             PROVE  FALSE
  BY DEF Apart
<1>5. e \in Edge /\ e[1] \in Txns /\ e[2] \in Txns /\ e[1] < e[2]
  BY <1>1 DEF TypeOK, Edge
<1>6. e[1] # t
  <2>1. CASE e[2] = t
    BY <1>5, <2>1, SizesAssumption DEF Txns
  <2>2. CASE e[2] # t
    <3>1. e[2] < t
      BY <1>2, <1>3, <2>2
    <3> HIDE DEF t
    <3> QED  BY <1>1, <1>5, <3>1, SizesAssumption DEF Txns
  <2> QED  BY <2>1, <2>2
<1>7. Member(e[1], current)
  BY <1>2, <1>6
<1>8. e[2] = t
  BY <1>2, <1>4, <1>7 DEF Apart
<1>9. <<e[2], e[3]>> \in graph[e[1]]
  BY <1>1, <1>5 DEF GraphInv
<1>10. PICK i \in 1..Len(current) : current[i] = e[1]
  BY <1>7 DEF Member
<1>11. ShouldPostpone(t)
  <2> DEFINE s == <<e[2], e[3]>>
  <2>1. s \in graph[current[i]] /\ s[1] = t /\ Separates(s[2])
    BY <1>8, <1>9, <1>10
  <2> HIDE DEF s, t
  <2> QED  BY <2>1 DEF ShouldPostpone
<1> QED  BY <1>11

\* The cursor goes on.
LEMMA CursorStep ==
  ASSUME IInv, Scanning, at' = at + 1, remaining' = remaining
  PROVE  /\ at' \in 1..NTxns + 1 /\ at' <= Len(remaining') + 1
         /\ \A s \in Seq(Txns) : Behind(s) =>
              \A u \in {s, Append(s, remaining[at])} :
                \A i \in 1..Len(u) : \A k \in at'..Len(remaining') :
                  u[i] < remaining'[k]
<1>1. /\ at \in 1..Len(remaining) /\ remaining \in Seq(Txns)
      /\ remaining[at] \in Txns /\ Above(remaining) /\ Ascending(remaining)
  BY AtCursor DEF ListsInv
<1>2. Len(remaining) <= NTxns /\ Len(remaining) \in Nat
  BY <1>1, AboveFits
<1>3. at' \in 1..NTxns + 1 /\ at' <= Len(remaining') + 1
  BY <1>1, <1>2, SizesAssumption
<1>4. \A k \in at'..Len(remaining') :
        k \in at..Len(remaining) /\ remaining[at] < remaining'[k]
  BY <1>1, <1>2 DEF Ascending
<1>5. ASSUME NEW s \in Seq(Txns), Behind(s)
      PROVE  \A u \in {s, Append(s, remaining[at])} :
               \A i \in 1..Len(u) : \A k \in at'..Len(remaining') :
                 u[i] < remaining'[k]
  <2>1. \A i \in 1..Len(s) : \A k \in at'..Len(remaining') : s[i] < remaining'[k]
    BY <1>4, <1>5 DEF Behind
  <2>2. /\ Len(Append(s, remaining[at])) = Len(s) + 1
        /\ \A i \in 1..Len(s) : Append(s, remaining[at])[i] = s[i]
        /\ Append(s, remaining[at])[Len(s) + 1] = remaining[at]
    BY <1>1, AppendFacts
  <2>3. Len(s) \in Nat
    OBVIOUS
  <2>4. \A i \in 1..Len(s) + 1 : i \in 1..Len(s) \/ i = Len(s) + 1
    BY <2>3
  <2>5. \A i \in 1..Len(s) + 1 : \A k \in at'..Len(remaining') :
          Append(s, remaining[at])[i] < remaining'[k]
    BY <1>4, <2>1, <2>2, <2>4
  <2> QED  BY <2>1, <2>2, <2>5
<1> QED  BY <1>3, <1>5
LEMMA PostponeStep == IInv /\ Postpone => IInv'
<1> SUFFICES ASSUME IInv, Postpone PROVE IInv'
  OBVIOUS
<1> DEFINE t == remaining[at]
           p == Append(postponed, t)
<1>1. /\ Scanning /\ ShouldPostpone(t) /\ postponed' = p /\ at' = at + 1
      /\ pc' = pc /\ UNCHANGED graphVars /\ remaining' = remaining
      /\ current' = current /\ schedule' = schedule
  BY DEF Postpone
<1>2. /\ TypeOK /\ GraphInv /\ ListsInv /\ CurrentInv /\ BlocksInv
      /\ pc = "greedy" /\ enabled /\ at \in 1..Len(remaining)
      /\ t \in Txns /\ remaining \in Seq(Txns) /\ current \in Seq(Txns)
      /\ postponed \in Seq(Txns)
      /\ \A i \in 1..Len(postponed) : postponed[i] < t
      /\ Len(postponed) < t
  BY <1>1, AtCursor
<1>3. /\ p \in Seq(Txns) /\ Len(p) = Len(postponed) + 1
      /\ \A i \in 1..Len(postponed) : p[i] = postponed[i]
      /\ p[Len(postponed) + 1] = t
      /\ \A i \in 1..Len(p) : i \in 1..Len(postponed) \/ i = Len(postponed) + 1
  <2>1. Len(postponed) \in Nat
    BY <1>2
  <2> QED  BY <1>2, <2>1, AppendFacts
<1>4. /\ at' \in 1..NTxns + 1 /\ at' <= Len(remaining') + 1
      /\ \A s \in Seq(Txns) : Behind(s) =>
           \A u \in {s, Append(s, t)} :
             \A i \in 1..Len(u) : \A k \in at'..Len(remaining') :
               u[i] < remaining'[k]
  BY <1>1, CursorStep
<1>5. Ascending(p) /\ Above(p)
  BY <1>2, AppendAscending, AppendAbove DEF ListsInv
<1>6. Cause(predicted, t, current)
  BY <1>1, PostponedByConflict
<1> HIDE DEF p, t
<1>7. TypeOK'
  BY <1>1, <1>2, <1>3, <1>4 DEF TypeOK, graphVars
<1>8. GraphInv'
  BY <1>1, <1>2, GraphKept
<1>9. Behind(current)' /\ Behind(postponed)'
  BY <1>1, <1>2, <1>4 DEF ListsInv, Behind, p
<1>10. ListsInv'
  <2>1. Len(current)' < at' /\ Len(postponed)' < at'
    BY <1>1, <1>2, <1>3 DEF ListsInv
  <2>2. current # <<>>
    <3>1. CASE at > 1
      BY <1>2, <3>1 DEF ListsInv
    <3>2. CASE ~(at > 1)
      <4>1. Len(current) = 0
        BY <1>2, <3>2 DEF ListsInv
      <4> QED  BY <1>1, <4>1 DEF ShouldPostpone
    <3> QED  BY <3>1, <3>2
  <2>3. Ascending(remaining)' /\ Ascending(current)' /\ Above(remaining)'
    BY <1>1, <1>2 DEF ListsInv, Ascending, Above
  <2>4. Ascending(postponed)' /\ Above(postponed)'
    BY <1>1, <1>5 DEF Ascending, Above
  <2>5. enabled'
    BY <1>1, <1>2 DEF graphVars
  <2> QED  BY <1>1, <1>4, <1>9, <2>1, <2>2, <2>3, <2>4, <2>5 DEF ListsInv
<1>11. CurrentInv'
  <2>1. \A i \in 1..Len(p) : Cause(predicted, p[i], current)
    BY <1>2, <1>3, <1>6 DEF CurrentInv
  <2> QED  BY <1>1, <1>2, <2>1 DEF CurrentInv, graphVars
<1>12. BlocksInv'
  <2>1. \A b \in 1..Len(schedule) : \A i \in 1..Len(p) : Cause(predicted, p[i], schedule[b])
    BY <1>2, <1>3 DEF BlocksInv, t
  <2> QED  BY <1>1, <1>2, <2>1 DEF BlocksInv, graphVars
<1> QED  BY <1>7, <1>8, <1>10, <1>11, <1>12 DEF IInv

LEMMA PlaceStep == IInv /\ Place => IInv'
<1> SUFFICES ASSUME IInv, Place PROVE IInv'
  OBVIOUS
<1> DEFINE t == remaining[at]
           p == Append(current, t)
<1>1. /\ Scanning /\ ~ShouldPostpone(t) /\ current' = p /\ at' = at + 1
      /\ pc' = pc /\ UNCHANGED graphVars /\ remaining' = remaining
      /\ postponed' = postponed /\ schedule' = schedule
  BY DEF Place
<1>2. /\ TypeOK /\ GraphInv /\ ListsInv /\ CurrentInv /\ BlocksInv
      /\ pc = "greedy" /\ enabled /\ at \in 1..Len(remaining)
      /\ t \in Txns /\ remaining \in Seq(Txns) /\ current \in Seq(Txns)
      /\ postponed \in Seq(Txns)
      /\ \A i \in 1..Len(current) : current[i] < t
  BY <1>1, AtCursor
<1>3. /\ p \in Seq(Txns) /\ Len(p) = Len(current) + 1 /\ p # <<>>
      /\ \A i \in 1..Len(current) : p[i] = current[i]
      /\ p[Len(current) + 1] = t
      /\ \A i \in 1..Len(p) : i \in 1..Len(current) \/ i = Len(current) + 1
  <2>1. Len(current) \in Nat
    BY <1>2
  <2> QED  BY <1>2, <2>1, AppendFacts
<1>4. /\ at' \in 1..NTxns + 1 /\ at' <= Len(remaining') + 1
      /\ \A s \in Seq(Txns) : Behind(s) =>
           \A u \in {s, Append(s, t)} :
             \A i \in 1..Len(u) : \A k \in at'..Len(remaining') :
               u[i] < remaining'[k]
  BY <1>1, CursorStep
<1>5. Ascending(p)
  BY <1>2, AppendAscending DEF ListsInv
<1>6. Apart(predicted, p)
  BY <1>1, PlacedApart
<1>7. \A u : Member(u, current) => Member(u, p)
  BY <1>2, AppendMember
<1> HIDE DEF p, t
<1>8. TypeOK'
  BY <1>1, <1>2, <1>3, <1>4 DEF TypeOK, graphVars
<1>9. GraphInv'
  BY <1>1, <1>2, GraphKept
<1>10. Behind(current)' /\ Behind(postponed)'
  BY <1>1, <1>2, <1>4 DEF ListsInv, Behind, p
<1>11. ListsInv'
  <2>1. Len(current)' < at' /\ Len(postponed)' < at'
    BY <1>1, <1>2, <1>3 DEF ListsInv
  <2>2. Ascending(remaining)' /\ Ascending(postponed)' /\ Above(remaining)'
        /\ Above(postponed)'
    BY <1>1, <1>2 DEF ListsInv, Ascending, Above
  <2>3. Ascending(current)'
    BY <1>1, <1>5 DEF Ascending
  <2>4. enabled'
    BY <1>1, <1>2 DEF graphVars
  <2> QED  BY <1>1, <1>3, <1>4, <1>10, <2>1, <2>2, <2>3, <2>4 DEF ListsInv
<1>12. CurrentInv'
  <2>1. \A i \in 1..Len(postponed) : Cause(predicted, postponed[i], p)
    BY <1>2, <1>7 DEF CurrentInv, Cause
  <2> QED  BY <1>1, <1>2, <1>6, <2>1 DEF CurrentInv, graphVars
<1>13. BlocksInv'
  <2>1. \A b \in 1..Len(schedule) : \A i \in 1..Len(p) : Cause(predicted, p[i], schedule[b])
    BY <1>2, <1>3 DEF BlocksInv, t
  <2> QED  BY <1>1, <1>2, <2>1 DEF BlocksInv, graphVars
<1> QED  BY <1>8, <1>9, <1>11, <1>12, <1>13 DEF IInv

\* The block is never empty: its first transaction has nothing to wait for,
\* so the code never has to force one into it (ProdccManager.h:286).
LEMMA BlockNotEmpty ==
  ASSUME IInv, pc = "greedy", remaining # <<>>, at > Len(remaining)
  PROVE  current # <<>>
<1>1. ListsInv /\ remaining \in Seq(Txns) /\ at \in Nat
  BY SizesAssumption DEF IInv, TypeOK
<1>2. Len(remaining) \in Nat /\ Len(remaining) # 0
  BY <1>1
<1> QED  BY <1>1, <1>2 DEF ListsInv

LEMMA CloseBlockStep == IInv /\ CloseBlock => IInv'
<1> SUFFICES ASSUME IInv, CloseBlock PROVE IInv'
  OBVIOUS
<1>1. TypeOK /\ GraphInv /\ ListsInv /\ CurrentInv /\ BlocksInv
  BY DEF IInv
<1>2. /\ pc = "greedy" /\ remaining # <<>> /\ at > Len(remaining)
      /\ pc' = pc /\ UNCHANGED graphVars
      /\ current' = <<>> /\ postponed' = <<>> /\ at' = 1
  BY DEF CloseBlock
<1>3. current # <<>>
  BY <1>2, BlockNotEmpty
<1>4. remaining' = postponed /\ schedule' = Append(schedule, current)
  BY <1>3 DEF CloseBlock
<1>5. /\ remaining \in Seq(Txns) /\ current \in Seq(Txns)
      /\ postponed \in Seq(Txns) /\ schedule \in Seq(Seq(Txns))
  BY <1>1 DEF TypeOK
<1>6. /\ schedule' \in Seq(Seq(Txns)) /\ Len(schedule') = Len(schedule) + 1
      /\ \A b \in 1..Len(schedule) : schedule'[b] = schedule[b]
      /\ schedule'[Len(schedule) + 1] = current
      /\ Len(schedule) \in Nat
      /\ \A b \in 1..Len(schedule') : b \in 1..Len(schedule) \/ b = Len(schedule) + 1
  <2>1. Len(schedule) \in Nat
    BY <1>5
  <2> QED  BY <1>4, <1>5, <2>1, AppendFacts
<1>7. TypeOK'
  <2>1. at' \in 1..NTxns + 1
    BY <1>2, SizesAssumption
  <2>2. current' \in Seq(Txns) /\ postponed' \in Seq(Txns) /\ remaining' \in Seq(Txns)
    BY <1>2, <1>4, <1>5
  <2> QED  BY <1>1, <1>2, <1>6, <2>1, <2>2 DEF TypeOK, graphVars
<1>8. GraphInv'
  BY <1>1, <1>2, GraphKept
<1>9. ListsInv'
  <2>1. Ascending(remaining)' /\ Above(remaining)' /\ enabled'
    BY <1>1, <1>2, <1>4 DEF ListsInv, Ascending, Above, graphVars
  <2>2. Len(remaining') \in Nat
    BY <1>4, <1>5
  <2> QED  BY <1>2, <2>1, <2>2 DEF ListsInv, Ascending, Above, Behind
<1>10. CurrentInv'
  BY <1>2 DEF CurrentInv, Apart, Member
<1>11. BlocksInv'
  <2>1. enabled /\ enabled' /\ predicted' = predicted
    BY <1>1, <1>2 DEF ListsInv, graphVars
  <2>2. \A b \in 1..Len(schedule') : Ascending(schedule'[b]) /\ Apart(predicted, schedule'[b])
    BY <1>1, <1>2, <1>6, <2>1 DEF BlocksInv, ListsInv, CurrentInv
  <2>3. ASSUME NEW b \in 1..Len(schedule'), NEW c \in 1..Len(schedule'), b < c,
               NEW i \in 1..Len(schedule'[c])
        PROVE  Cause(predicted, schedule'[c][i], schedule'[b])
    <3>1. b \in 1..Len(schedule) /\ schedule'[b] = schedule[b]
      BY <1>6, <2>3
    <3>2. CASE c \in 1..Len(schedule)
      BY <1>1, <1>2, <1>6, <2>1, <2>3, <3>1, <3>2 DEF BlocksInv
    <3>3. CASE c = Len(schedule) + 1
      BY <1>1, <1>2, <1>6, <3>1, <3>3 DEF BlocksInv
    <3> QED  BY <1>6, <3>2, <3>3
  <2>4. \A b \in 1..Len(schedule') : \A i \in 1..Len(remaining') :
          Cause(predicted, remaining'[i], schedule'[b])
    BY <1>1, <1>2, <1>4, <1>6 DEF BlocksInv, CurrentInv
  <2> QED  BY <1>2, <2>1, <2>2, <2>3, <2>4 DEF BlocksInv
<1> QED  BY <1>7, <1>8, <1>9, <1>10, <1>11 DEF IInv

LEMMA FinishGreedyStep == IInv /\ FinishGreedy => IInv'
<1> SUFFICES ASSUME IInv, FinishGreedy PROVE IInv'
  OBVIOUS
<1>1. TypeOK /\ GraphInv /\ ListsInv /\ BlocksInv
  BY DEF IInv
<1>2. /\ pc = "greedy" /\ pc' = "done"
      /\ UNCHANGED <<graphVars, partitionVars>>
  BY DEF FinishGreedy
<1>3. TypeOK'
  BY <1>1, <1>2 DEF TypeOK, graphVars, partitionVars
<1>4. GraphInv'
  BY <1>1, <1>2, GraphKept
<1>5. ListsInv' /\ CurrentInv'
  BY <1>2 DEF ListsInv, CurrentInv
<1>6. BlocksInv'
  BY <1>1, <1>2 DEF BlocksInv, graphVars, partitionVars
<1> QED  BY <1>3, <1>4, <1>5, <1>6 DEF IInv
-----------------------------------------------------------------------------
\* The graph, the lists and the blocks of the partition.
THEOREM PartitionInvariant == Spec => []IInv
<1>1. IInv /\ [Next]_vars => IInv'
  <2>1. ASSUME IInv, UNCHANGED vars PROVE IInv'
    <3> USE <2>1 DEF IInv, vars
    <3>1. TypeOK'
      BY DEF TypeOK
    <3>2. GraphInv'
      BY DEF GraphInv
    <3>3. ListsInv'
      BY DEF ListsInv, Behind
    <3>4. CurrentInv'
      BY DEF CurrentInv
    <3>5. BlocksInv'
      BY DEF BlocksInv
    <3> QED  BY <3>1, <3>2, <3>3, <3>4, <3>5
  <2>2. IInv /\ Manage => IInv'
    BY PrepareStep, PredictedStep, FixedBlocksStep, StartGreedyStep, PostponeStep,
       PlaceStep, CloseBlockStep, FinishGreedyStep, NextMacroBlockStep DEF Manage
  <2>3. ASSUME IInv, NEW w \in Workers, Work(w) PROVE IInv'
    BY <2>3, CompareStep, InsertStep DEF Work
  <2> QED  BY <2>1, <2>2, <2>3 DEF Next
<1> QED  BY <1>1, InitIInv, PTL DEF Spec

\* Every list and every block holds transactions, the cursor stays in its list.
THEOREM PartitionTypeCorrect == Spec => []TypeOK
<1>1. IInv => TypeOK
  BY DEF IInv
<1> QED  BY <1>1, PartitionInvariant, PTL

\* partition_task under sharded locks loses no edge, and
\* prepare_dependency_graph leaves none behind.
THEOREM GraphIsComplete == Spec => []GraphComplete
<1>1. IInv => GraphComplete
  <2> SUFFICES ASSUME TypeOK, GraphInv, pc \in {"partition", "greedy"}, enabled,
                      NEW t \in Txns
               PROVE  graph[t] = {<<e[2], e[3]>> : e \in {x \in predicted : x[1] = t}}
    BY DEF IInv, GraphComplete
  <2> DEFINE out == {<<e[2], e[3]>> : e \in {x \in predicted : x[1] = t}}
  <2>1. \A e \in Edge : e \in predicted <=> <<e[2], e[3]>> \in graph[e[1]]
    BY DEF GraphInv
  <2>2. ASSUME NEW s \in graph[t] PROVE s \in out
    <3> DEFINE e == <<t, s[1], s[2]>>
    <3>1. s \in Successor /\ t < s[1]
      BY DEF TypeOK, GraphInv
    <3>2. e \in Edge /\ <<e[2], e[3]>> = s /\ e[1] = t
      BY <3>1 DEF Edge, Successor
    <3> HIDE DEF e
    <3>3. e \in predicted
      BY <2>1, <3>2
    <3> QED  BY <3>2, <3>3
  <2>3. ASSUME NEW s \in out PROVE s \in graph[t]
    <3>1. PICK e \in {x \in predicted : x[1] = t} : s = <<e[2], e[3]>>
      OBVIOUS
    <3>2. e \in Edge
      BY <3>1 DEF TypeOK
    <3> QED  BY <2>1, <3>1, <3>2
  <2> QED  BY <2>2, <2>3
<1> QED  BY <1>1, PartitionInvariant, PTL

\* partition_into_micro_blocks puts no predicted conflict into a block.
THEOREM BlocksAreCompatible == Spec => []BlocksCompatible
<1>1. IInv => BlocksCompatible
  BY DEF IInv, BlocksInv, BlocksCompatible, Apart, InBlock
<1> QED  BY <1>1, PartitionInvariant, PTL

\* Workers may rely on ascending ids, in greedy and in fixed blocks.
THEOREM BlocksAreAscending == Spec => []BlocksAscending
<1>1. IInv => BlocksAscending
  BY DEF IInv, BlocksInv, BlocksAscending, Ascending
<1> QED  BY <1>1, PartitionInvariant, PTL

\* The greedy partition postpones for a predicted conflict only.
THEOREM EveryPostponementHasACause == Spec => []PostponedForCause
<1>1. IInv => PostponedForCause
  <2> SUFFICES ASSUME BlocksInv, pc = "done", enabled, NEW b \in 1..Len(schedule),
                      NEW c \in 1..Len(schedule), NEW t \in Txns,
                      b < c, InBlock(c, t)
               PROVE  \E e \in predicted :
                        e[2] = t /\ Separates(e[3]) /\ InBlock(b, e[1])
    BY DEF IInv, PostponedForCause
  <2>1. PICK i \in 1..Len(schedule[c]) : schedule[c][i] = t
    BY DEF InBlock, Member
  <2>2. Cause(predicted, schedule[c][i], schedule[b])
    BY DEF BlocksInv
  <2> QED  BY <2>1, <2>2 DEF Cause, InBlock
<1> QED  BY <1>1, PartitionInvariant, PTL
-----------------------------------------------------------------------------
\* That each transaction is run once takes an invariant of its own: it is in
\* a block, in a list or ahead of the cursor, and in one of them only.
OnceInv ==
  /\ pc = "greedy" =>
       /\ \A t \in Txns :
            \/ Member(t, current) \/ Member(t, postponed)
            \/ \E k \in at..Len(remaining) : remaining[k] = t
            \/ \E b \in 1..Len(schedule) : Member(t, schedule[b])
       /\ \A b \in 1..Len(schedule) : \A i \in 1..Len(schedule[b]) :
            /\ ~Member(schedule[b][i], remaining)
            /\ ~Member(schedule[b][i], current)
            /\ ~Member(schedule[b][i], postponed)
       /\ \A i \in 1..Len(current) : ~Member(current[i], postponed)
  /\ pc = "greedy" \/ pc = "done" =>
       \A b, c \in 1..Len(schedule) : \A i \in 1..Len(schedule[b]) :
         Member(schedule[b][i], schedule[c]) => b = c
  /\ pc = "done" => \A t \in Txns : \E b \in 1..Len(schedule) : Member(t, schedule[b])

\* The blocks of a fixed size: t is in the one that ends at or after it.
LEMMA FixedCover ==
  ASSUME NEW t \in Txns
  PROVE  \E b \in 1..NFixed : Member(t, FixedBlock(b))
<1> DEFINE b == ((t - 1) \div BatchSize) + 1
           first == (b - 1) * BatchSize
           len == IF b < NFixed THEN BatchSize ELSE NTxns - first
<1>1. /\ NTxns \in Nat /\ BatchSize \in Nat /\ t \in Nat
      /\ NTxns >= 1 /\ BatchSize >= 1 /\ 1 <= t /\ t <= NTxns
  BY SizesAssumption DEF Txns
<1>2. b \in Nat /\ 1 <= b /\ first <= t - 1 /\ t - 1 < first + BatchSize
  BY <1>1
<1>3. /\ NFixed \in Nat
      /\ NFixed * BatchSize <= NTxns + BatchSize - 1
      /\ NTxns + BatchSize - 1 < NFixed * BatchSize + BatchSize
  BY <1>1 DEF NFixed
<1>4. first \in Nat
  BY <1>1, <1>2
<1> HIDE DEF b
<1>5. b <= NFixed
  <2>1. SUFFICES ASSUME NFixed + 1 <= b PROVE FALSE
    BY <1>2, <1>3
  <2>2. NFixed * BatchSize <= first
    BY <1>1, <1>2, <1>3, <2>1
  <2> HIDE DEF first
  <2> QED  BY <1>1, <1>2, <1>3, <1>4, <2>2
<1>6. len \in Nat /\ t - first \in 1..len
  BY <1>1, <1>2, <1>4
<1>7. FixedBlock(b) = [i \in 1..len |-> first + i]
  BY DEF FixedBlock
<1> HIDE DEF first, len
<1>8. Len(FixedBlock(b)) = len /\ FixedBlock(b)[t - first] = t
  BY <1>1, <1>4, <1>6, <1>7
<1>9. Member(t, FixedBlock(b))
  BY <1>6, <1>8 DEF Member
<1> QED  BY <1>2, <1>3, <1>5, <1>9

\* A fixed block holds transactions between its bounds.
LEMMA FixedBounds ==
  ASSUME NEW b \in 1..NFixed, NEW i \in 1..Len(FixedBlock(b))
  PROVE  /\ FixedBlock(b)[i] \in Nat
         /\ (b - 1) * BatchSize < FixedBlock(b)[i]
         /\ FixedBlock(b)[i] <= (b - 1) * BatchSize + BatchSize
<1> DEFINE first == (b - 1) * BatchSize
           len == IF b < NFixed THEN BatchSize ELSE NTxns - first
<1>1. /\ NTxns \in Nat /\ BatchSize \in Nat /\ BatchSize >= 1
  BY SizesAssumption
<1>2. /\ NFixed \in Nat
      /\ NTxns + BatchSize - 1 < NFixed * BatchSize + BatchSize
      /\ NFixed * BatchSize <= NTxns + BatchSize - 1
  BY <1>1 DEF NFixed
<1>3. b \in Nat /\ 1 <= b /\ b <= NFixed
  BY <1>2
<1>4. first \in Nat /\ first + BatchSize = b * BatchSize
  BY <1>1, <1>3
<1>5. b * BatchSize <= NFixed * BatchSize
  BY <1>1, <1>2, <1>3
<1>6. ~(b < NFixed) => b * BatchSize = NFixed * BatchSize
  BY <1>2, <1>3
<1>7. len \in Nat /\ len <= BatchSize
  BY <1>1, <1>2, <1>4, <1>5, <1>6
<1>8. FixedBlock(b) = [j \in 1..len |-> first + j]
  BY DEF FixedBlock
<1> HIDE DEF first, len
<1>9. Len(FixedBlock(b)) = len /\ i \in 1..len /\ FixedBlock(b)[i] = first + i
  BY <1>7, <1>8
<1>10. first + i \in Nat /\ first < first + i /\ first + i <= first + BatchSize
  BY <1>1, <1>4, <1>7, <1>9
<1> QED  BY <1>9, <1>10 DEF first

LEMMA FixedDisjoint ==
  ASSUME NEW b \in 1..NFixed, NEW c \in 1..NFixed, b < c,
         NEW i \in 1..Len(FixedBlock(b)), NEW j \in 1..Len(FixedBlock(c))
  PROVE  FixedBlock(b)[i] < FixedBlock(c)[j]
<1>1. /\ BatchSize \in Nat /\ NFixed \in Nat
  BY SizesAssumption DEF NFixed
<1>2. b \in Nat /\ c \in Nat /\ b <= c - 1
  BY <1>1
<1>3. (b - 1) * BatchSize + BatchSize = b * BatchSize
  BY <1>1, <1>2
<1>4. b * BatchSize <= (c - 1) * BatchSize
  BY <1>1, <1>2
<1>5. FixedBlock(b)[i] \in Nat /\ FixedBlock(c)[j] \in Nat
  BY FixedBounds
<1>6. /\ b * BatchSize \in Nat /\ (c - 1) * BatchSize \in Nat
  BY <1>1, <1>2
<1>7. FixedBlock(b)[i] <= b * BatchSize /\ (c - 1) * BatchSize < FixedBlock(c)[j]
  BY <1>3, FixedBounds
<1> QED  BY <1>4, <1>5, <1>6, <1>7
-----------------------------------------------------------------------------
LEMMA FixedOnceStep ==
  ASSUME OnceInv, FixedBlocks
  PROVE  OnceInv'
<1>1. pc' = "done" /\ schedule' = [b \in 1..NFixed |-> FixedBlock(b)]
  BY DEF FixedBlocks
<1>2. NFixed \in Nat
  BY SizesAssumption DEF NFixed
<1>3. /\ Len(schedule') = NFixed
      /\ \A b \in 1..NFixed : schedule'[b] = FixedBlock(b)
  BY <1>1, <1>2
<1>4. ASSUME NEW b \in 1..NFixed, NEW c \in 1..NFixed,
             NEW i \in 1..Len(FixedBlock(b)), Member(FixedBlock(b)[i], FixedBlock(c))
      PROVE  b = c
  <2>1. PICK j \in 1..Len(FixedBlock(c)) : FixedBlock(c)[j] = FixedBlock(b)[i]
    BY <1>4 DEF Member
  <2>2. FixedBlock(b)[i] \in Nat
    BY FixedBounds
  <2>3. ~(b < c) /\ ~(c < b)
    BY <2>1, <2>2, FixedDisjoint
  <2> QED  BY <1>2, <2>3
<1>5. \A t \in Txns : \E b \in 1..NFixed : Member(t, FixedBlock(b))
  BY FixedCover
<1> QED  BY <1>1, <1>3, <1>4, <1>5 DEF OnceInv

LEMMA StartOnceStep ==
  ASSUME OnceInv, StartGreedy
  PROVE  OnceInv'
<1>1. /\ pc' = "greedy" /\ remaining' = [t \in Txns |-> t] /\ at' = 1
      /\ current' = <<>> /\ postponed' = <<>> /\ schedule' = <<>>
  BY DEF StartGreedy
<1>2. /\ Len(remaining') = NTxns /\ NTxns \in Nat
      /\ \A t \in Txns : t \in at'..Len(remaining') /\ remaining'[t] = t
  BY <1>1, SizesAssumption DEF Txns
<1> QED  BY <1>1, <1>2 DEF OnceInv, Member

\* The element under the cursor is in none of the lists, and leaves the rest
\* of the list without it.
LEMMA CursorAlone ==
  ASSUME IInv, OnceInv, Scanning
  PROVE  /\ ~Member(remaining[at], current) /\ ~Member(remaining[at], postponed)
         /\ \A k \in at..Len(remaining) :
              k = at \/ k \in (at + 1)..Len(remaining)
         /\ \A b \in 1..Len(schedule) : \A i \in 1..Len(schedule[b]) :
              schedule[b][i] # remaining[at]
<1>1. /\ TypeOK /\ ListsInv /\ at \in 1..Len(remaining) /\ pc = "greedy"
      /\ remaining[at] \in Txns
      /\ remaining \in Seq(Txns) /\ current \in Seq(Txns) /\ postponed \in Seq(Txns)
  BY AtCursor DEF Scanning
<1>2. at \in at..Len(remaining) /\ at \in Nat /\ Len(remaining) \in Nat
  BY <1>1
<1>3. /\ \A i \in 1..Len(current) : current[i] < remaining[at]
      /\ \A i \in 1..Len(postponed) : postponed[i] < remaining[at]
  BY <1>1, <1>2 DEF ListsInv, Behind
<1>4. ~(remaining[at] < remaining[at])
  BY <1>1 DEF Txns
<1>5. Member(remaining[at], remaining)
  BY <1>1 DEF Member
<1>6. \A b \in 1..Len(schedule) : \A i \in 1..Len(schedule[b]) :
        schedule[b][i] # remaining[at]
  BY <1>1, <1>5 DEF OnceInv
<1>7. \A k \in at..Len(remaining) : k = at \/ k \in (at + 1)..Len(remaining)
  BY <1>2
<1> QED  BY <1>3, <1>4, <1>6, <1>7 DEF Member

LEMMA PlaceOnceStep ==
  ASSUME IInv, OnceInv, Place
  PROVE  OnceInv'
<1> DEFINE t == remaining[at]
           p == Append(current, t)
<1>1. /\ Scanning /\ current' = p /\ at' = at + 1 /\ pc' = pc
      /\ remaining' = remaining /\ postponed' = postponed /\ schedule' = schedule
  BY DEF Place
<1>2. /\ pc = "greedy" /\ t \in Txns /\ current \in Seq(Txns)
  BY <1>1, AtCursor
<1>3. /\ ~Member(t, postponed)
      /\ \A k \in at..Len(remaining) : k = at \/ k \in (at + 1)..Len(remaining)
      /\ \A b \in 1..Len(schedule) : \A i \in 1..Len(schedule[b]) : schedule[b][i] # t
  BY <1>1, CursorAlone
<1>4. \A u : Member(u, p) <=> Member(u, current) \/ u = t
  BY <1>2, AppendMember
<1>5. \A i \in 1..Len(p) : ~Member(p[i], postponed)
  <2>1. \A i \in 1..Len(p) : Member(p[i], p)
    BY DEF Member
  <2>2. \A u : Member(u, current) => ~Member(u, postponed)
    BY <1>2 DEF OnceInv, Member
  <2> QED  BY <1>3, <1>4, <2>1, <2>2
<1> HIDE DEF p
<1>6. \A u \in Txns :
        \/ Member(u, p) \/ Member(u, postponed)
        \/ \E k \in (at + 1)..Len(remaining) : remaining[k] = u
        \/ \E b \in 1..Len(schedule) : Member(u, schedule[b])
  BY <1>2, <1>3, <1>4 DEF OnceInv
<1>7. \A b \in 1..Len(schedule) : \A i \in 1..Len(schedule[b]) :
        ~Member(schedule[b][i], p)
  BY <1>2, <1>3, <1>4 DEF OnceInv
<1> HIDE DEF t
<1> QED  BY <1>1, <1>2, <1>5, <1>6, <1>7 DEF OnceInv

LEMMA PostponeOnceStep ==
  ASSUME IInv, OnceInv, Postpone
  PROVE  OnceInv'
<1> DEFINE t == remaining[at]
           p == Append(postponed, t)
<1>1. /\ Scanning /\ postponed' = p /\ at' = at + 1 /\ pc' = pc
      /\ remaining' = remaining /\ current' = current /\ schedule' = schedule
  BY DEF Postpone
<1>2. /\ pc = "greedy" /\ t \in Txns /\ postponed \in Seq(Txns)
  BY <1>1, AtCursor
<1>3. /\ ~Member(t, current)
      /\ \A k \in at..Len(remaining) : k = at \/ k \in (at + 1)..Len(remaining)
      /\ \A b \in 1..Len(schedule) : \A i \in 1..Len(schedule[b]) : schedule[b][i] # t
  BY <1>1, CursorAlone
<1>4. \A u : Member(u, p) <=> Member(u, postponed) \/ u = t
  BY <1>2, AppendMember
<1> HIDE DEF p
<1>5. \A i \in 1..Len(current) : ~Member(current[i], p)
  BY <1>2, <1>3, <1>4 DEF OnceInv, Member
<1>6. \A u \in Txns :
        \/ Member(u, current) \/ Member(u, p)
        \/ \E k \in (at + 1)..Len(remaining) : remaining[k] = u
        \/ \E b \in 1..Len(schedule) : Member(u, schedule[b])
  BY <1>2, <1>3, <1>4 DEF OnceInv
<1>7. \A b \in 1..Len(schedule) : \A i \in 1..Len(schedule[b]) :
        ~Member(schedule[b][i], p)
  BY <1>2, <1>3, <1>4 DEF OnceInv
<1> HIDE DEF t
<1> QED  BY <1>1, <1>2, <1>5, <1>6, <1>7 DEF OnceInv

LEMMA CloseOnceStep ==
  ASSUME IInv, OnceInv, CloseBlock
  PROVE  OnceInv'
<1>1. /\ pc = "greedy" /\ remaining # <<>> /\ at > Len(remaining)
      /\ pc' = pc /\ current' = <<>> /\ postponed' = <<>> /\ at' = 1
  BY DEF CloseBlock
<1>2. current # <<>>
  BY <1>1, BlockNotEmpty
<1>3. remaining' = postponed /\ schedule' = Append(schedule, current)
  BY <1>2 DEF CloseBlock
<1>4. /\ remaining \in Seq(Txns) /\ current \in Seq(Txns) /\ at \in Nat
      /\ postponed \in Seq(Txns) /\ schedule \in Seq(Seq(Txns))
  BY SizesAssumption DEF IInv, TypeOK
<1>5. Len(schedule) \in Nat /\ Len(remaining) \in Nat /\ Len(postponed) \in Nat
  BY <1>4
<1>6. /\ Len(schedule') = Len(schedule) + 1
      /\ \A b \in 1..Len(schedule) : schedule'[b] = schedule[b]
      /\ schedule'[Len(schedule) + 1] = current
      /\ \A b \in 1..Len(schedule') : b \in 1..Len(schedule) \/ b = Len(schedule) + 1
      /\ 1..Len(schedule) \subseteq 1..Len(schedule')
      /\ Len(schedule) + 1 \in 1..Len(schedule')
  BY <1>3, <1>4, <1>5, AppendFacts
<1>7. ASSUME NEW t \in Txns
      PROVE  \/ \E k \in at'..Len(remaining') : remaining'[k] = t
             \/ \E b \in 1..Len(schedule') : Member(t, schedule'[b])
  <2>1. ~\E k \in at..Len(remaining) : remaining[k] = t
    BY <1>1, <1>4, <1>5
  <2>2. CASE Member(t, current)
    BY <1>6, <2>2
  <2>3. CASE Member(t, postponed)
    BY <1>1, <1>3, <2>3 DEF Member
  <2>4. CASE \E b \in 1..Len(schedule) : Member(t, schedule[b])
    BY <1>6, <2>4
  <2> QED  BY <1>1, <2>1, <2>2, <2>3, <2>4 DEF OnceInv
<1>8. \A b \in 1..Len(schedule') : \A i \in 1..Len(schedule'[b]) :
        ~Member(schedule'[b][i], remaining')
  BY <1>1, <1>3, <1>6 DEF OnceInv
<1>9. \A u : ~Member(u, current') /\ ~Member(u, postponed')
  BY <1>1 DEF Member
<1>10. ASSUME NEW b \in 1..Len(schedule'), NEW c \in 1..Len(schedule'),
              NEW i \in 1..Len(schedule'[b]), Member(schedule'[b][i], schedule'[c])
       PROVE  b = c
  <2>1. CASE b \in 1..Len(schedule) /\ c \in 1..Len(schedule)
    BY <1>1, <1>6, <1>10, <2>1 DEF OnceInv
  <2>2. CASE b \in 1..Len(schedule) /\ c = Len(schedule) + 1
    BY <1>1, <1>6, <1>10, <2>2 DEF OnceInv
  <2>3. CASE b = Len(schedule) + 1 /\ c \in 1..Len(schedule)
    <3>1. PICK j \in 1..Len(schedule[c]) : schedule[c][j] = schedule'[b][i]
      BY <1>6, <1>10, <2>3 DEF Member
    <3>2. Member(schedule'[b][i], current)
      BY <1>6, <2>3 DEF Member
    <3> QED  BY <1>1, <2>3, <3>1, <3>2 DEF OnceInv
  <2> QED  BY <1>6, <2>1, <2>2, <2>3
<1>11. \A i \in 1..Len(current') : ~Member(current'[i], postponed')
  BY <1>9
<1> QED  BY <1>1, <1>7, <1>8, <1>9, <1>10, <1>11 DEF OnceInv

LEMMA FinishOnceStep ==
  ASSUME IInv, OnceInv, FinishGreedy
  PROVE  OnceInv'
<1>1. /\ pc = "greedy" /\ remaining = <<>> /\ pc' = "done"
      /\ UNCHANGED partitionVars
  BY DEF FinishGreedy
<1>2. /\ ListsInv /\ at \in Nat /\ at >= 1
      /\ current \in Seq(Txns) /\ postponed \in Seq(Txns)
  BY SizesAssumption DEF IInv, TypeOK
<1>3. Len(current) = 0 /\ Len(postponed) = 0
  BY <1>1, <1>2 DEF ListsInv
<1>4. /\ \A u : ~Member(u, current) /\ ~Member(u, postponed)
      /\ ~\E k \in at..Len(remaining) : TRUE
  BY <1>1, <1>2, <1>3 DEF Member
<1>5. \A t \in Txns : \E b \in 1..Len(schedule) : Member(t, schedule[b])
  BY <1>1, <1>4 DEF OnceInv
<1> QED  BY <1>1, <1>5 DEF OnceInv, partitionVars

THEOREM OnceInvHolds == Spec => []OnceInv
<1>1. Init => OnceInv
  BY DEF Init, OnceInv
<1>2. ASSUME IInv, OnceInv, [Next]_vars PROVE OnceInv'
  <2>1. CASE UNCHANGED vars
    BY <1>2, <2>1 DEF OnceInv, vars
  <2>2. CASE Prepare
    BY <2>2 DEF Prepare, OnceInv
  <2>3. CASE Predicted \/ NextMacroBlock
    BY <2>3 DEF Predicted, NextMacroBlock, OnceInv
  <2>4. ASSUME NEW w \in Workers, Work(w) PROVE OnceInv'
    BY <2>4 DEF Work, Compare, Insert, OnceInv
  <2> QED  BY <1>2, <2>1, <2>2, <2>3, <2>4, FixedOnceStep, StartOnceStep,
              PlaceOnceStep, PostponeOnceStep, CloseOnceStep, FinishOnceStep
           DEF Next, Manage
<1> QED  BY <1>1, <1>2, PartitionInvariant, PTL DEF Spec

\* No transaction is lost between the three lists of the greedy partition,
\* none is scheduled twice; nor do the fixed blocks, whatever their size.
THEOREM EveryTransactionIsScheduledOnce == Spec => []ScheduledOnce
<1>1. ASSUME IInv, OnceInv PROVE ScheduledOnce
  <2> SUFFICES ASSUME pc = "done", NEW t \in Txns
               PROVE  \E b \in 1..Len(schedule) : \E i \in 1..Len(schedule[b]) :
                        /\ schedule[b][i] = t
                        /\ \A c \in 1..Len(schedule) : \A j \in 1..Len(schedule[c]) :
                             schedule[c][j] = t => c = b /\ j = i
    BY DEF ScheduledOnce
  <2>1. PICK b \in 1..Len(schedule) : Member(t, schedule[b])
    BY <1>1 DEF OnceInv
  <2>2. PICK i \in 1..Len(schedule[b]) : schedule[b][i] = t
    BY <2>1 DEF Member
  <2>3. ASSUME NEW c \in 1..Len(schedule), NEW j \in 1..Len(schedule[c]),
               schedule[c][j] = t
        PROVE  c = b /\ j = i
    <3>1. c = b
      BY <1>1, <2>1, <2>3 DEF OnceInv
    <3>2. Ascending(schedule[b]) /\ schedule[b] \in Seq(Txns)
      BY <1>1 DEF IInv, BlocksInv, TypeOK
    <3>3. ~(i < j) /\ ~(j < i)
      BY <2>2, <2>3, <3>1, <3>2 DEF Ascending, Txns
    <3>4. i \in Nat /\ j \in Nat
      BY <3>1, <3>2
    <3> QED  BY <3>1, <3>3, <3>4
  <2> QED  BY <2>2, <2>3
<1> QED  BY <1>1, PartitionInvariant, OnceInvHolds, PTL

-----------------------------------------------------------------------------
(* The predictor that the workers ask is exact in a dense domain, for all  *)
(* queries with sorted ranges.  The invariant is WalkInv: what the         *)
(* iterators have left behind meets nothing, and that is all the           *)
(* two-pointer walk remembers.                                             *)


\* A key of the domain that two ranges share.
Shared(r, s, key) ==
  /\ r.first <= key /\ key <= r.second
  /\ s.first <= key /\ key <= s.second

WalkInv == WalkTypeOK /\ BehindNoOverlap /\ PredictionExact

\* Two ranges intersect for the predictor iff they share a key of the domain
\* (ConflictPredictor.h:84-91 with L1Filter.h:69-95).
LEMMA IntersectMeansShared ==
  ASSUME NEW r \in Range, NEW s \in Range
  PROVE  Intersect(r, s) <=> \E key \in MinKey..MaxKey : Shared(r, s, key)
<1> DEFINE start == Larger(r.first, s.first)
           end   == Smaller(r.second, s.second)
<1>1. /\ r.first \in Nat /\ r.second \in Nat
      /\ s.first \in Nat /\ s.second \in Nat
      /\ MinKey \in Nat /\ MaxKey \in Nat
  BY DomainAssumption DEF Range
<1>2. ASSUME Intersect(r, s)
      PROVE  \E key \in MinKey..MaxKey : Shared(r, s, key)
  <2> DEFINE key == Larger(start, MinKey)
  <2>1. /\ start <= end /\ end >= MinKey /\ start <= MaxKey
        /\ MinKey <= MaxKey
    BY <1>2 DEF Intersect, QueryRangeExists
  <2>2. key \in MinKey..MaxKey /\ Shared(r, s, key)
    BY <1>1, <2>1 DEF Larger, Smaller, Shared
  <2> QED  BY <2>2
<1>3. ASSUME NEW key \in MinKey..MaxKey, Shared(r, s, key)
      PROVE  Intersect(r, s)
  BY <1>1, <1>3 DEF Intersect, QueryRangeExists, Larger, Smaller, Shared
<1> QED  BY <1>2, <1>3

\* The reference, key by key, in terms of the pairs of ranges of the lists.
LEMMA OverlapMeansIntersect ==
  ASSUME NEW a \in Seq(Range), NEW b \in Seq(Range)
  PROVE  Overlap(a, b) <=>
           \E i \in 1..Len(a) : \E j \in 1..Len(b) : Intersect(a[i], b[j])
<1>1. \A i \in 1..Len(a) : \A j \in 1..Len(b) :
        Intersect(a[i], b[j]) <=>
          \E key \in MinKey..MaxKey : Shared(a[i], b[j], key)
  <2> TAKE i \in 1..Len(a)
  <2> TAKE j \in 1..Len(b)
  <2>1. a[i] \in Range /\ b[j] \in Range
    OBVIOUS
  <2> QED  BY <2>1, IntersectMeansShared
<1> QED  BY <1>1 DEF Overlap, Covers, Shared

\* The ranges of a query come sorted (QueriesAssumption).
LEMMA ListsSorted ==
  ASSUME WalkTypeOK
  PROVE  /\ Sorted(t1.read) /\ Sorted(t1.write)
         /\ Sorted(t2.read) /\ Sorted(t2.write)
         /\ Sorted(Left) /\ Sorted(Right)
BY QueriesAssumption DEF WalkTypeOK, Left, Right

\* A range that ends before the other meets none of those that follow it:
\* a key shared with a later one would be shared with this one.
LEMMA LeftDone ==
  ASSUME NEW a, NEW b, Sorted(a), Sorted(b),
         NEW i \in 1..Len(a), NEW j \in 1..Len(b),
         ~Intersect(a[i], b[j]), a[i].second < b[j].second,
         NEW k \in 1..Len(b), j <= k
  PROVE  ~Intersect(a[i], b[k])
<1>1. a[i] \in Range /\ b[j] \in Range /\ b[k] \in Range
  BY DEF Sorted
<1>2. b[j].first <= b[k].first
  <2>1. CASE j = k
    BY <1>1, <2>1 DEF Range
  <2>2. CASE j # k
    <3>1. j < k
      BY <2>2
    <3> QED  BY <3>1 DEF Sorted
  <2> QED  BY <2>1, <2>2
<1>3. /\ a[i].first \in Nat /\ a[i].second \in Nat
      /\ b[j].first \in Nat /\ b[j].second \in Nat
      /\ b[k].first \in Nat /\ b[k].second \in Nat
  BY <1>1 DEF Range
<1>4. ASSUME NEW key \in MinKey..MaxKey, Shared(a[i], b[k], key)
      PROVE  Shared(a[i], b[j], key)
  BY <1>2, <1>3, <1>4, DomainAssumption DEF Shared
<1> QED  BY <1>1, <1>4, IntersectMeansShared

LEMMA RightDone ==
  ASSUME NEW a, NEW b, Sorted(a), Sorted(b),
         NEW i \in 1..Len(a), NEW j \in 1..Len(b),
         ~Intersect(a[i], b[j]), ~(a[i].second < b[j].second),
         NEW k \in 1..Len(a), i <= k
  PROVE  ~Intersect(a[k], b[j])
<1>1. a[i] \in Range /\ b[j] \in Range /\ a[k] \in Range
  BY DEF Sorted
<1>2. a[i].first <= a[k].first
  <2>1. CASE i = k
    BY <1>1, <2>1 DEF Range
  <2>2. CASE i # k
    <3>1. i < k
      BY <2>2
    <3> QED  BY <3>1 DEF Sorted
  <2> QED  BY <2>1, <2>2
<1>3. /\ a[i].first \in Nat /\ a[i].second \in Nat
      /\ b[j].first \in Nat /\ b[j].second \in Nat
      /\ a[k].first \in Nat /\ a[k].second \in Nat
  BY <1>1 DEF Range
<1>4. ASSUME NEW key \in MinKey..MaxKey, Shared(a[k], b[j], key)
      PROVE  Shared(a[i], b[j], key)
  BY <1>2, <1>3, <1>4, DomainAssumption DEF Shared
<1> QED  BY <1>1, <1>4, IntersectMeansShared
-----------------------------------------------------------------------------
LEMMA InitWalkInv == WalkInit => WalkInv
<1> SUFFICES ASSUME WalkInit PROVE WalkInv
  OBVIOUS
<1>1. Left = t1.write /\ Right = t2.write
  BY DEF WalkInit, Left, Right
<1>2. Left \in Seq(Range) /\ Right \in Seq(Range)
  BY <1>1, QueriesAssumption DEF WalkInit, Sorted
<1>3. WalkTypeOK
  BY <1>2 DEF WalkInit, WalkTypeOK
<1>4. BehindNoOverlap
  BY DEF WalkInit, BehindNoOverlap
<1>5. PredictionExact
  BY DEF WalkInit, PredictionExact
<1> QED  BY <1>3, <1>4, <1>5 DEF WalkInv

\* The prediction is the first pair of lists that overlaps.
LEMMA FoundStep == WalkInv /\ Found => WalkInv'
<1> SUFFICES ASSUME WalkInv, Found PROVE WalkInv'
  OBVIOUS
<1>1. WalkTypeOK /\ Walking /\ BehindNoOverlap
  BY DEF WalkInv, Found
<1>2. Left' = Left /\ Right' = Right
  BY DEF Found, Left, Right
<1>3. it1 \in 1..Len(Left) /\ it2 \in 1..Len(Right)
  BY <1>1 DEF WalkTypeOK, Walking
<1>4. Left \in Seq(Range) /\ Right \in Seq(Range)
  BY <1>1, ListsSorted DEF Sorted
<1>5. Overlap(Left, Right)
  BY <1>3, <1>4, OverlapMeansIntersect DEF Found
<1>6. WalkTypeOK'
  BY <1>1, <1>2 DEF WalkTypeOK, Found
<1>7. BehindNoOverlap'
  BY <1>1, <1>2 DEF BehindNoOverlap, Found, Overlap, Covers, Intersect
<1>8. PredictionExact'
  <2>1. CASE pair = "WAW"
    BY <2>1, <1>5 DEF PredictionExact, Found, Left, Right, Overlap, Covers
  <2>2. CASE pair = "RAW"
    BY <2>2, <1>1, <1>5
      DEF PredictionExact, BehindNoOverlap, Found, Left, Right, Overlap, Covers
  <2>3. CASE pair = "WAR"
    BY <2>3, <1>1, <1>5
      DEF PredictionExact, BehindNoOverlap, Found, Left, Right, Overlap, Covers
  <2> QED  BY <1>1, <2>1, <2>2, <2>3 DEF WalkTypeOK
<1> QED  BY <1>6, <1>7, <1>8 DEF WalkInv
\* The one case with an argument: the iterator that goes on leaves a range
\* behind that meets nothing in front of the other.
LEMMA AdvanceStep == WalkInv /\ Advance => WalkInv'
<1> SUFFICES ASSUME WalkInv, Advance PROVE WalkInv'
  OBVIOUS
<1>1. WalkTypeOK /\ Walking /\ BehindNoOverlap /\ PredictionExact
  BY DEF WalkInv, Advance
<1>2. /\ Left' = Left /\ Right' = Right
      /\ t1' = t1 /\ t2' = t2 /\ pair' = pair /\ result' = result
  BY DEF Advance, Left, Right
<1>3. it1 \in 1..Len(Left) /\ it2 \in 1..Len(Right)
  BY <1>1 DEF WalkTypeOK, Walking
<1>4. Sorted(Left) /\ Sorted(Right) /\ ~Intersect(Left[it1], Right[it2])
  BY <1>1, ListsSorted DEF Advance
<1>5. /\ Len(Left) \in Nat /\ Len(Right) \in Nat
  BY <1>4 DEF Sorted
<1>6. WalkTypeOK'
  BY <1>1, <1>2, <1>3, <1>5 DEF WalkTypeOK, Advance
<1>7. ASSUME NEW i \in 1..Len(Left), NEW j \in 1..Len(Right),
             i < it1' \/ j < it2'
      PROVE  ~Intersect(Left[i], Right[j])
  <2>1. CASE i < it1 \/ j < it2
    BY <1>1, <2>1 DEF BehindNoOverlap
  <2>2. CASE ~(i < it1 \/ j < it2)
    <3>1. it1 <= i /\ it2 <= j
      BY <1>3, <1>5, <2>2
    <3>2. CASE Left[it1].second < Right[it2].second
      <4>1. i = it1
        BY <1>3, <1>5, <1>7, <3>1, <3>2 DEF Advance
      <4> QED  BY <1>3, <1>4, <3>1, <3>2, <4>1, LeftDone
    <3>3. CASE ~(Left[it1].second < Right[it2].second)
      <4>1. j = it2
        BY <1>3, <1>5, <1>7, <3>1, <3>3 DEF Advance
      <4> QED  BY <1>3, <1>4, <3>1, <3>3, <4>1, RightDone
    <3> QED  BY <3>2, <3>3
  <2> QED  BY <2>1, <2>2
<1>8. BehindNoOverlap'
  BY <1>1, <1>2, <1>7 DEF BehindNoOverlap, Intersect, Overlap, Covers
<1>9. PredictionExact'
  BY <1>1, <1>2 DEF PredictionExact, Overlap, Covers
<1> QED  BY <1>6, <1>8, <1>9 DEF WalkInv

\* A walk that has come to the end of a list has compared everything.
LEMMA ExhaustedNoOverlap ==
  ASSUME WalkInv, Exhausted
  PROVE  ~Overlap(Left, Right)
<1>1. WalkTypeOK /\ BehindNoOverlap /\ Exhausted
  BY DEF WalkInv
<1>2. Left \in Seq(Range) /\ Right \in Seq(Range)
  BY <1>1, ListsSorted DEF Sorted
<1>3. it1 > Len(Left) \/ it2 > Len(Right)
  BY <1>1, <1>2 DEF Exhausted, Walking, WalkTypeOK
<1>4. \A i \in 1..Len(Left) : \A j \in 1..Len(Right) :
        ~Intersect(Left[i], Right[j])
  BY <1>1, <1>2, <1>3 DEF BehindNoOverlap, WalkTypeOK
<1> QED  BY <1>2, <1>4, OverlapMeansIntersect

LEMMA NextPairStep == WalkInv /\ NextPair => WalkInv'
<1> SUFFICES ASSUME WalkInv, NextPair PROVE WalkInv'
  OBVIOUS
<1>1. WalkTypeOK /\ BehindNoOverlap /\ PredictionExact /\ Exhausted
  BY DEF WalkInv, NextPair
<1>2. ~Overlap(Left, Right)
  BY <1>1, ExhaustedNoOverlap
<1>3. /\ t1' = t1 /\ t2' = t2 /\ result' = result /\ result = "PENDING"
      /\ it1' = 1 /\ it2' = 1
  BY DEF NextPair, Exhausted
<1>4. \/ pair = "WAW" /\ pair' = "RAW"
      \/ pair = "RAW" /\ pair' = "WAR"
  BY <1>1 DEF NextPair, WalkTypeOK
<1>5. Left' \in Seq(Range) /\ Right' \in Seq(Range)
  BY <1>1, <1>3, <1>4, ListsSorted DEF Left, Right, Sorted
<1>6. Len(Left') \in Nat /\ Len(Right') \in Nat
  BY <1>5
<1>7. WalkTypeOK'
  BY <1>1, <1>3, <1>4, <1>6 DEF WalkTypeOK
<1>8. BehindNoOverlap'
  <2>1. CASE pair = "WAW"
    BY <1>2, <1>3, <1>4, <2>1 DEF BehindNoOverlap, Left, Right, Overlap, Covers
  <2>2. CASE pair = "RAW"
    BY <1>1, <1>2, <1>3, <1>4, <2>2
      DEF BehindNoOverlap, Left, Right, Overlap, Covers
  <2> QED  BY <1>4, <2>1, <2>2
<1>9. PredictionExact'
  BY <1>1, <1>3 DEF PredictionExact, Overlap, Covers
<1> QED  BY <1>7, <1>8, <1>9 DEF WalkInv

LEMMA NoConflictStep == WalkInv /\ NoConflict => WalkInv'
<1> SUFFICES ASSUME WalkInv, NoConflict PROVE WalkInv'
  OBVIOUS
<1>1. WalkTypeOK /\ BehindNoOverlap /\ PredictionExact /\ Exhausted /\ pair = "WAR"
  BY DEF WalkInv, NoConflict
<1>2. ~Overlap(t1.read, t2.write)
  BY <1>1, ExhaustedNoOverlap DEF Left, Right
<1>3. ~Overlap(t1.write, t2.write) /\ ~Overlap(t1.write, t2.read)
  BY <1>1 DEF BehindNoOverlap
<1>4. Left' = Left /\ Right' = Right
  BY DEF NoConflict, Left, Right
<1>5. WalkTypeOK'
  BY <1>1, <1>4 DEF WalkTypeOK, NoConflict
<1>6. BehindNoOverlap'
  BY <1>1, <1>4 DEF BehindNoOverlap, NoConflict, Overlap, Covers, Intersect
<1>7. PredictionExact'
  BY <1>2, <1>3 DEF PredictionExact, NoConflict, Overlap, Covers
<1> QED  BY <1>5, <1>6, <1>7 DEF WalkInv
-----------------------------------------------------------------------------
\* The walk and the comparison of the lists keep the invariant.
THEOREM WalkInvariant == WalkSpec => []WalkInv
<1>1. WalkInv /\ [WalkNext]_walkVars => WalkInv'
  <2>1. WalkInv /\ UNCHANGED walkVars => WalkInv'
    BY DEF WalkInv, WalkTypeOK, BehindNoOverlap, PredictionExact, walkVars, Left, Right,
           Overlap, Covers, Intersect
  <2> QED  BY <2>1, FoundStep, AdvanceStep, NextPairStep, NoConflictStep DEF WalkNext
<1> QED  BY <1>1, InitWalkInv, PTL DEF WalkSpec

\* ConflictPredictor::predict_conflict names a conflict iff the keys of the
\* domain overlap, and the strongest one.
THEOREM PredictionIsExact == WalkSpec => []PredictionExact
<1>1. WalkInv => PredictionExact
  BY DEF WalkInv
<1> QED  BY <1>1, WalkInvariant, PTL

\* The iterators stay in their lists (ConflictPredictor.h:83).
THEOREM PredictionTypeCorrect == WalkSpec => []WalkTypeOK
<1>1. WalkInv => WalkTypeOK
  BY DEF WalkInv
<1> QED  BY <1>1, WalkInvariant, PTL
=============================================================================
