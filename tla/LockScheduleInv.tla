--------------------------- MODULE LockScheduleInv ---------------------------
(***************************************************************************)
(* What the lock managers and their executors know and hold at every       *)
(* moment: the parts of an inductive invariant of LockSchedule, for        *)
(* whatever schedule todo the nodes have agreed on.                        *)
(***************************************************************************)
EXTENDS LockSchedule

\* t waits in a queue of the executors of manager m.
Waits(n, m, t) ==
  \E w \in Executors : Serves(w) = m /\ \E i \in DOMAIN queue[n][w] : queue[n][w][i] = t

\* One of them has it in hand.
InHand(n, m, t) ==
  \E w \in Executors : Serves(w) = m /\ running[n][w] = t

\* Nodes that have rows of a transaction schedule it if any node does.
TodoAgreed ==
  \A o, n \in Nodes : \A t \in todo[o] : RowsAt(t, n) # {} => t \in todo[n]

\* A manager deals out its part of the schedule in the order of the ids.
DealtInOrder ==
  \A n \in Nodes, m \in Managers :
    /\ dealt[n][m] \subseteq todo[n]
    /\ \A t \in dealt[n][m], u \in todo[n] :
         u # t => Earlier(t, u) \/ (u \in dealt[n][m] /\ Earlier(u, t))

\* The rows it has locked without handing them on are of the transaction that
\* comes next.
GotForNext ==
  \A n \in Nodes, m \in Managers : got[n][m] # {} =>
    \E t \in Txns : AtHand(n, m, t) /\ got[n][m] \subseteq RowsOf(t, n, m)

\* The executors of a manager have what it has dealt them, each of it once.
HandedOut ==
  \A n \in Nodes, w \in Executors :
    /\ running[n][w] # NoTxn =>
         /\ running[n][w] \in dealt[n][Serves(w)]
         /\ RowsOf(running[n][w], n, Serves(w)) # {}
    /\ \A i \in DOMAIN queue[n][w] :
         /\ queue[n][w][i] \in dealt[n][Serves(w)]
         /\ RowsOf(queue[n][w][i], n, Serves(w)) # {}

HandedOutOnce ==
  \A n \in Nodes : \A v, w \in Executors : Serves(v) = Serves(w) =>
    /\ running[n][v] # NoTxn /\ running[n][v] = running[n][w] => v = w
    /\ \A i \in DOMAIN queue[n][v] : queue[n][v][i] # running[n][w]
    /\ \A i \in DOMAIN queue[n][v], j \in DOMAIN queue[n][w] :
         queue[n][v][i] = queue[n][w][j] => v = w /\ i = j

\* The locks of a row are those of its holders.
LockInv ==
  /\ ScheduleTypeOK
  /\ TodoAgreed /\ DealtInOrder /\ GotForNext
  /\ HandedOut /\ HandedOutOnce
  /\ RowLocksExact
-----------------------------------------------------------------------------
\* Manager m of n has not read its rows of t yet, nor sent them.
Unread(n, m, t) == t \notin dealt[n][m] \/ Waits(n, m, t)

\* The value of row k is on its way to node n for transaction t.
OnItsWay(t, k, n) ==
  \E c \in Lanes : c[1] = Owner[k] /\ c[2] = n
    /\ \E i \in DOMAIN reads[c] : reads[c][i].txn = t /\ reads[c][i].key = k

\* READ messages carry rows that have been read, each of them once.
ReadsInOrder ==
  /\ \A c \in Lanes : \A i \in DOMAIN reads[c] :
       LET msg == reads[c][i]
       IN  /\ msg.txn \in todo[c[1]] /\ c[2] \in Active(msg.txn)
           /\ msg.key \in RowsOf(msg.txn, c[1], Serves(c[3]))
           /\ ~Unread(c[1], Serves(c[3]), msg.txn)
  /\ \A c, d \in Lanes : c[1] = d[1] /\ c[2] = d[2] =>
       \A i \in DOMAIN reads[c], j \in DOMAIN reads[d] :
         reads[c][i].txn = reads[d][j].txn /\ reads[c][i].key = reads[d][j].key =>
           c = d /\ i = j

\* What a node still lacks of a transaction, of its own rows and of others.
LocalGap(t, n) == {k \in RowsAt(t, n) : Unread(n, ManagerOf[k], t)}
RemoteGap(t, n) ==
  {k \in prog[t].reads \ RowsAt(t, n) :
     Unread(Owner[k], ManagerOf[k], t) \/ OnItsWay(t, k, n)}

CountersExact ==
  \A n \in Nodes : \A t \in todo[n] : n \in Active(t) =>
    /\ local[n][t] = Cardinality(LocalGap(t, n))
    /\ remote[n][t] = Cardinality(RemoteGap(t, n))

\* The logic runs when nothing is lacking, for each manager that is done.
RunsCounted ==
  \A n \in Nodes : \A t \in todo[n] :
    /\ ran[n][t] > 0 => n \in Active(t) /\ LocalGap(t, n) = {} /\ RemoteGap(t, n) = {}
    /\ n \in Active(t) => \A k \in RowsAt(t, n) :
         LET m == ManagerOf[k]
         IN  /\ ran[n][t] = 0 => Unread(n, m, t) \/ InHand(n, m, t)
             /\ ~Split(t, n) =>
                  /\ ran[n][t] <= 1
                  /\ Unread(n, m, t) \/ InHand(n, m, t) => ran[n][t] = 0

CountInv == LockInv /\ ReadsInOrder /\ CountersExact /\ RunsCounted
=============================================================================
