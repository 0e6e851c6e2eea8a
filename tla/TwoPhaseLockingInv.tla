------------------------- MODULE TwoPhaseLockingInv -------------------------
(***************************************************************************)
(* The inductive invariant of TwoPhaseLocking, in parts named for what     *)
(* they say.  TLC checks it on the small instance, TwoPhaseLocking_proofs  *)
(* proves it for every cluster.                                            *)
(***************************************************************************)
EXTENDS TwoPhaseLocking

Route(m) ==
  LET there == <<Home[m.txn], m.to, WorkerOf[m.txn]>>
  IN  IF m.answer THEN Back(there) ELSE there

\* Where a transaction waits for an answer.
StageOf == [LOCK |-> "asked", WRITE |-> "writing", REPLICATION |-> "writing",
            RELEASE |-> "releasing"]

\* A message in flight is on its way between the two workers concerned, and
\* the transaction waits for it, unless it is the release of an abort.
MessageOK(c, m) ==
  /\ c = Route(m)
  /\ m.key \in Rows(m.txn) /\ (m.write <=> m.key \in Writes(m.txn))
  /\ IF m.type = "REPLICATION" THEN m.to \in Replicas[m.key] ELSE m.to = Master[m.key]
  /\ m.type \in {"WRITE", "REPLICATION"} => m.write
  /\ IF m.type = "ABORT" THEN ~m.answer ELSE Id(m) \in pend[m.txn]
  /\ m.type \in {"REPLICATION", "RELEASE"} => m.tid = tid[m.txn]
  /\ m.ok => m.type = "LOCK" /\ m.answer

MessagesOK == \A c \in Channels : \A i \in 1..Len(chan[c]) : MessageOK(c, chan[c][i])

\* Each is in flight once at most, as a request or as its answer.
NoDuplicates ==
  \A c, d \in Channels : \A i \in 1..Len(chan[c]), j \in 1..Len(chan[d]) :
    chan[c][i].txn = chan[d][j].txn /\ Id(chan[c][i]) = Id(chan[d][j]) => c = d /\ i = j

WaitsOK ==
  \A t \in Txns : \A id \in pend[t] : id[1] # "ABORT" /\ stage[t] = StageOf[id[1]]

\* Which locks a transaction has in hand.
HeldOK ==
  \A t \in Txns :
    /\ held[t] \subseteq Rows(t)
    /\ stage[t] \in {"waiting", "releasing", "committed", "rolled_back"} => held[t] = {}
    /\ stage[t] = "locking" =>
         /\ held[t] \subseteq tried[t] /\ \A k \in held[t] : IsLocal(t, k)
         /\ \A k \in tried[t] : k \in held[t] \/ failed[t]
    /\ stage[t] = "asked" => \A k \in Rows(t) :
         /\ k \in held[t] => <<"LOCK", k, Master[k]>> \notin pend[t]
         /\ k \in held[t] \/ failed[t] \/ <<"LOCK", k, Master[k]>> \in pend[t]
    /\ stage[t] = "writing" => held[t] = Rows(t)

\* Nobody acknowledges the release of an abort; but the next request for the
\* same lock is behind it.
AbortsFirst ==
  \A c \in Channels : \A i \in 1..Len(chan[c]) :
    LET m == chan[c][i]
    IN  m.type = "ABORT" =>
          /\ m.key \notin held[m.txn]
          /\ stage[m.txn] \in {"waiting", "locking", "asked", "rolled_back"}
          /\ stage[m.txn] = "asked" => \E j \in 1..Len(chan[c]) :
               /\ j > i /\ ~chan[c][j].answer
               /\ chan[c][j].txn = m.txn /\ Id(chan[c][j]) = <<"LOCK", m.key, m.to>>

Discipline ==
  TypeOK /\ MessagesOK /\ NoDuplicates /\ WaitsOK /\ HeldOK /\ AbortsFirst
-----------------------------------------------------------------------------
\* A request of a transaction is in flight, or has been granted.
Requested(type, t, k, n) ==
  \E c \in Channels : \E i \in 1..Len(chan[c]) :
    ~chan[c][i].answer /\ chan[c][i].txn = t /\ Id(chan[c][i]) = <<type, k, n>>

Granted(t, k) ==
  \E c \in Channels : \E i \in 1..Len(chan[c]) :
    chan[c][i].ok /\ chan[c][i].txn = t /\ chan[c][i].key = k

\* t has a lock of k, in hand or on its way to or from it.
Holds(t, k) ==
  \/ k \in held[t] \/ Granted(t, k)
  \/ Requested("ABORT", t, k, Master[k]) \/ Requested("RELEASE", t, k, Master[k])

RowLocked(k) ==
  LET r       == row[<<Master[k], k>>]
      holders == {t \in Txns : Holds(t, k)}
      readers == {t \in holders : k \in Reads(t)}
      writers == {t \in holders : k \in Writes(t)}
  IN  /\ IsFiniteSet(holders)
      /\ r.readers = Cardinality(readers)
      /\ r.locked <=> writers # {}
      /\ writers # {} => readers = {} /\ Cardinality(writers) = 1

LocksInv ==
  /\ \A k \in Keys : RowLocked(k)
  /\ \A p \in Copies : p[1] # Master[p[2]] => IsFree(row[p])
-----------------------------------------------------------------------------
MasterRow(k) == row[<<Master[k], k>>]

\* What a transaction has been told of a row, and what it will be told, is
\* what the row still holds.
ReadsCurrent ==
  /\ \A t \in Txns : stage[t] \in {"locking", "asked"} => \A k \in held[t] :
       seen[t][k] = MasterRow(k).val /\ seenTid[t][k] = MasterRow(k).tid
  /\ \A c \in Channels : \A i \in 1..Len(chan[c]) :
       LET m == chan[c][i]
       IN  m.ok => m.val = MasterRow(m.key).val /\ m.tid = MasterRow(m.key).tid

\* What a transaction writes is in the row, or on its way there.
WritesArrive ==
  \A t \in Txns : stage[t] = "writing" => \A k \in Writes(t) :
    /\ MasterRow(k).val = t \/ Requested("WRITE", t, k, Master[k])
    /\ \A n \in Replicas[k] : row[<<n, k>>].val = t \/ Requested("REPLICATION", t, k, n)

\* A commit that still has its lock will give the row a larger tid; and no
\* copy has a larger one than that.
Installing(t, k) == k \in Writes(t) /\ stage[t] \in {"writing", "releasing"} /\ Holds(t, k)

TidsGrow ==
  /\ \A t \in Txns, k \in Keys : Installing(t, k) => MasterRow(k).tid < tid[t]
  /\ \A k \in Keys : \A n \in Replicas[k] :
       \/ row[<<n, k>>].tid <= MasterRow(k).tid
       \/ \E t \in Txns : Installing(t, k) /\ row[<<n, k>>].tid <= tid[t]

\* Locks are exact, and so reads are current when their transaction commits
\* and writes are complete when it releases: the invariant is inductive.
LockingInv ==
  Discipline /\ LocksInv /\ ReadsCurrent /\ WritesArrive /\ TidsGrow /\ ReplicasFollow
=============================================================================
