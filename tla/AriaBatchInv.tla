---------------------------- MODULE AriaBatchInv ----------------------------
(***************************************************************************)
(* The inductive invariant of AriaBatch, in parts named for what they say. *)
(* TLC checks them on the small instance, AriaBatch_proofs proves them for *)
(* every cluster.                                                          *)
(***************************************************************************)
EXTENDS AriaBatch

\* The transactions that take part in the reservations of their batch.
Reserving(t) == ~prog[t].rollback /\ ~Unreserved(t)

Accesses(t, write) == IF write THEN Writes(t) ELSE Reads(t)

Counted(m) == m.type \in {"SEARCH", "CHECK"}

\* A message in flight is on its way between the two workers concerned, and
\* the transaction waits for every one that is counted; a write is that of a
\* commit.
MessageOK(c, m) ==
  /\ Home[m.txn] # Owner[m.key]
  /\ m.key \in Accesses(m.txn, m.write)
  /\ c = IF m.answer THEN Back(Route(m)) ELSE Route(m)
  /\ IF Counted(m) THEN Id(m) \in pend[m.txn] ELSE ~m.answer
  /\ m.type = "WRITE" => m.write /\ outcome[m.txn] = "committed"
  /\ BatchOf[m.txn] <= batch

MessagesOK == \A c \in Channels : \A i \in 1..Len(chan[c]) : MessageOK(c, chan[c][i])

\* A request that is counted is in flight once at most, its answer included.
NoDuplicates ==
  \A c, d \in Channels : \A i \in 1..Len(chan[c]) : \A j \in 1..Len(chan[d]) :
    LET m == chan[c][i]
        n == chan[d][j]
    IN  Counted(m) /\ m.txn = n.txn /\ Id(m) = Id(n) => c = d /\ i = j

\* Which requests a transaction may wait for at which point of its batch.
WaitOK(t, id) ==
  /\ t \in Current
  /\ id[2] \in Accesses(t, id[3])
  /\ \/ id[1] = "SEARCH" /\ phase = "READ" /\ step[t] = Executed
     \/ id[1] = "CHECK" /\ phase = "COMMIT" /\ step[t] = Analyzed

WaitsOK == \A t \in Txns : \A id \in pend[t] : WaitOK(t, id)

\* How far the transactions have come in each phase, and where the outcome of
\* one is decided.
StepsOK ==
  \A t \in Txns :
    /\ BatchOf[t] < batch => step[t] = Decided
    /\ BatchOf[t] > batch => step[t] = Generated
    /\ t \in Current =>
         /\ phase = "READ" => step[t] \in Generated..Reserved \/ outcome[t] = "no_retry"
         /\ phase = "COMMIT" => step[t] \in Reserved..Decided
         /\ phase = "DONE" => step[t] = Decided
    /\ outcome[t] = "none" <=> step[t] # Decided
    /\ outcome[t] = "no_retry" => prog[t].rollback
    /\ step[t] # Generated /\ outcome[t] # "no_retry" => ~prog[t].rollback

Discipline == TypeOK /\ MessagesOK /\ NoDuplicates /\ WaitsOK /\ StepsOK
-----------------------------------------------------------------------------
\* The messages in flight, and a request among them about one access.
Flight == UNION {{chan[c][i] : i \in 1..Len(chan[c])} : c \in Channels}

IsRequest(m, type, t, k, write) ==
  m.type = type /\ ~m.answer /\ m.txn = t /\ m.key = k /\ m.write = write

Requested(type, t, k, write) == \E m \in Flight : IsRequest(m, type, t, k, write)

\* A transaction that has executed has read the store, or the answer to a
\* search is outstanding and tells what the store holds; nobody writes while a
\* batch reads, unless a write is late.
SnapshotTaken ==
  lateWrite \/
  /\ phase = "READ" =>
       \A t \in Current : step[t] \in {Executed, Reserved} =>
         \A k \in Reads(t) : seen[t][k] = db[k] \/ <<"SEARCH", k, FALSE>> \in pend[t]
  /\ \A m \in Flight :
       /\ m.type = "SEARCH" /\ m.answer => m.val = db[m.key]
       /\ m.type = "WRITE" => phase = "COMMIT" /\ m.txn \in Current

\* The epoch fits its field of the word: reserve_read and the other writers
\* of the word assert it.
EpochsFit == NBatches < EpochModulus

HasReserved(t) ==
  /\ t \in Current
  /\ Reserving(t)
  /\ step[t] \in {Reserved, Analyzed}

\* Every word has the epoch of the batch once a reservation has reached it,
\* and a check comes behind the reservation of the same access.
EpochsOK ==
  /\ \A k \in Keys : word[k].epoch <= batch
  /\ \A t \in Txns : HasReserved(t) =>
       \A write \in BOOLEAN : \A k \in Accesses(t, write) :
         word[k].epoch = batch \/ Requested("RESERVE", t, k, write)
  /\ \A c \in Channels : \A i \in 1..Len(chan[c]) :
       LET m == chan[c][i]
       IN  m.type = "CHECK" =>
             \/ word[m.key].epoch = batch
             \/ /\ ~m.answer
                /\ \E j \in 1..Len(chan[c]) :
                     j < i /\ IsRequest(chan[c][j], "RESERVE", m.txn, m.key, m.write)
-----------------------------------------------------------------------------
Holds(t, k, write) ==
  LET ts == IF write THEN word[k].wts ELSE word[k].rts
  IN  word[k].epoch = batch /\ ts # 0 /\ ts <= Tid[t]

\* In the COMMIT phase, unless a reservation is late, the word of a row holds
\* an id at most that of each transaction that has reserved it.
ReservationsOK ==
  lateReserve \/
  /\ \A m \in Flight : m.type = "RESERVE" => phase = "READ" /\ m.txn \in Current
  /\ \A t \in Txns : t \in Current /\ Reserving(t) /\ step[t] >= Reserved =>
       \A write \in BOOLEAN : \A k \in Accesses(t, write) :
         Holds(t, k, write) \/ Requested("RESERVE", t, k, write)

\* The conflicts with smaller ids that a transaction must find at a row.
Conflicts(t, k, write) ==
  LET Smaller(w) == \E u \in Txns : /\ BatchOf[u] = BatchOf[t] /\ Reserving(u)
                                    /\ k \in Accesses(u, w) /\ Tid[u] < Tid[t]
  IN  {f \in Flags : \/ f = "raw" /\ ~write /\ Smaller(TRUE)
                     \/ f = "war" /\ write /\ Smaller(FALSE)
                     \/ f = "waw" /\ write /\ Smaller(TRUE)}

\* Once analyzed, a transaction has found its conflicts, or the answer to a
\* check is outstanding and will tell; or a raw conflict has ended the loop
\* over the read set, and no other raw conflict matters.
ChecksOK ==
  lateReserve \/
  /\ \A t \in Txns : Reserving(t) /\ step[t] >= Analyzed =>
       \A write \in BOOLEAN : \A k \in Accesses(t, write) :
         Conflicts(t, k, write) \subseteq flags[t] \/ <<"CHECK", k, write>> \in pend[t]
  /\ \A m \in Flight :
       m.type = "CHECK" /\ m.answer => Conflicts(m.txn, m.key, m.write) \subseteq m.found

\* Nothing is found out about a transaction once it has committed.
CommitsOK == \A t \in Committed : MayCommit(t)

ConflictInv == ReservationsOK /\ ChecksOK /\ CommitsOK

\* Two commits of a batch never write one row, and none has read what an
\* earlier one, in the order of the equivalent serial execution, has written.
ConflictOrder ==
  \A t, u \in Committed : t # u /\ BatchOf[t] = BatchOf[u] =>
    \/ lateReserve
    \/ /\ Writes(t) \cap Writes(u) = {}
       /\ SnapshotIsolation \/ Reads(t) \cap Writes(u) = {} \/ PrecedesInBatch(t, u)
-----------------------------------------------------------------------------
\* The commits of the batches before b.
Before(b) == {u \in Committed : BatchOf[u] < b}

\* The store holds what the batches before this one have left, save for the
\* rows its commits have written; their other writes are on their way.
StoreOK ==
  lateReserve \/ lateWrite \/
  \A k \in Keys :
    /\ \/ LeftBy(db[k], k, Before(batch))
       \/ db[k] \in Committed \cap Current /\ k \in Writes(db[k])
    /\ \A u \in Committed \cap Current :
         k \in Writes(u) => db[k] = u \/ Requested("WRITE", u, k, TRUE)

\* What a transaction has read is what the batches before its own have left.
ReadsOK ==
  lateReserve \/ lateWrite \/
  \A t \in Txns : ~prog[t].rollback /\ step[t] >= Reserved =>
    \A k \in Reads(t) : LeftBy(seen[t][k], k, Before(BatchOf[t]))

SerialInv == StoreOK /\ ReadsOK

\* The inductive invariant of the execution of batches: the counting of
\* pendingResponses, the snapshot, the epochs, the reservations of
\* AriaExecutor.h, the checks, and the store that results, in one.
BatchInv ==
  Discipline /\ SnapshotTaken /\ EpochsOK /\ ConflictInv /\ SerialInv
=============================================================================
