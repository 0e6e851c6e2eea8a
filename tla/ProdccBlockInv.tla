--------------------------- MODULE ProdccBlockInv ---------------------------
(***************************************************************************)
(* The inductive invariant of ProdccBlock, in parts named for what they    *)
(* say.  TLC checks them on the small instances, ProdccBlock_proofs proves *)
(* them for every cluster.                                                 *)
(***************************************************************************)
EXTENDS ProdccBlock

Live(t) == outcome[t] # "no_retry"

\* The transactions that take part in the reservations of their block.
Reserving(t) == Live(t) /\ ~Unreserved(t)

Accesses(t, write) == IF write THEN Writes(t) ELSE Reads(t)

Counted(m) == m.type # "RESERVE"

\* A message in flight is on its way between the two workers concerned, and
\* the transaction waits for every one that is counted.
MessageOK(c, m) ==
  /\ Home[m.txn] # Owner[m.key]
  /\ m.key \in Accesses(m.txn, m.write)
  /\ c = IF m.answer THEN Back(Route(m)) ELSE Route(m)
  /\ IF Counted(m) THEN Id(m) \in pend[m.txn] ELSE ~m.answer

MessagesOK == \A c \in Channels : \A i \in 1..Len(chan[c]) : MessageOK(c, chan[c][i])

\* A request that is counted is in flight once at most, its answer included.
NoDuplicates ==
  \A c, d \in Channels : \A i \in 1..Len(chan[c]) : \A j \in 1..Len(chan[d]) :
    LET m == chan[c][i]
        n == chan[d][j]
    IN  Counted(m) /\ m.txn = n.txn /\ Id(m) = Id(n) => c = d /\ i = j

\* Which requests a transaction may wait for at which point of its block.
WaitOK(t, id) ==
  /\ t \in Current
  /\ id[2] \in Accesses(t, id[3])
  /\ id[1] # "RESERVE"
  /\ id[1] = "SEARCH" => outcome[t] = "none" /\ phase = "EXECUTE" /\ done[t]
  /\ id[1] = "CHECK" => /\ outcome[t] = "none"
                        /\ \/ phase = "ANALYZE" /\ done[t]
                           \/ phase = "FINALIZE" /\ ~done[t]
  /\ id[1] = "WRITE" => /\ outcome[t] = "committed" /\ id[3]
                        /\ phase \in {"FINALIZE", "CLEANUP"}
  /\ id[1] = "CLEANUP" => phase = "CLEANUP" /\ done[t]

WaitsOK == \A t \in Txns : \A id \in pend[t] : WaitOK(t, id)

\* Where the outcome of a transaction is decided.
OutcomesOK ==
  \A t \in Txns :
    /\ outcome[t] # "none" => BlockOf[t] <= block
    /\ outcome[t] \in {"committed", "delayed"} /\ t \in Current =>
         (phase = "FINALIZE" /\ done[t]) \/ phase \in {"CLEANUP", "DONE"}
    /\ phase = "EXECUTE" /\ t \in Current /\ ~done[t] => outcome[t] = "none"

Discipline == TypeOK /\ MessagesOK /\ NoDuplicates /\ WaitsOK /\ OutcomesOK
-----------------------------------------------------------------------------
\* The transaction's reservations of a row, at the row or still on their way.
Asking(t, k, write) ==
  \E c \in Channels : \E i \in 1..Len(chan[c]) :
    LET m == chan[c][i]
    IN  m.type = "RESERVE" /\ m.txn = t /\ m.key = k /\ m.write = write

Holds(t, k, write) ==
  LET ts == IF write THEN word[k].wts ELSE word[k].rts
  IN  word[k].epoch = Epoch(t) /\ ts # 0 /\ ts <= Tid[t]

HasReserved(t) ==
  /\ t \in Current
  /\ Reserving(t)
  /\ \/ phase = "RESERVE" /\ done[t]
     \/ phase \in {"ANALYZE", "FINALIZE"}

ReservationsOK ==
  late \/
  /\ \A k \in Keys : word[k].epoch <= EpochOf[block]
  /\ \A c \in Channels : \A i \in 1..Len(chan[c]) :
       LET m == chan[c][i]
       IN  m.type = "RESERVE" => phase = "RESERVE" /\ m.txn \in Current
  /\ \A t \in Txns : HasReserved(t) =>
       \A write \in BOOLEAN : \A k \in Accesses(t, write) :
         Holds(t, k, write) \/ (phase = "RESERVE" /\ Asking(t, k, write))

\* The conflicts with smaller ids that a transaction must find at a row.
Conflicts(t, k, write) ==
  LET Smaller(w) == \E u \in Txns : /\ BlockOf[u] = BlockOf[t] /\ Reserving(u)
                                    /\ k \in Accesses(u, w) /\ Tid[u] < Tid[t]
  IN  {f \in Flags : \/ f = "raw" /\ ~write /\ Smaller(TRUE)
                     \/ f = "war" /\ write /\ Smaller(FALSE)
                     \/ f = "waw" /\ write /\ Smaller(TRUE)}

Analyzed(t) ==
  /\ Reserving(t)
  /\ \/ BlockOf[t] < block
     \/ t \in Current /\ phase \in {"FINALIZE", "CLEANUP", "DONE"}
     \/ t \in Current /\ phase = "ANALYZE" /\ done[t]

\* The answer to a check of one row.
Answers(m, t, k, write) ==
  m.type = "CHECK" /\ m.answer /\ m.txn = t /\ m.key = k /\ m.write = write

\* Once analyzed, a transaction has found its conflicts, or the answer to a
\* check is outstanding and will tell; or a raw conflict has ended the loop
\* over the read set, and no other raw conflict matters.
ChecksOK ==
  late \/
  /\ \A t \in Txns : Analyzed(t) =>
       \A write \in BOOLEAN : \A k \in Accesses(t, write) :
         Conflicts(t, k, write) \subseteq flags[t] \/ <<"CHECK", k, write>> \in pend[t]
  /\ \A t \in Txns : \A k \in Keys : \A write \in BOOLEAN :
       \A c \in Channels : \A i \in 1..Len(chan[c]) :
         Answers(chan[c][i], t, k, write) =>
           Conflicts(t, k, write) \subseteq chan[c][i].found

\* Nothing is found out about a transaction once it has committed.
CommitsOK == \A t \in Committed : MayCommit(t)

\* The epoch fits its field of the word: reserve_read and the other writers
\* of the word assert it.
EpochsFit == \A b \in 1..NBlocks : EpochOf[b] < EpochModulus

ConflictInv == Discipline /\ ReservationsOK /\ ChecksOK /\ CommitsOK
-----------------------------------------------------------------------------
\* A request about one access of a transaction, and such a request in flight.
IsRequest(m, type, t, k, write) ==
  m.type = type /\ ~m.answer /\ m.txn = t /\ m.key = k /\ m.write = write

Requested(type, t, k, write) ==
  \E c \in Channels : \E i \in 1..Len(chan[c]) : IsRequest(chan[c][i], type, t, k, write)

\* A reservation may be late, but its clean-up comes behind it.
CleanupsFollow ==
  \A c \in Channels : \A i \in 1..Len(chan[c]) :
    LET m == chan[c][i]
    IN  m.type = "RESERVE" =>
          /\ m.txn \in Current
          /\ phase \in {"RESERVE", "ANALYZE", "FINALIZE", "CLEANUP"}
          /\ phase = "CLEANUP" /\ done[m.txn] =>
               \E j \in 1..Len(chan[c]) :
                 j > i /\ IsRequest(chan[c][j], "CLEANUP", m.txn, m.key, m.write)

\* A word that is not 0 is one that somebody will still clean.
SomebodyCleans ==
  \A k \in Keys : word[k] # ZeroWord =>
    /\ phase \in {"RESERVE", "ANALYZE", "FINALIZE", "CLEANUP"}
    /\ \E t \in Current :
         /\ k \in Reads(t) \cup Writes(t)
         /\ phase = "CLEANUP" /\ done[t] =>
              \E write \in BOOLEAN : Requested("CLEANUP", t, k, write)

\* A transaction that has executed has read the store, or the answer to a
\* search is outstanding and tells what the store holds.
SnapshotTaken ==
  /\ \A t \in Current :
       Live(t) /\ (phase \in {"RESERVE", "ANALYZE"} \/ (phase = "EXECUTE" /\ done[t])) =>
         \A k \in Reads(t) : seen[t][k] = db[k] \/ <<"SEARCH", k, FALSE>> \in pend[t]
  /\ \A c \in Channels : \A i \in 1..Len(chan[c]) :
       LET m == chan[c][i] IN m.type = "SEARCH" /\ m.answer => m.val = db[m.key]

\* Nothing of a block is left for the next, whether or not messages are late.
LeftoverInv == CleanupsFollow /\ SomebodyCleans /\ SnapshotTaken

\* Every word has the epoch of the block once a reservation has reached it,
\* and a check comes behind the reservation of the same access.
EpochsOK ==
  /\ \A k \in Keys : word[k].epoch <= EpochOf[block]
  /\ \A t \in Txns : HasReserved(t) =>
       \A write \in BOOLEAN : \A k \in Accesses(t, write) :
         word[k].epoch = Epoch(t) \/ Requested("RESERVE", t, k, write)
  /\ \A c \in Channels : \A i \in 1..Len(chan[c]) :
       LET m == chan[c][i]
       IN  m.type = "CHECK" =>
             \/ word[m.key].epoch = Epoch(m.txn)
             \/ /\ ~m.answer
                /\ \E j \in 1..Len(chan[c]) :
                     j < i /\ IsRequest(chan[c][j], "RESERVE", m.txn, m.key, m.write)
-----------------------------------------------------------------------------
\* The commits of the blocks before b.
Before(b) == {u \in Committed : BlockOf[u] < b}

\* The store holds what the blocks before this one have left, save for the
\* rows its commits have written; their other writes are on their way.
StoreOK ==
  late \/
  \A k \in Keys :
    /\ \/ LeftBy(db[k], k, Before(block))
       \/ db[k] \in Committed \cap Current /\ k \in Writes(db[k])
    /\ \A u \in Committed \cap Current :
         k \in Writes(u) => db[k] = u \/ Requested("WRITE", u, k, TRUE)

\* What a transaction has read is what the blocks before its own have left.
ReadsOK ==
  late \/
  \A t \in Txns : Live(t) /\ (BlockOf[t] < block \/ (t \in Current /\ phase # "EXECUTE")) =>
    \A k \in Reads(t) : LeftBy(seen[t][k], k, Before(BlockOf[t]))

SerialInv == StoreOK /\ ReadsOK

\* The inductive invariant of the execution of micro-blocks: the counting of
\* pendingResponses, the reservations of ProdccExecutor.h, the checks, the
\* clean-up, and the store that results, in one.
BlockInv == ConflictInv /\ LeftoverInv /\ EpochsOK /\ SerialInv
-----------------------------------------------------------------------------
\* No commit of a block has read what an earlier one, in the order of the
\* equivalent serial execution, has written: the decision of
\* finalize_transactions, from the flags that analyze_dependency and the
\* check messages gather.
ConflictOrder ==
  \A t, u \in Committed :
    \/ late \/ SnapshotIsolation \/ t = u \/ BlockOf[t] # BlockOf[u]
    \/ Reads(t) \cap Writes(u) = {}
    \/ PrecedesInBlock(t, u)
=============================================================================
