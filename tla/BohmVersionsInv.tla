-------------------------- MODULE BohmVersionsInv --------------------------
(***************************************************************************)
(* The inductive invariant of BohmVersions: who waits for what, which      *)
(* versions a row has, what they hold, what has been read of them, and     *)
(* which writes may still be on their way.                                 *)
(***************************************************************************)
EXTENDS BohmVersions

\* The messages that are on their way.
Flight == UNION {{chan[c][i] : i \in 1..Len(chan[c])} : c \in Channels}

InFlight(type, t, k) == \E m \in Flight : m.type = type /\ m.txn = t /\ m.key = k

-----------------------------------------------------------------------------
(* Discipline: the phases, the transactions and their messages.            *)

\* A batch begins with nobody finished, and same_batch repeats the programs.
PhasesOK ==
  /\ phase \in {"Analysis", "Execute", "DONE"} => finished = {}
  /\ sameBatch => \A t, u \in Txns : SlotOf(t) = SlotOf(u) => prog[t] = prog[u]

\* The batch of t has come to its execution, and past it.
Reached(t) == BatchOf(t) < batch
              \/ (BatchOf(t) = batch /\ phase \in {"Execute", "GC", "DONE"})
Passed(t)  == BatchOf(t) < batch
              \/ (BatchOf(t) = batch /\ phase \in {"GC", "DONE"})

\* A transaction runs in the execution of its batch, and is done after it.
StatusOf(t) ==
  /\ status[t] # "new" => ~prog[t].rollback /\ Reached(t)
  /\ status[t] \in {"waiting", "committing"} => ~Passed(t)
  /\ Passed(t) /\ ~prog[t].rollback => status[t] = "done"

StatusOK == \A t \in Txns : StatusOf(t)

\* The reads of t that a batch repeated by same_batch takes from the first.
Repeats(t) == sameBatch /\ BatchOf(t) > 1

Analyzed(t) == BatchOf(t) < batch \/ (BatchOf(t) = batch /\ phase # "Analysis")

\* Who waits still needs what it waits for, and who commits needs nothing.
WaitsOf(t) ==
  /\ need[t] \subseteq Reads(t)
  /\ pend[t] \subseteq Remote(t, need[t])
  /\ status[t] # "waiting" => pend[t] = {} /\ ~notReady[t]
  /\ status[t] = "waiting" /\ ~notReady[t] => need[t] = pend[t]
  /\ status[t] \in {"committing", "done"} => need[t] = {}
  /\ Repeats(t) /\ Analyzed(t) /\ ~prog[t].rollback => need[t] = {}
  /\ left[t] \subseteq Local(t, Writes(t))
  /\ status[t] # "committing" => left[t] = {}

WaitsOK == \A t \in Txns : WaitsOf(t)

\* Requests are on the way to the row and answers on the way back; a read is
\* waited for, a write comes from a transaction that is done.
MessageOK(c, m) ==
  /\ c = IF m.answer THEN Back(Route(m)) ELSE Route(m)
  /\ m.type = "READ" => m.key \in pend[m.txn]
  /\ m.type = "WRITE" => /\ ~m.answer
                         /\ status[m.txn] = "done"
                         /\ m.key \in Remote(m.txn, Writes(m.txn))

MessagesOK == \A c \in Channels : \A i \in 1..Len(chan[c]) : MessageOK(c, chan[c][i])

\* No two messages are about the same access.
NoTwins ==
  \A c, d \in Channels : \A i \in 1..Len(chan[c]), j \in 1..Len(chan[d]) :
    /\ chan[c][i].type = chan[d][j].type
    /\ chan[c][i].txn = chan[d][j].txn
    /\ chan[c][i].key = chan[d][j].key
    => c = d /\ i = j

Discipline == TypeOK /\ PhasesOK /\ StatusOK /\ WaitsOK /\ MessagesOK /\ NoTwins
-----------------------------------------------------------------------------
(* Which versions a row has.                                               *)

FirstOf(b) == b * BatchSize

Inserted(k) ==
  \/ phase \in {"Execute", "GC", "DONE"}
  \/ phase = "Insert" /\ <<Owner[k], InserterOf[k]>> \in finished

Collected(k) ==
  \/ phase = "DONE"
  \/ phase = "GC" /\ \E t \in Current : /\ k \in Writes(t)
                                        /\ <<Owner[k], SlotOf(t) % NWorkers>> \in finished

Newest(k) == WriterBefore(k, FirstOf(IF Inserted(k) THEN batch + 1 ELSE batch))
Oldest(k) == WriterBefore(k, FirstOf(batch))

\* From the newest down, each version is that of the writer before.
ChainOf(k) ==
  LET s == store[k]
  IN  /\ s # <<>>
      /\ s[1].ver = Newest(k)
      /\ \A i \in 1..Len(s) - 1 : s[i + 1].ver = WriterBefore(k, s[i].ver)
      /\ \A i, j \in 1..Len(s) : i < j => s[i].ver > s[j].ver
      /\ IF Collected(k) THEN Len(s) = 1 ELSE s[Len(s)].ver = Oldest(k)

ChainOK == \A k \in Keys : ChainOf(k)
-----------------------------------------------------------------------------
(* What the versions hold, and what has been read.                         *)

\* t has come to its write of k, and the write is not on its way any more.
Written(t, k) ==
  /\ status[t] \in {"committing", "done"}
  /\ Owner[k] # HomeOf(t) => status[t] = "done"
  /\ ~InFlight("WRITE", t, k)

Settled(t, k) == t = 0 \/ Written(t, k)

\* A version that is ready has its value, but between the steps of update.
VersionOK(k, v) ==
  Ready(v) => /\ Settled(v.ver, k)
              /\ \/ v.val = v.ver
                 \/ v.ver # 0 /\ v.val = Unwritten /\ k \in left[v.ver]

ContentsOK == \A k \in Keys : \A i \in 1..Len(store[k]) : VersionOK(k, store[k][i])

\* What has been read is what the writer before has written.
ReadsOK ==
  \A t \in Txns : \A k \in Reads(t) \ need[t] :
    /\ torn \/ seen[t][k] = WriterBefore(k, ReadAs(t))
    /\ ~Repeats(t) => Settled(WriterBefore(k, t), k)

AnswersOK ==
  \A m \in Flight : m.type = "READ" /\ m.answer /\ m.ok =>
    /\ torn \/ m.val = WriterBefore(m.key, m.txn)
    /\ Settled(WriterBefore(m.key, m.txn), m.key)

\* A writer that commits before a write of the same row has arrived has not
\* waited for it, or follows one that has not.
OvertakersBlind ==
  \A k \in Keys : \A t, u \in Writers(k) :
    t < u /\ ~Written(t, k) /\ status[u] \in {"committing", "done"} =>
      \E b \in Writers(k) : t < b /\ b <= u /\ Blind(b, k)

\* Only then is the version of a write gone before it arrives.
WritesWait ==
  \A m \in Flight : m.type = "WRITE" =>
    \/ Has(store[m.key], m.txn)
    \/ \E u \in Writers(m.key) : u > m.txn /\ Blind(u, m.key)

VersionInv ==
  /\ Discipline /\ ChainOK /\ ContentsOK
  /\ ReadsOK /\ AnswersOK /\ OvertakersBlind /\ WritesWait
=============================================================================
