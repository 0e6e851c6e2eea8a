--------------------------- MODULE AriaFallbackInv ---------------------------
(***************************************************************************)
(* The inductive invariant of the fallback of AriaFB: how the aborts of    *)
(* Aria become, on all nodes, one schedule of the lock managers.           *)
(***************************************************************************)
EXTENDS AriaFallback, LockScheduleInv

\* The transactions that the fallback of this batch is to run, and those of a
\* node, which has run them in Aria.
Fallen == FellBack \cap Current
Own(n) == {t \in Fallen : Home[t] = n}

\* What the steps of Aria leave: messages may be taken in any later phase.
AriaTypes ==
  /\ batch \in 1..NBatches
  /\ phase \in {"READ", "COMMIT", "EXCHANGE", "PREPARE", "FALLBACK", "DONE"}
  /\ prog \in [Txns -> Programs]
  /\ step \in [Txns -> Aria!Generated..Aria!Decided]
  /\ outcome \in [Txns -> {"none", "no_retry", "aborted", "committed"}]
  /\ word \in [Keys -> Aria!Word]
  /\ chan \in [Aria!Channels -> Seq(Aria!Message)]
  /\ abortLock \in [Nodes -> SUBSET Txns]

\* A transaction is decided before the aborts are exchanged, and for good.
Outcomes ==
  \A t \in Txns :
    /\ outcome[t] = "none" <=> step[t] # Aria!Decided
    /\ BatchOf[t] < batch => step[t] = Aria!Decided
    /\ BatchOf[t] > batch => step[t] = Aria!Generated
    /\ BatchOf[t] = batch /\ phase \notin {"READ", "COMMIT"} => step[t] = Aria!Decided
    /\ BatchOf[t] = batch /\ phase = "READ" => outcome[t] \in {"none", "no_retry"}

\* The dry run on the home of a transaction counts for the fallback.
HomeCounts ==
  phase \in {"READ", "COMMIT", "EXCHANGE", "PREPARE"} =>
    \A t \in Current : step[t] >= Aria!Executed /\ outcome[t] # "no_retry" =>
      /\ local[Home[t]][t] = LocalReads(t, Home[t])
      /\ remote[Home[t]][t] = RemoteReads(t, Home[t])

\* What has not arrived yet is in flight, first to the master, then from it.
FromNode(n) == [from |-> n, to |-> Master, tids |-> Own(n)]
ToNode(n)   == [from |-> Master, to |-> n, tids |-> Fallen]

Collected ==
  /\ \A n \in Nodes \ {Master} : abortLock[n] = Own(n)
  /\ mail \subseteq {FromNode(n) : n \in told}
  /\ Own(Master) \subseteq abortLock[Master] /\ abortLock[Master] \subseteq Fallen
  /\ \A n \in told : FromNode(n) \in mail \/ Own(n) \subseteq abortLock[Master]

Spread ==
  /\ Nodes \subseteq told /\ abortLock[Master] = Fallen
  /\ mail \subseteq {ToNode(n) : n \in Nodes \ {Master}}
  /\ \A n \in Nodes : abortLock[n] \subseteq Fallen
  /\ \A n \in Nodes \ {Master} : ToNode(n) \in mail \/ abortLock[n] = Fallen

AbortsKnown ==
  /\ told \subseteq Nodes
  /\ phase # "EXCHANGE" => mail = {} /\ told = {}
  /\ phase \in {"READ", "DONE"} => \A n \in Nodes : abortLock[n] = {}
  /\ phase = "COMMIT" => \A n \in Nodes : abortLock[n] = Own(n)
  /\ phase = "EXCHANGE" => IF Master \in told THEN Spread ELSE Collected
  /\ phase \in {"PREPARE", "FALLBACK"} => \A n \in Nodes : abortLock[n] = Fallen

\* What is to be scheduled has the counters of a transaction nobody has begun.
Prepared ==
  /\ phase \notin {"PREPARE", "FALLBACK"} => \A n \in Nodes : todo[n] = {}
  /\ phase = "PREPARE" => \A n \in Nodes : \A t \in todo[n] :
       /\ t \in Relevant(n)
       /\ local[n][t] = LocalReads(t, n) /\ remote[n][t] = RemoteReads(t, n)
  /\ phase = "FALLBACK" => \A n \in Nodes : todo[n] = Relevant(n)

\* Outside the fallback no lock is held and no READ is on its way.
Resting ==
  /\ \A n \in Nodes, m \in Managers : got[n][m] = {} /\ dealt[n][m] = {}
  /\ \A n \in Nodes, w \in Executors : running[n][w] = NoTxn /\ queue[n][w] = <<>>
  /\ \A c \in Lanes : reads[c] = <<>>
  /\ \A k \in Keys : BlindRow(k) \/ lock[k] = Free

\* What has fallen back in an earlier batch has been executed on each node
\* that writes for it; nothing has been that is not in a schedule.
Past(t) == BatchOf[t] < batch \/ phase = "DONE"

Executions ==
  \A n \in Nodes, t \in Txns :
    /\ t \notin FellBack => ran[n][t] = 0
    /\ ~Past(t) /\ t \notin todo[n] => ran[n][t] = 0
    /\ ~Past(t) /\ phase # "FALLBACK" => ran[n][t] = 0
    /\ Past(t) /\ t \in FellBack /\ n \in Active(t) =>
         ran[n][t] = 1 \/ (ran[n][t] > 1 /\ Split(t, n))

\* The fallback schedules, on every node, what Aria has aborted on any, and
\* leaves no lock behind.  The invariant is inductive.
FallbackInv ==
  /\ AriaTypes /\ ScheduleTypeOK
  /\ Outcomes /\ HomeCounts /\ AbortsKnown /\ Prepared /\ Executions
  /\ IF phase = "FALLBACK" THEN CountInv ELSE Resting

\* While no reservation comes late, none is on its way outside READ, and what
\* Prepare has cleared stays so.  With FallbackInv this is inductive, too.
Others == {m \in Aria!Message : m.type # "RESERVE"}

WordsCleared ==
  lateReserve \/
  /\ phase # "READ" => \A c \in Aria!Channels : chan[c] \in Seq(Others)
  /\ phase \in {"PREPARE", "FALLBACK"} =>
       \A n \in Nodes : \A t \in todo[n] : \A k \in RowsAt(t, n) :
         word[k] = Aria!ZeroWord
=============================================================================
