--------------------------- MODULE MCDatabaseJobs ---------------------------
(* The commands that keep the database, as main.go dispatches them: a      *)
(* behaviour is one of them, with the processes and the clock it meets.    *)
EXTENDS Transactions, Partitions, NodeOffers, NodeProbes, DailyStats

\* A chain of five transfers: one to the payouts, three of theirs (two of them
\* alike but for their block) and one of a receiver's.
Sent(b, a, f, t, v) == [block |-> b, at |-> a, from |-> f, to |-> t, value |-> v]
SmallChain == <<Sent(1, 0, "x", "p", 9), Sent(1, 1, "p", "a", 3), Sent(2, 1, "p", "a", 3),
                Sent(3, 2, "p", "b", 2), Sent(4, 3, "a", "x", 4)>>

\* What three satellites may return: two nodes in either order, old and new.
TwoNodeLists == {<<1, 2>>, <<2, 1>>, <<2, 3>>, <<3, 1>>}

VARIABLE command

jobVars == <<command, txVars, partVars, offVars, probeVars, statVars>>

JobsInit ==
  /\ command \in {"fetch-transactions", "optimize-db", "fetch-nodes", "probe-nodes", "stat-nodes"}
  /\ TxInit /\ PartInit /\ OffersInit /\ ProbesInit /\ StatInit
  \* One initial state of the variables that the command does not use.
  /\ command # "fetch-nodes" => nodes = {}
  /\ command # "probe-nodes" => offerAge = [n \in Probed |-> "old"]
  /\ command # "stat-nodes" => offAt = "off" /\ statActive = {}

CMDFetchTransactions ==
  /\ command = "fetch-transactions" /\ TxNext
  /\ UNCHANGED <<partVars, offVars, probeVars, statVars>>
CMDOptimizeDB ==
  /\ command = "optimize-db" /\ PartNext
  /\ UNCHANGED <<txVars, offVars, probeVars, statVars>>
CMDFetchNodes ==
  /\ command = "fetch-nodes" /\ OffersNext
  /\ UNCHANGED <<txVars, partVars, probeVars, statVars>>
CMDProbeNodes ==
  /\ command = "probe-nodes" /\ ProbesNext
  /\ UNCHANGED <<txVars, partVars, offVars, statVars>>
CMDStatNodes ==
  /\ command = "stat-nodes" /\ StatNext
  /\ UNCHANGED <<txVars, partVars, offVars, probeVars>>

JobsNext ==
  /\ UNCHANGED command
  /\ \/ CMDFetchTransactions \/ CMDOptimizeDB \/ CMDFetchNodes \/ CMDProbeNodes \/ CMDStatNodes

\* The modules' fairness (TxFairness, PartFairness, ProbesFairness,
\* StatFairness), of the command that runs.
JobsFairness ==
  /\ WF_txVars(command = "fetch-transactions" /\ FetchStep)
  /\ WF_partVars(command = "optimize-db" /\ PartTick)
  /\ SF_partVars(command = "optimize-db" /\ MoverStep)
  /\ WF_partVars(command = "optimize-db" /\ CommitPings)
  /\ SF_partVars(command = "optimize-db" /\ EndRead)
  /\ WF_partVars(command = "optimize-db" /\ BreakDeadlock)
  /\ WF_probeVars(command = "probe-nodes" /\ LoadOldNodes)
  /\ WF_probeVars(command = "probe-nodes" /\ ProbeNode)
  /\ \A n \in Probed : WF_probeVars(command = "probe-nodes" /\ CheckAges(n))
  /\ WF_statVars(command = "stat-nodes" /\ StatOff)

JobsSpec == JobsInit /\ [][JobsNext]_jobVars /\ JobsFairness

\* The modules' type invariants together.
JobsTypeOK == OffersTypeOK /\ ProbesTypeOK /\ DailyTypeOK
=============================================================================
