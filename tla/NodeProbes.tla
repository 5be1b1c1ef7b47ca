----------------------------- MODULE NodeProbes -----------------------------
(***************************************************************************)
(* Which nodes the prober dials and what it writes down (nodes/prober.go). *)
(* ProbePipeline models how jobs go through its goroutines; here is the    *)
(* table they come from and end in: the loader takes the nodes that are    *)
(* due, longest unchecked first, the saver stamps those that answered over *)
(* TCP or QUIC, and satellites renew the stamp of the last offer           *)
(* (NodeOffers), which makes a node due that has not answered for a week.  *)
(***************************************************************************)
EXTENDS Integers, FiniteSets

CONSTANTS
  Probed,          \* the nodes
  LoadChunk,       \* rows the loader takes at once
  MaxProbeSaves, MaxProberCrashes

ASSUME ProbeAssumption ==
  IsFiniteSet(Probed) /\ LoadChunk \in Nat \ {0} /\ MaxProbeSaves \in Nat /\ MaxProberCrashes \in Nat

VARIABLES
  checkedBefore,   \* pairs of nodes: checked_at of the first is less than that
                   \* of the second, NULL (never checked) being the least
  checkedAge,      \* "null", "old" (8 minutes) or "new"
  offerAge,        \* last_received_from_sat_at: "old" (7 days) or "recent"
  replyAge,        \* updated_at: "null", "old" or "recent"
  updated,         \* per node [any, tcp, quic]: the save that wrote updated_at,
                   \* tcp_updated_at and quic_updated_at last (0: NULL)
  probing,         \* nodes loaded and not dialled yet
  replies,         \* outcomes on their way to the saver: [node, tcpErr, quicErr]
  probeSaves, proberCrashes                     \* bounded by the constants

probeVars == <<checkedBefore, checkedAge, offerAge, replyAge, updated, probing, replies,
               probeSaves, proberCrashes>>

ProbesTypeOK ==
  /\ checkedBefore \subseteq Probed \X Probed
  /\ checkedAge \in [Probed -> {"null", "old", "new"}]
  /\ offerAge \in [Probed -> {"old", "recent"}]
  /\ replyAge \in [Probed -> {"null", "old", "recent"}]
  /\ updated \in [Probed -> [any : Nat, tcp : Nat, quic : Nat]]
  /\ probing \subseteq Probed
  /\ replies \subseteq [node : Probed, tcpErr : BOOLEAN, quicErr : BOOLEAN]

\* The first start of the prober: no node has been checked yet.
ProbesInit ==
  /\ checkedBefore = {}
  /\ checkedAge = [n \in Probed |-> "null"]
  /\ offerAge \in [Probed -> {"old", "recent"}]
  /\ replyAge = [n \in Probed |-> "null"]
  /\ updated = [n \in Probed |-> [any |-> 0, tcp |-> 0, quic |-> 0]]
  /\ probing = {} /\ replies = {}
  /\ probeSaves = 0 /\ proberCrashes = 0

----------------------------------------------------------------------------
\* greatest(updated_at, last_received_from_sat_at), which ignores a NULL.
\* Mutant: only an answer of the last week counts.
SeenLately_Reply(n) == replyAge[n] = "recent"
SeenLately(n) == replyAge[n] = "recent" \/ offerAge[n] = "recent"
Due(n) == checkedAge[n] = "null" \/ (checkedAge[n] = "old" /\ SeenLately(n))

DueNodes == {n \in Probed : Due(n)}

\* ORDER BY checked_at NULLS FIRST LIMIT chunkSize: nodes of one stamp come in
\* any order.
FirstDue ==
  {S \in SUBSET DueNodes :
     /\ Cardinality(S) <= LoadChunk
     /\ Cardinality(S) < LoadChunk => S = DueNodes
     /\ \A n \in S, m \in DueNodes \ S : <<m, n>> \notin checkedBefore}

\* checked_at = NOW() of these: all others were checked before.
LoadOldNodes ==
  \E S \in FirstDue :
    /\ S # {}
    /\ checkedBefore' = {pair \in checkedBefore : pair[1] \notin S /\ pair[2] \notin S}
                          \cup (Probed \ S) \X S
    /\ checkedAge' = [n \in Probed |-> IF n \in S THEN "new" ELSE checkedAge[n]]
    /\ probing' = probing \cup S
    /\ UNCHANGED <<offerAge, replyAge, updated, replies, probeSaves, proberCrashes>>

\* Both dials; a node that answers to neither is only counted.
\* Mutant: it is saved as well.
Reached_Any(tcpErr, quicErr) == TRUE
Reached(tcpErr, quicErr) == ~(tcpErr /\ quicErr)

ProbeNode ==
  /\ \E n \in probing : \E tcpErr, quicErr \in BOOLEAN :
       /\ replies' = IF Reached(tcpErr, quicErr)
                     THEN replies \cup {[node |-> n, tcpErr |-> tcpErr, quicErr |-> quicErr]}
                     ELSE replies
       /\ probing' = probing \ {n}
  /\ UNCHANGED <<checkedBefore, checkedAge, offerAge, replyAge, updated, probeSaves, proberCrashes>>

\* One UPDATE for a chunk, NOW() being the same for all its rows.
SavePinged ==
  LET now == probeSaves + 1
      Of(n) == {r \in replies : r.node = n}
      Kept(old, failed) == IF failed THEN old ELSE now
  IN  /\ replies # {} /\ probeSaves < MaxProbeSaves
      /\ updated' = [n \in Probed |->
           IF Of(n) = {} THEN updated[n]
           ELSE [any  |-> now,
                 tcp  |-> Kept(updated[n].tcp, \E r \in Of(n) : r.tcpErr),
                 quic |-> Kept(updated[n].quic, \E r \in Of(n) : r.quicErr)]]
      /\ replyAge' = [n \in Probed |-> IF Of(n) = {} THEN replyAge[n] ELSE "recent"]
      /\ replies' = {}
      /\ probeSaves' = now
      /\ UNCHANGED <<checkedBefore, checkedAge, offerAge, probing, proberCrashes>>

\* The process dies with what it had in flight.
ProberCrash ==
  /\ proberCrashes < MaxProberCrashes
  /\ probing' = {} /\ replies' = {}
  /\ proberCrashes' = proberCrashes + 1
  /\ UNCHANGED <<checkedBefore, checkedAge, offerAge, replyAge, updated, probeSaves>>

\* A satellite offers a node; its row stays where it is in the order.
NodeOffered ==
  /\ \E n \in Probed : offerAge' = [offerAge EXCEPT ![n] = "recent"]
  /\ UNCHANGED <<checkedBefore, checkedAge, replyAge, updated, probing, replies, probeSaves, proberCrashes>>

\* Eight minutes pass since a check.  A node dialled again is in flight no
\* more: the pipeline is taken to lag by less (ProbePipeline bounds its queues).
CheckAges(n) ==
  /\ checkedAge[n] = "new" /\ n \notin probing /\ (\A r \in replies : r.node # n)
  /\ checkedAge' = [checkedAge EXCEPT ![n] = "old"]
  /\ UNCHANGED <<checkedBefore, offerAge, replyAge, updated, probing, replies, probeSaves, proberCrashes>>

\* A week passes since an offer or an answer; a node that is due is loaded
\* within that time.
WeekPasses ==
  /\ \E n \in Probed :
       /\ ~Due(n)
       /\ \/ /\ offerAge[n] = "recent" /\ offerAge' = [offerAge EXCEPT ![n] = "old"]
             /\ UNCHANGED replyAge
          \/ /\ replyAge[n] = "recent" /\ replyAge' = [replyAge EXCEPT ![n] = "old"]
             /\ UNCHANGED offerAge
  /\ UNCHANGED <<checkedBefore, checkedAge, updated, probing, replies, probeSaves, proberCrashes>>

ProbesNext ==
  \/ LoadOldNodes \/ ProbeNode \/ SavePinged \/ ProberCrash
  \/ NodeOffered \/ (\E n \in Probed : CheckAges(n)) \/ WeekPasses

ProbesFairness ==
  /\ WF_probeVars(LoadOldNodes) /\ WF_probeVars(ProbeNode)
  /\ \A n \in Probed : WF_probeVars(CheckAges(n))

----------------------------------------------------------------------------
\* updated_at is the later of tcp_updated_at and quic_updated_at: a row is
\* touched only for a node that answered, so that statistics that filter by one
\* of the three agree (prober.go 145-158 and 202-207).
ReplyHasTransport ==
  \A n \in Probed :
    updated[n].any = IF updated[n].tcp > updated[n].quic THEN updated[n].tcp ELSE updated[n].quic

\* A node that a satellite offers while it has not been checked for 8 minutes is
\* dialled, even if it has not answered for months and others are always due.
OfferedIsProbed ==
  \A n \in Probed :
    (offerAge[n] = "recent" /\ checkedAge[n] # "new") ~> (n \in probing)
=============================================================================
