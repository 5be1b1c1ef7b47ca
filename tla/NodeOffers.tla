----------------------------- MODULE NodeOffers -----------------------------
(***************************************************************************)
(* saveLimits of nodes/fetcher.go: each minute a process per satellite     *)
(* saves the nodes the satellite offers, in one transaction.  It locks the *)
(* rows of those that exist (SELECT .. FOR UPDATE, without an ORDER BY, so *)
(* in the order of the plan) and then upserts all of them in the order of  *)
(* the satellite's list.  The prober's loader and saver and the            *)
(* fill-node-asns script lock rows of the same table in orders of their    *)
(* own.  PostgreSQL ends a deadlock by failing one of the transactions.    *)
(*                                                                         *)
(* A node stands for its rows in nodes and in nodes_sat_offers.  The       *)
(* latter are locked and written by who holds the former, but for a node   *)
(* added between the two SELECTs, which is left out.                       *)
(***************************************************************************)
EXTENDS Integers, Sequences, FiniteSets, SequencesExt

CONSTANTS
  Savers,          \* fetch-nodes processes; those of one satellite may overlap
  Others,          \* transactions of the prober and of the script
  Offered,         \* nodes
  OfferLists,      \* the lists satellites offer: sequences of distinct nodes
  MaxFetches       \* bound on the fetches of each saver

Nobody == "nobody"

ASSUME OffersAssumption ==
  /\ Offered \subseteq Nat \ {0} /\ IsFiniteSet(Offered)
  /\ Savers \cap Others = {} /\ Nobody \notin Savers \cup Others

ASSUME ListsAreDistinct ==
  \A l \in OfferLists : l \in Seq(Offered) /\ IsInjective(l)

VARIABLES
  nodes,           \* nodes with a committed row
  holder,          \* per node, the transaction that holds its row or key lock
  saver,           \* per saver: [at, list, seen, todo, saved]: what is left of the
                   \* list; the rows that existed; those it has yet to lock, in
                   \* their order; the rows it wrote
  other,           \* per other transaction: the rows it has yet to lock, or Off
  fetches          \* fetches begun by each saver

offVars == <<nodes, holder, saver, other, fetches>>

Off == {0}
SaverOff == [at |-> "off", list |-> <<>>, seen |-> {}, todo |-> <<>>, saved |-> {}]

OffersTypeOK ==
  /\ nodes \subseteq Offered
  /\ holder \in [Offered -> Savers \cup Others \cup {Nobody}]
  /\ \A s \in Savers : /\ saver[s].at \in {"off", "lock", "upsert"}
                       /\ ToSet(saver[s].list) \subseteq Offered
                       /\ ToSet(saver[s].todo) \subseteq saver[s].seen
                       /\ saver[s].seen \cup saver[s].saved \subseteq Offered
  /\ \A o \in Others : other[o] \subseteq Offered \cup Off

OffersInit ==
  /\ nodes \in SUBSET Offered
  /\ holder = [n \in Offered |-> Nobody]
  /\ saver = [s \in Savers |-> SaverOff] /\ other = [o \in Others |-> Off]
  /\ fetches = [s \in Savers |-> 0]

----------------------------------------------------------------------------
Free(n, x) == holder[n] \in {Nobody, x}
Take(n, x) == holder' = [holder EXCEPT ![n] = x]
Release(x) == holder' = [n \in Offered |-> IF holder[n] = x THEN Nobody ELSE holder[n]]
\* The orders in which a plan may come to the rows.
Orders(S) == {order \in [1..Cardinality(S) -> S] : ToSet(order) = S}

\* Mutant: rows are not locked before they are written.
LockedFirst_None(seen) == {}
LockedFirst(seen) == seen

\* The satellite answers; the SELECT sees the rows committed by now.
BeginSave(s) ==
  /\ saver[s].at = "off" /\ fetches[s] < MaxFetches
  /\ \E list \in OfferLists :
       LET seen == nodes \cap ToSet(list)
       IN  \E order \in Orders(LockedFirst(seen)) :
             saver' = [saver EXCEPT ![s] = [at |-> "lock", list |-> list, seen |-> seen,
                                            todo |-> order, saved |-> {}]]
  /\ fetches' = [fetches EXCEPT ![s] = @ + 1]
  /\ UNCHANGED <<nodes, holder, other>>

LockRow(s) ==
  /\ saver[s].at = "lock" /\ saver[s].todo # <<>>
  /\ LET n == Head(saver[s].todo)
     IN  Free(n, s) /\ Take(n, s) /\ saver' = [saver EXCEPT ![s].todo = Tail(@)]
  /\ UNCHANGED <<nodes, other, fetches>>

RowsLocked(s) ==
  /\ saver[s].at = "lock" /\ saver[s].todo = <<>>
  /\ saver' = [saver EXCEPT ![s].at = "upsert"]
  /\ UNCHANGED <<nodes, holder, other, fetches>>

\* INSERT .. ON CONFLICT DO UPDATE of nodes and of nodes_sat_offers: a row that
\* another transaction has locked, or inserted and not committed, is awaited.
UpsertNode(s) ==
  /\ saver[s].at = "upsert" /\ saver[s].list # <<>>
  /\ LET n == Head(saver[s].list)
     IN  Free(n, s) /\ Take(n, s) /\ saver' = [saver EXCEPT ![s].list = Tail(@), ![s].saved = @ \cup {n}]
  /\ UNCHANGED <<nodes, other, fetches>>

\* The commit; the companies and systems of the nodes follow (IpCompanies, AsInfo).
CommitSave(s) ==
  /\ saver[s].at = "upsert" /\ saver[s].list = <<>>
  /\ nodes' = nodes \cup saver[s].saved
  /\ Release(s)
  /\ saver' = [saver EXCEPT ![s] = SaverOff]
  /\ UNCHANGED <<other, fetches>>

\* An address without a port, a failed statement, a killed process or a lost
\* deadlock: nothing of the list is saved, and nobody asks for it again.
RollBack(s) ==
  /\ saver[s].at # "off"
  /\ Release(s)
  /\ saver' = [saver EXCEPT ![s] = SaverOff]
  /\ UNCHANGED <<nodes, other, fetches>>

\* The prober's loader locks a chunk of rows in the order of checked_at, its
\* saver updates one, and the script locks pages in the order of
\* last_received_from_sat_at: for the savers, in any order.
BeginOther(o) ==
  /\ other[o] = Off
  /\ \E rows \in SUBSET nodes : other' = [other EXCEPT ![o] = rows]
  /\ UNCHANGED <<nodes, holder, saver, fetches>>

LockOther(o) ==
  /\ \E n \in other[o] \ Off :
       Free(n, o) /\ Take(n, o) /\ other' = [other EXCEPT ![o] = @ \ {n}]
  /\ UNCHANGED <<nodes, saver, fetches>>

EndOther(o) ==
  /\ other[o] # Off
  /\ Release(o) /\ other' = [other EXCEPT ![o] = Off]
  /\ UNCHANGED <<nodes, saver, fetches>>

OffersNext ==
  \/ \E s \in Savers :
       \/ BeginSave(s) \/ LockRow(s) \/ RowsLocked(s)
       \/ UpsertNode(s) \/ CommitSave(s) \/ RollBack(s)
  \/ \E o \in Others : BeginOther(o) \/ LockOther(o) \/ EndOther(o)

----------------------------------------------------------------------------
\* The row a saver asks for next.
Wanted(s) ==
  IF saver[s].at = "lock" /\ saver[s].todo # <<>> THEN {Head(saver[s].todo)}
  ELSE IF saver[s].at = "upsert" /\ saver[s].list # <<>> THEN {Head(saver[s].list)}
  ELSE {}
Awaited(s) == {n \in Wanted(s) : ~Free(n, s)}
WaitsFor(s, t) == \E n \in Awaited(s) : holder[n] = t
\* The savers that wait for one another in a circle: each waits for one of them.
InCircle(S) == S # {} /\ \A s \in S : \E t \in S : WaitsFor(s, t)

\* Locking the rows that exist first, before any is written: savers that wait for
\* one another in a circle without a node that had no row yet (two satellites may
\* both insert it) are all still in their SELECT, so that what PostgreSQL fails
\* to end the deadlock has not written a row (fetcher.go 104 against 170).
DeadlockBeforeWrites ==
  \A S \in SUBSET Savers :
    InCircle(S) => \/ \E s \in S : \E n \in Awaited(s) : n \notin saver[s].seen
                   \/ \A s \in S : saver[s].saved = {}
=============================================================================
