----------------------------- MODULE NodeScans -----------------------------
(***************************************************************************)
(* The three commands of scripts/update_ip_types, which walk through the   *)
(* nodes page by page in the order of last_received_from_sat_at, each page *)
(* starting after the stamp of the last node of the one before:            *)
(*   fill-node-asns      sets nodes.asn by the GeoIP database, a page in a *)
(*                       transaction that locks its rows;                  *)
(*   fill-as-ipinfo-data asks ipinfo.io about the system of each node, then*)
(*                       about the systems whose info is a day old;        *)
(*   fill-ip-companies   updates the company of each address (IpCompanies).*)
(* They pass over nodes whose updated_at is older than some days (4, 3 and *)
(* 90).  Satellites offer nodes meanwhile, which gives them other stamps,  *)
(* and the prober and the passing time change who is passed over.          *)
(***************************************************************************)
EXTENDS Integers, FiniteSets, FiniteSetsExt

CONSTANTS
  ScanNodes,
  Systems,         \* AS numbers
  GeoAS,           \* per node, what the GeoIP database says: a system or NoAS
  Unnamed,         \* nodes of whose address ipinfo.io names no system
  NoAS,
  PageSize, MaxStamp,
  MaxScanEvents    \* bounds the offers, answers and ageings of nodes during a walk

ASSUME ScanAssumption ==
  /\ GeoAS \in [ScanNodes -> Systems \cup {NoAS}]
  /\ Unnamed \subseteq ScanNodes
  /\ NoAS \notin Systems
  /\ PageSize \in Nat \ {0} /\ MaxStamp \in Nat \ {0, 1} /\ MaxScanEvents \in Nat

VARIABLES
  stamp,           \* nodes.last_received_from_sat_at
  nodeAsn,         \* nodes.asn
  ipinfo,          \* systems with a row, by age of its ipinfo: "none", "old", "fresh"
  asked,           \* nodes whose company was asked for
  active,          \* nodes whose updated_at is within the command's interval
  scan,            \* the command: [name, phase, from, page, saved, cuts]; page is
                   \* what the query saw and is left of it, cuts the stamps that
                   \* pages ended at
  late,            \* ghost: nodes whose last offer has a stamp the walk had come to
  idle,            \* ghost: nodes that were not active at some time of the walk
  scanEvents

scanVars == <<stamp, nodeAsn, ipinfo, asked, active, scan, late, idle, scanEvents>>

Commands == {"fill-node-asns", "fill-as-ipinfo-data", "fill-ip-companies"}
Entries == [node : ScanNodes, at : 1..MaxStamp]

ScanTypeOK ==
  /\ stamp \in [ScanNodes -> 1..MaxStamp]
  /\ nodeAsn \in [ScanNodes -> Systems \cup {NoAS}]
  /\ \A as \in DOMAIN ipinfo : as \in Systems /\ ipinfo[as] \in {"none", "old", "fresh"}
  /\ asked \subseteq ScanNodes
  /\ ScanNodes \ active \subseteq idle /\ active \cup late \cup idle \subseteq ScanNodes
  /\ scan.name \in Commands /\ scan.phase \in {"nodes", "systems", "done", "failed"}
  /\ scan.from \in 0..MaxStamp /\ scan.page \subseteq Entries
  /\ scan.saved \subseteq Systems /\ scan.cuts \subseteq 0..MaxStamp
  /\ scanEvents \in 0..MaxScanEvents

\* A node that is added during the walk has no updated_at: it is one that is not
\* active.  Rows of systems exist for some of them, saved by the fetchers (AsInfo).
ScanInit ==
  /\ stamp \in [ScanNodes -> 1..2]
  /\ nodeAsn = [n \in ScanNodes |-> NoAS]
  /\ ipinfo \in UNION {[S -> {"none", "old"}] : S \in SUBSET Systems}
  /\ asked = {}
  /\ active \in SUBSET ScanNodes /\ late = {} /\ idle = ScanNodes \ active
  /\ scanEvents = 0
  /\ \E name \in Commands :
       scan = [name |-> name, phase |-> "nodes", from |-> 0, page |-> {}, saved |-> {}, cuts |-> {}]

----------------------------------------------------------------------------
Running(name) == scan.name = name /\ scan.phase = "nodes"
\* What a query sees of the nodes that are still to come.
Later == {[node |-> n, at |-> stamp[n]] : n \in {m \in active : stamp[m] > scan.from}}
\* ORDER BY the stamp LIMIT PageSize: nodes of one stamp come in any order.
\* Mutant: the rows come in no order.
Pages_Unordered(rows) == {P \in SUBSET rows : Cardinality(P) = Min({PageSize, Cardinality(rows)})}
Pages(rows) == {P \in SUBSET rows :
                  /\ Cardinality(P) = Min({PageSize, Cardinality(rows)})
                  /\ \A e \in P, x \in rows \ P : e.at <= x.at}

\* fill-node-asns has to lock the rows it sees before it knows which of them
\* make the page; the others read a page.
ReadNodes ==
  /\ scan.phase = "nodes" /\ scan.page = {} /\ Later # {}
  /\ \E P \in IF Running("fill-node-asns") THEN {Later} ELSE Pages(Later) :
       scan' = [scan EXCEPT !.page = P, !.cuts = @ \cup {scan.from}]
  /\ UNCHANGED <<stamp, nodeAsn, ipinfo, asked, active, late, idle, scanEvents>>

\* No node is left: the walk is over.
ReadNothing ==
  /\ scan.phase = "nodes" /\ scan.page = {} /\ Later = {}
  /\ scan' = [scan EXCEPT !.cuts = @ \cup {scan.from},
                          !.phase = IF scan.name = "fill-as-ipinfo-data" THEN "systems" ELSE "done"]
  /\ UNCHANGED <<stamp, nodeAsn, ipinfo, asked, active, late, idle, scanEvents>>

\* Mutant: the next page starts one later.
LastStamp_PlusOne(last) == stamp[last.node] + 1
LastStamp(last) == stamp[last.node]

\* ORDER BY .. FOR UPDATE: rows come in the order in which the query saw them,
\* but as they are once they are locked, which may be after an offer of the node
\* has ended.  One whose stamp is no longer after the last page's is left out,
\* and if all are, the walk ends here.  From then on they are locked, so that
\* nothing happens to them in between.  The next page starts after the last
\* row's stamp as it is now, which may be beyond that of rows still to come.  A
\* node without a known system is left alone.
FillNodeASNs ==
  /\ Running("fill-node-asns") /\ scan.page # {}
  /\ LET rows == {e \in scan.page : stamp[e.node] > scan.from}
     IN  \/ /\ rows = {} /\ UNCHANGED nodeAsn
            /\ scan' = [scan EXCEPT !.page = {}, !.phase = "done"]
         \/ \E P \in Pages(rows) : \E last \in P :
              LET filled == {n \in ScanNodes : GeoAS[n] # NoAS /\ \E e \in P : e.node = n}
              IN  /\ \A e \in P : e.at <= last.at
                  /\ nodeAsn' = [n \in ScanNodes |-> IF n \in filled THEN GeoAS[n] ELSE nodeAsn[n]]
                  /\ scan' = [scan EXCEPT !.from = LastStamp(last), !.page = {},
                                          !.cuts = @ \cup last.at..LastStamp(last)]
  /\ UNCHANGED <<stamp, ipinfo, asked, active, late, idle, scanEvents>>

Visit(e) ==
  /\ e \in scan.page /\ \A x \in scan.page : e.at <= x.at

FillIPCompany ==
  /\ Running("fill-ip-companies")
  /\ \E e \in scan.page :
       /\ Visit(e)
       /\ asked' = asked \cup {e.node}
       /\ scan' = [scan EXCEPT !.from = e.at, !.page = @ \ {e}]
  /\ UNCHANGED <<stamp, nodeAsn, ipinfo, active, late, idle, scanEvents>>

SetIpinfo(as) == ipinfo' = [x \in DOMAIN ipinfo \cup {as} |-> IF x = as THEN "fresh" ELSE ipinfo[x]]

\* If ipinfo.io names another system for the address than GeoIP does, a second
\* request asks about the latter: it is always GeoIP's whose info is saved.
FillASOfNode ==
  /\ Running("fill-as-ipinfo-data")
  /\ \E e \in scan.page :
       LET n == e.node
           as == GeoAS[n]
           skip == \/ as = NoAS \/ as \in scan.saved
                   \/ as \in DOMAIN ipinfo /\ ipinfo[as] = "fresh"
                   \/ n \in Unnamed                     \* an empty answer
           passed == [scan EXCEPT !.from = e.at, !.page = @ \ {e}]
       IN  /\ Visit(e)
           /\ IF skip THEN scan' = passed /\ UNCHANGED ipinfo
              ELSE SetIpinfo(as) /\ scan' = [passed EXCEPT !.saved = @ \cup {as}]
  /\ UNCHANGED <<stamp, nodeAsn, asked, active, late, idle, scanEvents>>

\* Phase 2 reads the list once and updates one after another.
FillASByNumber ==
  /\ scan.phase = "systems"
  /\ LET stale == {as \in DOMAIN ipinfo : ipinfo[as] # "fresh"}
     IN  IF stale = {}
         THEN scan' = [scan EXCEPT !.phase = "done"] /\ UNCHANGED ipinfo
         ELSE (\E as \in stale : SetIpinfo(as)) /\ UNCHANGED scan
  /\ UNCHANGED <<stamp, nodeAsn, asked, active, late, idle, scanEvents>>

\* Any failed request or statement ends the command, but not those of the
\* fetcher's updates in fill-node-asns, which are only logged.
ScanFails ==
  /\ scan.phase \in {"nodes", "systems"}
  /\ scan' = [scan EXCEPT !.phase = "failed"]
  /\ UNCHANGED <<stamp, nodeAsn, ipinfo, asked, active, late, idle, scanEvents>>

ScanEvent ==
  /\ scan.phase = "nodes"
  /\ scanEvents < MaxScanEvents /\ scanEvents' = scanEvents + 1

\* A satellite offers nodes: one transaction, so one stamp for all of them.  It
\* is the time the transaction began, and it may end after others that began
\* later, when the walk has passed that stamp.  It sets the systems, too.  (Once
\* the nodes are read, offers no longer matter to the command.)
StillToCome(t) == scan.from < t /\ \A e \in scan.page : e.at < t
OfferNodes ==
  /\ ScanEvent
  /\ \E S \in (SUBSET ScanNodes) \ {{}} : \E t \in 1..MaxStamp :
       /\ stamp' = [n \in ScanNodes |-> IF n \in S THEN t ELSE stamp[n]]
       /\ nodeAsn' = [n \in ScanNodes |-> IF n \in S THEN GeoAS[n] ELSE nodeAsn[n]]
       /\ late' = IF StillToCome(t) THEN late \ S ELSE late \cup S
  /\ UNCHANGED <<ipinfo, asked, active, scan, idle>>

\* The prober saves an answer of a node: updated_at is now.
NodeAnswers ==
  /\ ScanEvent
  /\ \E n \in ScanNodes \ active : active' = active \cup {n}
  /\ UNCHANGED <<stamp, nodeAsn, ipinfo, asked, scan, late, idle>>

\* The command's interval passes since a node's last answer.
NodeGrowsOld ==
  /\ ScanEvent
  /\ \E n \in active : active' = active \ {n} /\ idle' = idle \cup {n}
  /\ UNCHANGED <<stamp, nodeAsn, ipinfo, asked, scan, late>>

ScanNext ==
  \/ FillNodeASNs \/ ReadNodes \/ ReadNothing \/ FillIPCompany
  \/ FillASOfNode \/ FillASByNumber \/ ScanFails
  \/ OfferNodes \/ NodeAnswers \/ NodeGrowsOld

----------------------------------------------------------------------------
\* What the command has done for a node.
Served(n) ==
  CASE scan.name = "fill-node-asns" -> nodeAsn[n] = GeoAS[n]
    [] scan.name = "fill-ip-companies" -> n \in asked
    [] OTHER -> \/ GeoAS[n] = NoAS \/ n \in Unnamed
                \/ GeoAS[n] \in DOMAIN ipinfo /\ ipinfo[GeoAS[n]] = "fresh"

\* A command that ran to its end has served every node that was active all the
\* time, whatever the satellites offered meanwhile, but for those that share
\* their stamp with the last node of a page (all nodes of one offer have one
\* stamp) and fell behind the cut, or that a page of locked rows went beyond when
\* its last node had been offered again; and for those whose offer was saved late.
SkipsOnlyTies ==
  scan.phase = "done" =>
    \A n \in ScanNodes : Served(n) \/ stamp[n] \in scan.cuts \/ n \in late \cup idle
=============================================================================
