------------------------------ MODULE NodeStats ------------------------------
(***************************************************************************)
(* The row `storjnet-info save-stats` adds to node_stats (nodes/stats.go,  *)
(* saveNodeStats): fifteen columns, each computed by a query of its own    *)
(* over nodes, nodes_sat_offers and autonomous_systems, and drawn side by  *)
(* side by the site.                                                       *)
(*                                                                         *)
(* A table of nodes is a sequence of records                               *)
(*   [tcp, quic, country, net, asn, port]                                  *)
(* with the hours since the node was reached over each transport; country  *)
(* is Unknown where location has none, asn is NoAS where the node has      *)
(* none, net is the /24 of its address.  offers is a set of records        *)
(* [node, sat, age], age being the hours since the last stamp of an offer. *)
(***************************************************************************)
EXTENDS Integers, Sequences, FiniteSets, FiniteSetsExt

CONSTANTS
  HoursPerDay,      \* hours: 24
  HoursOfActive,    \* columns of active_count_hours: 0.5, 1..24, 48, 72
  HoursOfOffers,    \* of the offers' counts: 1, 3, 6, 12, 24, 48, 72
  TopSize,          \* subnets of so many nodes are listed by name: 10
  TopASNs,          \* systems listed per type of address: 10
  MaxPorts,         \* ports listed: 100
  Unknown, NoAS     \* '<unknown>' and NULL

ASSUME StatsAssumption ==
  /\ HoursOfActive \subseteq Int /\ HoursOfOffers \subseteq Int
  /\ HoursPerDay \in HoursOfActive \cap HoursOfOffers
  /\ TopASNs \in Nat \ {0}

\* How the groups of a GROUP BY count.
GroupCounts(rows, key) == [k \in {key[i] : i \in rows} |-> Cardinality({i \in rows : key[i] = k})]
Total(counts) == MapThenSumSet(LAMBDA k : counts[k], DOMAIN counts)
CountAt(counts, k) == IF k \in DOMAIN counts THEN counts[k] ELSE 0

\* updated_at is the later of both stamps (see NodeProbes).
Age(nodes, i) == Min({nodes[i].tcp, nodes[i].quic})
ActiveWithin(nodes, hours) == {i \in DOMAIN nodes : Age(nodes, i) < hours}
Active(nodes) == ActiveWithin(nodes, HoursPerDay)

Column(nodes, field) == [i \in DOMAIN nodes |-> nodes[i][field]]

\* COALESCE(NULLIF(ipinfo->>'type', ''), NULLIF(incolumitas->>'type', '')) of
\* the node's system, asTypes being the rows of autonomous_systems; a system
\* without a row, or with neither type, is unknown.
TypeOfIP(asTypes, asn) ==
  IF asn \in DOMAIN asTypes
  THEN CASE asTypes[asn].ipinfo # Unknown -> asTypes[asn].ipinfo
         [] OTHER -> asTypes[asn].incolumitas
  ELSE Unknown

OfISPs(nodes, asTypes) == {i \in Active(nodes) : TypeOfIP(asTypes, nodes[i].asn) = "isp"}

\* Groups of (country, /24), counted per country.
SubnetCountries(nodes, rows) ==
  LET pairs == {<<nodes[i].country, nodes[i].net>> : i \in rows}
  IN  [c \in {p[1] : p \in pairs} |-> Cardinality({p \in pairs : p[1] = c})]

Subnets(nodes, rows) == GroupCounts(rows, Column(nodes, "net"))

\* Mutant: the filter by age is missing from one of the subqueries.
SubnetSizes_AllNodes(nodes) ==
  LET sizes == Subnets(nodes, DOMAIN nodes) IN GroupCounts(DOMAIN sizes, sizes)
SubnetSizes(nodes) ==
  LET sizes == Subnets(nodes, Active(nodes)) IN GroupCounts(DOMAIN sizes, sizes)

\* row_number() OVER (PARTITION BY ip_type ORDER BY count(*) DESC) <= TopASNs.
\* Systems with equal counts come in any order, so only how many nodes the
\* listed systems have together is told; asn may be NULL, a group of its own.
TopTotal(counts) ==
  Max({MapThenSumSet(LAMBDA a : counts[a], S) :
        S \in {S \in SUBSET DOMAIN counts : Cardinality(S) <= TopASNs}})
AsnTops(nodes, types) ==
  [t \in {types[i] : i \in Active(nodes)} |->
    TopTotal(GroupCounts({i \in Active(nodes) : types[i] = t}, Column(nodes, "asn")))]

FreshOffers(offers, hours) == {o \in offers : o.age < hours}
SatsOffering(offers) == {o.sat : o \in FreshOffers(offers, HoursPerDay)}

\* The row.  Of ports, which of the groups the LIMIT keeps is unspecified:
\* only how many is told.
saveNodeStats(nodes, asTypes, offers) ==
  LET active == Active(nodes)
      types == [i \in DOMAIN nodes |-> TypeOfIP(asTypes, nodes[i].asn)]
      sizes == Subnets(nodes, active)
  IN [count_total |-> Len(nodes),
      active_count_hours |-> [h \in HoursOfActive |-> Cardinality(ActiveWithin(nodes, h))],
      tcp |-> Cardinality({i \in DOMAIN nodes : nodes[i].tcp < HoursPerDay}),
      quic |-> Cardinality({i \in DOMAIN nodes : nodes[i].quic < HoursPerDay}),
      all_sat_offers |-> [h \in HoursOfOffers |-> Cardinality({o.node : o \in FreshOffers(offers, h)})],
      per_sat_offers |-> [s \in SatsOffering(offers) |->
          [h \in HoursOfOffers |-> Cardinality({o \in FreshOffers(offers, h) : o.sat = s})]],
      countries |-> GroupCounts(active, Column(nodes, "country")),
      countries_isp |-> GroupCounts(OfISPs(nodes, asTypes), Column(nodes, "country")),
      subnet_countries |-> SubnetCountries(nodes, active),
      subnet_countries_isp |-> SubnetCountries(nodes, OfISPs(nodes, asTypes)),
      subnets_count |-> Cardinality({nodes[i].net : i \in active}),
      subnets_top |-> [n \in {n \in DOMAIN sizes : sizes[n] >= TopSize} |-> sizes[n]],
      subnet_sizes |-> SubnetSizes(nodes),
      ip_types |-> GroupCounts(active, types),
      ip_types_asn_tops |-> AsnTops(nodes, types),
      ports |-> Min({MaxPorts, Cardinality({nodes[i].port : i \in active})})]

----------------------------------------------------------------------------
\* The columns of one row agree although each query filters, joins and groups
\* for itself: everything that counts the nodes of the last day counts the same
\* nodes, a part is never more than its whole, and what is listed by name is
\* what the histogram counts (stats.go 16-197).
ColumnsAgree(row) ==
  LET active == row.active_count_hours[HoursPerDay]
      sizes == row.subnet_sizes
  IN
  /\ \A a, b \in HoursOfActive : a < b => row.active_count_hours[a] <= row.active_count_hours[b]
  /\ active <= row.tcp + row.quic /\ row.tcp <= active /\ row.quic <= active
  /\ Total(row.countries) = active /\ Total(row.ip_types) = active
  /\ Total([s \in DOMAIN sizes |-> s * sizes[s]]) = active
  /\ Total(sizes) = row.subnets_count
  /\ \A s \in DOMAIN sizes : s >= TopSize =>
        sizes[s] = Cardinality({n \in DOMAIN row.subnets_top : row.subnets_top[n] = s})
  /\ Total(row.countries_isp) = CountAt(row.ip_types, "isp")
  /\ \A c \in DOMAIN row.countries :
        /\ CountAt(row.countries_isp, c) <= row.countries[c]
        /\ CountAt(row.subnet_countries_isp, c) <= CountAt(row.subnet_countries, c)
        /\ row.subnet_countries[c] \in 1..row.countries[c]
  /\ row.subnets_count <= Total(row.subnet_countries)
  /\ DOMAIN row.ip_types_asn_tops = DOMAIN row.ip_types
  /\ \A t \in DOMAIN row.ip_types : row.ip_types_asn_tops[t] \in 1..row.ip_types[t]
  /\ \A s \in DOMAIN row.per_sat_offers, h \in HoursOfOffers :
        row.per_sat_offers[s][h] <= row.all_sat_offers[h]
  /\ row.all_sat_offers[HoursPerDay]
       <= Total([s \in DOMAIN row.per_sat_offers |-> row.per_sat_offers[s][HoursPerDay]])
=============================================================================
