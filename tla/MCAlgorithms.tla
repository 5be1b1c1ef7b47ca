---------------------------- MODULE MCAlgorithms ----------------------------
(* The pure parts, each over all inputs within the bounds named here: an   *)
(* initial state per input.                                                *)
EXTENDS PingCodec, NodeStats, SiteCharts, IpNetwork, LocSnap

CONSTANTS
  MaxMs,       \* bound: ping durations up to here, a little above Scale
  MaxNodes,    \* bound: nodes in a table of statistics
  MaxCountry   \* bound: country codes 1..MaxCountry

ASSUME BoundsAssumption == MaxMs \in Nat /\ MaxNodes \in Nat /\ MaxCountry \in Nat

VARIABLE input

\* Every second of a day's last and first minutes with every outcome, and
\* every duration at midnight.
Stamps == (DayLen - MinuteLen)..(DayLen + MinuteLen - 1)
Pings == [about : {"ping"}, stamp : Stamps, ok : BOOLEAN, ms : {0, 1, 2, Scale - 1, Scale}]
         \cup [about : {"ping"}, stamp : {DayLen - 1, DayLen}, ok : {TRUE}, ms : 0..MaxMs]

\* Three ages (of the hour by TCP, of the day by QUIC, older) and two subnets;
\* a country and a system may be unknown, and a known system may have no type.
NodeRows ==
  {[tcp |-> r[1][1], quic |-> r[1][2], country |-> r[2], net |-> r[3], asn |-> r[4], port |-> r[3]] :
     r \in {<<0, 30>>, <<30, 1>>, <<30, 30>>} \X {Unknown, "deu"} \X {1, 2} \X {NoAS, 1, 2}}
ASTypes == {<<[ipinfo |-> "isp", incolumitas |-> "hosting"], [ipinfo |-> Unknown, incolumitas |-> t]>> :
              t \in {"isp", "hosting", Unknown}}
\* One order of the rows stands for all: the queries do not see it.
Rank(r) == 12 * (r.tcp + r.quic) + (IF r.tcp = 0 THEN 6 ELSE 0) + (IF r.country = Unknown THEN 3 ELSE 0)
           + (IF r.asn = NoAS THEN 0 ELSE r.asn) + 1000 * r.net
Sorted(n) == {t \in [1..n -> NodeRows] : \A i \in 2..n : Rank(t[i - 1]) <= Rank(t[i])}
Offers == {{[node |-> 1, sat |-> 1, age |-> 0], [node |-> 1, sat |-> 2, age |-> 2]},
           {[node |-> 1, sat |-> 1, age |-> 30], [node |-> 2, sat |-> 1, age |-> 0]}}
TablesOf(nodes, types, offers) == [about : {"table"}, types : types, nodes : nodes, offers : offers]
\* Offers and nodes meet in no column, so they vary apart.
Tables == TablesOf(Sorted(MaxNodes), {CHOOSE t \in ASTypes : t[2].incolumitas = "isp"}, {{}})
          \cup TablesOf(UNION {Sorted(n) : n \in 0..(MaxNodes - 1)}, ASTypes, {{}})
          \cup TablesOf(Sorted(0), {CHOOSE t \in ASTypes : TRUE}, Offers)

\* Lists of countries in the order of the column's keys.
CountryLists ==
  {l \in UNION {[1..n -> [code : 1..MaxCountry, count : {1, 2}]] : n \in 0..MaxCountry} :
     \A i, j \in DOMAIN l : i < j => l[i].code < l[j].code}
Charts == [about : {"chart"}, rows : {<<[stamp |-> s, countries |-> a], [stamp |-> s + d, countries |-> b]>> :
             s \in {0, HourSecs}, d \in {1, 2 * HourSecs},
             a, b \in {l \in CountryLists : Len(l) >= FilterN}}]
\* In any order, as the queries state none.
CountRows == [stamp : {0, 1, HourSecs}, h24 : {0, 2, CountRange - 1}]
OffRows == [stamp : {1, HourSecs, 2 * HourSecs}, active : {0, 1, 3, CountRange + 2}]
CountTables == [about : {"counts"}, counts : UNION {[1..n -> CountRows] : n \in 0..2},
                off : UNION {[1..n -> OffRows] : n \in 0..2}]

Networks == [about : {"network"}, addr : Address, bitLen : {AllBits, AllBits - ByteBits}, bits : 0..AllBits]

Locs == {[lon |-> 0, lat |-> 0], [lon |-> -180, lat |-> -90], [lon |-> 179, lat |-> 89], [lon |-> 37, lat |-> 55]}
LocLists == UNION {[1..n -> Locs] : n \in 0..2}
Files == [about : {"file"}, locs : [1..2 -> LocLists], torn : 0..2, words : 0..7]

Init == \/ input \in Pings \/ input \in Tables \/ input \in Charts \/ input \in CountTables
        \/ input \in {n \in Networks : n.bits <= n.bitLen}
        \/ input \in {f \in Files : IF f.torn = 0 THEN f.words = 0
                                      ELSE f.words < 6 + Len(f.locs[f.torn])}
Next == UNCHANGED input
Spec == Init /\ [][Next]_input

----------------------------------------------------------------------------
About(what) == input.about = what

(* A ping's outcome and duration reach the chart, at a point within its    *)
(* minute and never later than it (see PingIsKept of PingCodec).           *)
PingSurvives == About("ping") => PingIsKept(input.stamp, input.ok, input.ms)

(* The columns of a row of statistics agree (see NodeStats).               *)
StatsAgree == About("table") => ColumnsAgree(saveNodeStats(input.nodes, input.types, input.offers))

(* The chart of countries misses none of the largest and tells the rows'   *)
(* numbers; so does the chart of counts (see SiteCharts).                  *)
ChartsTellRows ==
  /\ About("chart") => ChartTellsRows(input.rows)
  /\ About("counts") => CountsTellRows(input.counts, input.off)

(* A prefix becomes the block of addresses that share it (see IpNetwork).  *)
PrefixIsBlock == About("network") => NetworkIsBlock(input.addr, input.bitLen, input.bits)

(* Snapshots of locations are read back up to a torn one (see LocSnap).    *)
SnapshotsSurvive ==
  About("file") =>
    SnapshotsRead([k \in 1..2 |-> [stamp |-> k, locs |-> input.locs[k]]], input.torn, input.words)
=============================================================================
