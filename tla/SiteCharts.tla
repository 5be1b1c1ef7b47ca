----------------------------- MODULE SiteCharts -----------------------------
(***************************************************************************)
(* What two handlers of the site compute from rows of node_stats           *)
(* (server/handlers.go): HandleAPINodesCountries packs how many nodes each *)
(* of the largest countries has had every hour, HandleAPINodesCounts the   *)
(* counts of active nodes.                                                 *)
(*                                                                         *)
(* Countries are numbers in the order of Postgres' JSONB keys, which is by *)
(* length and then by text, so '<unknown>' is the last one; a list of      *)
(* countries is a sequence of [code, count].  Rows are ordered by their    *)
(* stamps, in seconds from the interval's start.                           *)
(***************************************************************************)
EXTENDS Integers, Sequences, FiniteSets, SequencesExt

CONSTANTS
  FilterN,          \* the chart wants so many largest countries of a row: 15
  HourSecs,         \* 3600
  CountRange        \* counts are sent as uint16: 65536

ASSUME ChartsAssumption == {FilterN, HourSecs, CountRange} \subseteq Nat \ {0}

Codes(list) == {list[i].code : i \in DOMAIN list}

Swapped(list, i, j) == [list EXCEPT ![i] = list[j], ![j] = list[i]]

\* CountriesStatItemList.partition: the last item's count splits left..right;
\* larger or equal ones go left of it.  Indices from 1 here and below.
partition(list, left, right) ==
  LET pivot == list[right]
      Step(acc, j) == IF acc.list[j].count >= pivot.count
                      THEN [list |-> Swapped(acc.list, acc.i, j), i |-> acc.i + 1]
                      ELSE acc
      last == FoldLeft(Step, [list |-> list, i |-> left],
                       [k \in 1..(right - left) |-> left + k - 1])
  IN  [list |-> Swapped(last.list, last.i, right), i |-> last.i]

Part(list, left, right, n) == [list |-> list, left |-> left, right |-> right, n |-> n]
Parts(list) ==
  [list : [DOMAIN list -> Range(list)], left : 1..(Len(list) + 1), right : 0..Len(list), n : Nat \ {0}]

\* How list is ordered in the end, n of left..right being wanted on the left.
moveLeftNLargest(all) ==
  LET moved[p \in Parts(all)] ==
        LET split == partition(p.list, p.left, p.right)
            before == split.i - p.left
        IN  CASE p.n > p.right - p.left + 1 -> p.list
              [] p.n <= p.right - p.left + 1 /\ before = p.n - 1 -> split.list
              [] p.n <= p.right - p.left + 1 /\ before > p.n - 1 ->
                   moved[Part(split.list, p.left, split.i - 1, p.n)]
              [] OTHER -> moved[Part(split.list, split.i + 1, p.right, p.n - (before + 1))]
  IN  moved

MoveLeftNLargest(list, n) == moveLeftNLargest(list)[Part(list, 1, Len(list), n)]

\* The first or the last of the indices that hold the code: [count, index], with
\* index 0 for none.
Found(list, code, indices, choose(_)) ==
  LET hits == {i \in indices : list[i].code = code}
  IN  IF hits = {} THEN [count |-> 0, index |-> 0]
      ELSE [count |-> list[choose(hits)].count, index |-> choose(hits)]

findCountLeft(list, code, from) == Found(list, code, 1..from, Max)
findCountRight(list, code, from) == Found(list, code, from..Len(list), Min)

\* On which side of the previous hit the code is looked for.
\* Mutant: the other one.
IsLeft_Swapped(code, at) == code > at
IsLeft(code, at) == code < at

FindCountFor(list, code, prev) ==
  IF prev \in DOMAIN list
  THEN CASE list[prev].code = code -> [count |-> list[prev].count, index |-> prev]
         [] IsLeft(code, list[prev].code) -> findCountLeft(list, code, prev - 1)
         [] OTHER -> findCountRight(list, code, prev + 1)
  ELSE findCountRight(list, code, 1)

\* HandleAPINodesCountries, default form: countries among the FilterN first of
\* any row after the move.  A row with fewer countries ends the request
\* with a panic.  Stamps are never compared with a previous one (prevStamp stays
\* 0), so no row is left out.
CountryFilter(rows) ==
  UNION {Codes(SubSeq(MoveLeftNLargest(r.countries, FilterN), 1, FilterN)) : r \in Range(rows)}

\* all=1: the countries of the first row.
AllFilter(rows) == IF rows = <<>> THEN {} ELSE Codes(rows[1].countries)

Hour(stamp) == stamp \div HourSecs
ArrLen(stamps) == Max({Hour(s) : s \in stamps} \cup {0}) + 1

\* The counts of one country: each row writes the number at its hour, the
\* search starting where the row before found it.
CountryCounts(rows, code) ==
  LET Write(acc, r) ==
        LET found == FindCountFor(r.countries, code, acc.prev)
        IN  [counts |-> [acc.counts EXCEPT ![Hour(r.stamp)] = found.count % CountRange],
             prev |-> found.index]
      zeroes == [h \in 0..(ArrLen({r.stamp : r \in Range(rows)}) - 1) |-> 0]
  IN  FoldLeft(Write, [counts |-> zeroes, prev |-> 0], rows).counts

NodesCountries(rows, all) ==
  [code \in IF all THEN AllFilter(rows) ELSE CountryFilter(rows) |-> CountryCounts(rows, code)]

----------------------------------------------------------------------------
\* HandleAPINodesCounts: rows of node_stats as [stamp, h24] (h05 and h8 are
\* handled alike) in any order, rows of off_node_stats as [stamp, active].
NodesCounts(counts, offCounts) ==
  LET hours == 0..(ArrLen({r.stamp : r \in Range(counts) \cup Range(offCounts)}) - 1)
      zeroes == [h \in hours |-> 0]
  IN  [h24 |-> FoldLeft(LAMBDA acc, r : [acc EXCEPT ![Hour(r.stamp)] = r.h24 % CountRange],
                        zeroes, counts),
       off |-> FoldLeft(LAMBDA acc, r : [acc EXCEPT ![Hour(r.stamp)] =
                                           Max({r.active % CountRange, @})],
                        zeroes, offCounts)]

----------------------------------------------------------------------------
\* The chart misses no country that is among the FilterN largest at any time,
\* and every number it shows is the row's: searching near the place of the row
\* before, in lists in which countries come and go, finds a country if it is
\* there (handlers.go 871-942, 1022-1100).
ChartTellsRows(rows) ==
  LET chart == NodesCountries(rows, FALSE)
      CountIn(r, code) == Max({x.count : x \in {x \in Range(r.countries) : x.code = code}} \cup {0})
      HourTold(numbers, code, h) ==
        LET inHour == {i \in DOMAIN rows : Hour(rows[i].stamp) = h}
        IN  numbers[h] = IF inHour = {} THEN 0 ELSE CountIn(rows[Max(inHour)], code) % CountRange
  IN  /\ \A r \in Range(rows) : \A x \in Range(r.countries) :
           x.code \notin DOMAIN chart =>
             FilterN <= Cardinality({y \in Range(r.countries) :
                                       y.code \in DOMAIN chart /\ y.count >= x.count})
      /\ \A all \in BOOLEAN :
           LET sent == NodesCountries(rows, all)
           IN  \A code \in DOMAIN sent : \A h \in DOMAIN sent[code] : HourTold(sent[code], code, h)

\* The line of the official counts is the largest among the satellites of an
\* hour whatever the order of the rows, which the query leaves open, and a row
\* of ours lands in its own hour (handlers.go 1148-1195).
CountsTellRows(counts, offCounts) ==
  LET sent == NodesCounts(counts, offCounts)
      In(rows, h) == {r \in Range(rows) : Hour(r.stamp) = h}
  IN  \A h \in DOMAIN sent.off :
        /\ sent.off[h] = Max({r.active % CountRange : r \in In(offCounts, h)} \cup {0})
        /\ IF In(counts, h) = {} THEN sent.h24[h] = 0
           ELSE sent.h24[h] \in {r.h24 % CountRange : r \in In(counts, h)}
=============================================================================
