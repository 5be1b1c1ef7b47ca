---------------------------- MODULE IpCompanies ----------------------------
(***************************************************************************)
(* network_companies: which company owns which range of addresses          *)
(* (core/ip_companies.go).  Every process that saves nodes (one per        *)
(* satellite and minute, nodes/fetcher.go, and the update-ip-types script) *)
(* asks a public service about an address that no fresh row covers and     *)
(* merges the answer into the table, statement by statement, with no       *)
(* transaction and no unique constraint on the range: several processes    *)
(* may merge the same answer at once.                                      *)
(***************************************************************************)
EXTENDS Integers, FiniteSets

CONSTANTS
  Fetchers,        \* the processes that may run at the same time
  Ip,              \* addresses, a set of integers
  CompanyAnswers(_),      \* CompanyAnswers(ip): what the service may say of an address
  Unknown,         \* the answer "company": null; any other one is a company
  MaxIpEvents      \* bound of the model: changed answers and failures

\* A company is [from, to, info]; info stands for its name, domain and type.
Companies == (UNION {CompanyAnswers(ip) : ip \in Ip}) \ {Unknown}
CoversIp(range, ip) == range.from <= ip /\ ip <= range.to
SameRange(a, b) == a.from = b.from /\ a.to = b.to
\* Mutant: the borders are not compared inclusively.
Intersects_Strictly(a, b) == a.from < b.to /\ b.from < a.to
Intersects(a, b) == a.from <= b.to /\ b.from <= a.to
Inside(a, b) == b.from <= a.from /\ a.to <= b.to

ASSUME IpAssumption ==
  /\ IsFiniteSet(Fetchers) /\ Ip \subseteq Int /\ MaxIpEvents \in Nat

\* An answer is a range of addresses with the one that was asked for in it.
ASSUME AnswersCoverTheirAddress ==
  \A ip \in Ip : \A a \in CompanyAnswers(ip) \ {Unknown} :
    a.from \in Ip /\ a.to \in Ip /\ CoversIp(a, ip)

VARIABLES
  companies,       \* rows of network_companies: [id, from, to, info, fresh]
  unknownIps,      \* network_company_unknown_ips: addresses noted within 3 days
  service,         \* what the service says of each address now
  fetcher,         \* per process: [at, ip, answer, todo, saved]
  ipEvents         \* bounded by MaxIpEvents

ipVars == <<companies, unknownIps, service, fetcher, ipEvents>>

IpResting == [at |-> "idle", ip |-> 0, answer |-> Unknown, todo |-> {}, saved |-> FALSE]
Rows == [id : Nat, from : Ip, to : Ip, info : {c.info : c \in Companies}, fresh : BOOLEAN]

IpTypeOK ==
  /\ companies \subseteq Rows
  /\ unknownIps \subseteq Ip
  /\ \A ip \in Ip : service[ip] \in CompanyAnswers(ip)
  /\ \A p \in Fetchers :
       /\ fetcher[p].at \in {"idle", "unknown", "fetch", "forget", "note", "read", "merge"}
       /\ fetcher[p].ip \in Ip \cup {0}
       /\ fetcher[p].answer \in Companies \cup {Unknown}
       /\ fetcher[p].todo \subseteq [id : Nat, same : BOOLEAN]
       /\ fetcher[p].saved \in BOOLEAN

IpInit ==
  /\ companies = {}
  /\ unknownIps = {}
  /\ service \in {s \in [Ip -> Companies \cup {Unknown}] : \A ip \in Ip : s[ip] \in CompanyAnswers(ip)}
  /\ fetcher = [p \in Fetchers |-> IpResting]
  /\ ipEvents = 0

----------------------------------------------------------------------------
Outside == UNCHANGED <<service, ipEvents>>
At(p, label) == fetcher[p].at = label
Goto(p, changes) == fetcher' = [fetcher EXCEPT ![p] = changes]
Finish(p) == Goto(p, IpResting)

\* The first SELECT: no row younger than 7 days covers the address.
LookUp(p, ip) ==
  /\ At(p, "idle")
  /\ ~\E row \in companies : CoversIp(row, ip) /\ row.fresh
  /\ Goto(p, [IpResting EXCEPT !.at = "unknown", !.ip = ip])
  /\ UNCHANGED <<companies, unknownIps>> /\ Outside

\* The second one: nor was the company found to be unknown within 3 days.
LookUpUnknown(p) ==
  /\ At(p, "unknown")
  /\ IF fetcher[p].ip \in unknownIps
     THEN Finish(p)
     ELSE Goto(p, [fetcher[p] EXCEPT !.at = "fetch"])
  /\ UNCHANGED <<companies, unknownIps>> /\ Outside

FetchIPCompanyInfo(p) ==
  /\ At(p, "fetch")
  /\ LET answer == service[fetcher[p].ip]
     IN  Goto(p, [fetcher[p] EXCEPT !.at = IF answer = Unknown THEN "forget" ELSE "read",
                                    !.answer = answer])
  /\ UNCHANGED <<companies, unknownIps>> /\ Outside

\* An unknown company: the rows that cover the address go, then it is noted.
RemoveExisting(p) ==
  /\ At(p, "forget")
  /\ companies' = {row \in companies : ~CoversIp(row, fetcher[p].ip)}
  /\ Goto(p, [fetcher[p] EXCEPT !.at = "note"])
  /\ UNCHANGED unknownIps /\ Outside

NoteUnknown(p) ==
  /\ At(p, "note")
  /\ unknownIps' = unknownIps \cup {fetcher[p].ip}
  /\ Finish(p)
  /\ UNCHANGED companies /\ Outside

\* A known one: the rows it intersects, which come in no particular order.  Of
\* those the loop below touches the rows of the same range and the rows inside
\* that say the same; another one is left ("companies intersection" in the log).
ReadIntersections(p) ==
  LET answer == fetcher[p].answer
      touched(row) == SameRange(row, answer) \/ (Inside(row, answer) /\ row.info = answer.info)
  IN  /\ At(p, "read")
      /\ Goto(p, [fetcher[p] EXCEPT !.at = "merge",
           !.todo = {[id |-> row.id, same |-> SameRange(row, answer)] :
                       row \in {r \in companies : Intersects(r, answer) /\ touched(r)}}])
      /\ UNCHANGED <<companies, unknownIps>> /\ Outside

\* The first row of the same range gets the answer; UPDATE of a row that
\* another process has deleted meanwhile changes nothing.
UpdateSame(p, isec) ==
  /\ isec.same /\ ~fetcher[p].saved
  /\ companies' = {IF row.id = isec.id
                   THEN [row EXCEPT !.info = fetcher[p].answer.info, !.fresh = TRUE]
                   ELSE row : row \in companies}

\* Its doubles, and the rows inside, are removed.
RemoveRedundant(p, isec) ==
  /\ isec.same => fetcher[p].saved
  /\ companies' = {row \in companies : row.id # isec.id}

\* Mutant: a removed inner row counts as the saved one.
NowSaved_AnyRow(p, isec) == TRUE
NowSaved(p, isec) == fetcher[p].saved \/ isec.same

MergeRow(p) ==
  /\ At(p, "merge")
  /\ \E isec \in fetcher[p].todo :
       /\ (UpdateSame(p, isec) \/ RemoveRedundant(p, isec))
       /\ Goto(p, [fetcher[p] EXCEPT !.todo = @ \ {isec}, !.saved = NowSaved(p, isec)])
  /\ UNCHANGED unknownIps /\ Outside

\* An id neither a row nor a process has (the column counts up for ever).
IdsInUse == {row.id : row \in companies} \cup {isec.id : isec \in UNION {fetcher[p].todo : p \in Fetchers}}
NewId == CHOOSE id \in 1..(Cardinality(IdsInUse) + 1) : id \notin IdsInUse

InsertCompany(p) ==
  /\ At(p, "merge") /\ fetcher[p].todo = {}
  /\ LET answer == fetcher[p].answer
     IN  companies' = IF fetcher[p].saved THEN companies
                      ELSE companies \cup {[id |-> NewId, from |-> answer.from, to |-> answer.to,
                                            info |-> answer.info, fresh |-> TRUE]}
  /\ Finish(p)
  /\ UNCHANGED unknownIps /\ Outside

\* The request or a statement fails, or the process dies between two of them.
FetchFails(p) ==
  /\ ipEvents < MaxIpEvents /\ ~At(p, "idle")
  /\ Finish(p)
  /\ ipEvents' = ipEvents + 1
  /\ UNCHANGED <<companies, unknownIps, service>>

\* Days pass: a row grows old after 7, a note after 3.  (The nightly optimizer
\* then drops notes of 30 days, which no longer count anyway.)
RowGrowsOld ==
  /\ \E row \in companies :
       row.fresh /\ companies' = (companies \ {row}) \cup {[row EXCEPT !.fresh = FALSE]}
  /\ UNCHANGED <<unknownIps, fetcher>> /\ Outside

NoteGrowsOld(ip) ==
  /\ ip \in unknownIps
  /\ unknownIps' = unknownIps \ {ip}
  /\ UNCHANGED <<companies, fetcher>> /\ Outside

\* The service changes its mind.
AnswerChanges ==
  /\ ipEvents < MaxIpEvents
  /\ \E ip \in Ip : \E a \in CompanyAnswers(ip) \ {service[ip]} : service' = [service EXCEPT ![ip] = a]
  /\ ipEvents' = ipEvents + 1
  /\ UNCHANGED <<companies, unknownIps, fetcher>>

Proceed(p) ==
  \/ LookUpUnknown(p) \/ FetchIPCompanyInfo(p)
  \/ RemoveExisting(p) \/ NoteUnknown(p)
  \/ ReadIntersections(p) \/ MergeRow(p) \/ InsertCompany(p)

IpNext ==
  \/ \E p \in Fetchers : Proceed(p) \/ FetchFails(p) \/ \E ip \in Ip : LookUp(p, ip)
  \/ RowGrowsOld \/ (\E ip \in Ip : NoteGrowsOld(ip)) \/ AnswerChanges

\* Processes run to their end; an address is offered, and looked up by some
\* process, again and again (SF: the processes may be busy with others); notes
\* grow old.
IpFairness ==
  /\ \A p \in Fetchers : WF_ipVars(Proceed(p))
  /\ \A ip \in Ip : SF_ipVars(\E p \in Fetchers : LookUp(p, ip))
  /\ \A ip \in Ip : WF_ipVars(NoteGrowsOld(ip))

----------------------------------------------------------------------------
\* However the processes interleave, a range never has more rows than there
\* are processes: doubles come from overlapping inserts only (rows 123-132 of
\* ip_companies.go), and every later merge finds the rows and adds none.
NoPileUp ==
  \A c \in Companies :
    Cardinality({row \in companies : SameRange(row, c)}) <= Cardinality(Fetchers)

\* An address whose company the service keeps naming is covered by a fresh row
\* again and again, whatever the failures, the doubles two processes remove
\* from under each other, and neighbours of the range that are unknown.
KnownStays(ip) == <>[](service[ip] # Unknown)
CoveredAgain ==
  \A ip \in Ip :
    KnownStays(ip) => []<>(\E row \in companies : CoversIp(row, ip) /\ row.fresh)

============================================================================
