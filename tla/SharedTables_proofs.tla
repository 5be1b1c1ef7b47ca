------------------------ MODULE SharedTables_proofs ------------------------
(* Proofs about what processes take from and put into tables               *)
(* (MCSharedTables), for every set of rows, processes and addresses and    *)
(* chunks of any size.                                                     *)
EXTENDS MCSharedTables, CommonLemmas

(* What runs there by itself, without fairness.                            *)
ClaimSpec == Init /\ [][Next]_vars
IpSpec == IpInit /\ [][IpNext]_ipVars
GeoSpec == GeoInit /\ [][GeoNext]_geoVars

----------------------------------------------------------------------------
(* Claims of due rows (ClaimRotation).                                     *)

(* The inductive invariant: what was claimed while a row waited now comes  *)
(* after that row, so that it is not in a chunk before it; rows that are   *)
(* gone have passed nobody.                                                *)
PassedAreLater ==
  \A n, m \in Node : <<n, m>> \in passed /\ n \in due => Before(n, m)

RotationInv == TypeOK /\ passed \subseteq rows \X rows /\ PassedAreLater

LEMMA RotationInitInv == Init => RotationInv
BY DEF Init, RotationInv, TypeOK, PassedAreLater

LEMMA ClaimKeepsOrder ==
  ASSUME RotationInv, Claim
  PROVE  RotationInv'
<1>1. PICK S \in Chunks :
        /\ stamped' = stamped \cup S
        /\ older' = Forget(older, S) \cup ((stamped \ S) \X S)
        /\ due' = due \ S
        /\ passed' = passed \cup ((due \ S) \X S)
  BY DEF Claim
<1>2. pushing' = TRUE /\ UNCHANGED rows
  BY DEF Claim
<1>3. S \subseteq due
  BY DEF Chunks
<1>4. TypeOK' /\ (passed \subseteq rows \X rows)'
  BY <1>1, <1>2, <1>3 DEF RotationInv, TypeOK, Forget
<1>5. ASSUME NEW n \in Node, NEW m \in Node, <<n, m>> \in passed', n \in due'
      PROVE  Before(n, m)'
  <2>1. n \in due /\ n \notin S
    BY <1>1, <1>5
  <2>2. CASE m \in S
    BY <1>1, <1>2, <1>3, <2>1, <2>2 DEF Before, RotationInv, TypeOK
  <2>3. CASE m \notin S
    <3>1. <<n, m>> \in passed
      BY <1>1, <1>5, <2>3
    <3>2. Before(n, m)
      BY <2>1, <3>1 DEF RotationInv, PassedAreLater
    <3>3. QED BY <1>1, <1>2, <2>1, <2>3, <3>2 DEF Before, Forget
  <2>4. QED BY <2>2, <2>3
<1>6. QED BY <1>4, <1>5 DEF RotationInv, PassedAreLater

LEMMA RotationNextInv ==
  ASSUME RotationInv, [Next]_vars
  PROVE  RotationInv'
<1> USE DEF RotationInv, TypeOK, PassedAreLater, Before, Forget
<1>1. ASSUME NEW n \in Node, Insert(n) PROVE RotationInv'
  BY <1>1 DEF Insert
<1>2. ASSUME NEW n \in Node, Delete(n) PROVE RotationInv'
  BY <1>2 DEF Delete
<1>3. ASSUME NEW n \in Node, BecomeDue(n) PROVE RotationInv'
  BY <1>3 DEF BecomeDue
<1>4. ASSUME NEW n \in Node, Withdraw(n) PROVE RotationInv'
  BY <1>4 DEF Withdraw
<1>5. CASE Claim
  BY <1>5, ClaimKeepsOrder
<1>6. CASE Pushed
  BY <1>6 DEF Pushed
<1>7. CASE UNCHANGED vars
  BY <1>7 DEF vars
<1>8. QED
  BY <1>1, <1>2, <1>3, <1>4, <1>5, <1>6, <1>7 DEF Next

(* As long as a row waits to be claimed, no other row is claimed a second  *)
(* time, whatever becomes due, comes and goes in the meantime and however  *)
(* equal stamps are sorted (prober.go 81-107).                             *)
THEOREM OvertakenOnceAlways == Spec => OvertakenOnce
<1>1. RotationInv /\ Claim => \A n \in due', m \in due \ due' : <<n, m>> \notin passed
  <2> SUFFICES ASSUME RotationInv, Claim, NEW n \in due', NEW m \in due \ due'
               PROVE  <<n, m>> \notin passed
    OBVIOUS
  <2>1. PICK S \in Chunks : due' = due \ S
    BY DEF Claim
  <2>2. n \in due \ S /\ m \in S /\ n \in Node /\ m \in Node
    BY <2>1 DEF RotationInv, TypeOK
  <2>3. ~Before(n, m)
    BY <2>2 DEF Chunks
  <2>4. QED BY <2>2, <2>3 DEF RotationInv, PassedAreLater
<1>2. QED
  BY <1>1, RotationInitInv, RotationNextInv, PTL DEF Spec, OvertakenOnce

----------------------------------------------------------------------------
(* The rows of a range (IpCompanies).  The inductive invariant counts with *)
(* the rows of a range the processes that are going to insert one, having  *)
(* found none; whoever reads the table later finds the row.                *)
FetcherState ==
  [at : {"idle", "unknown", "fetch", "forget", "note", "read", "merge"}, ip : Ip \cup {0},
   answer : Companies \cup {Unknown}, todo : SUBSET [id : Nat, same : BOOLEAN], saved : BOOLEAN]

IpShape ==
  /\ companies \subseteq Rows /\ IsFiniteSet(companies)
  /\ unknownIps \subseteq Ip
  /\ service \in [Ip -> Companies \cup {Unknown}]
  /\ \A ip \in Ip : service[ip] \in CompanyAnswers(ip)
  /\ fetcher \in [Fetchers -> FetcherState]
  /\ \A p \in Fetchers : fetcher[p].at # "idle" => fetcher[p].ip \in Ip
  /\ \A p \in Fetchers : fetcher[p].at \in {"read", "merge"} => fetcher[p].answer \in Companies

(* Ids are counted up, so that there is a last one.                        *)
LastId == \E last \in Nat : \A id \in IdsInUse : id <= last

RowsOf(c) == {row \in companies : SameRange(row, c)}
Inserting(p) ==
  /\ fetcher[p].at = "merge" /\ ~fetcher[p].saved
  /\ \A isec \in fetcher[p].todo : ~isec.same
Inserters(c) == {p \in Fetchers : Inserting(p) /\ SameRange(fetcher[p].answer, c)}
Room ==
  \A c \in Companies :
    Cardinality(RowsOf(c)) + Cardinality(Inserters(c)) <= Cardinality(Fetchers)

IpInv == IpShape /\ LastId /\ Room

LEMMA CompanyFacts ==
  ASSUME NEW c \in Companies
  PROVE  c.from \in Ip /\ c.to \in Ip /\ c.from \in Int /\ c.to \in Int /\ c.from <= c.to
<1>1. PICK ip \in Ip : c \in CompanyAnswers(ip) \ {Unknown}
  BY DEF Companies
<1>2. c.from \in Ip /\ c.to \in Ip /\ CoversIp(c, ip)
  BY <1>1, AnswersCoverTheirAddress
<1>3. c.from \in Int /\ c.to \in Int /\ ip \in Int
  BY <1>2, IpAssumption
<1>4. QED BY <1>2, <1>3 DEF CoversIp

LEMMA Counts ==
  ASSUME IpShape, NEW c
  PROVE  /\ Cardinality(Fetchers) \in Nat
         /\ IsFiniteSet(RowsOf(c)) /\ Cardinality(RowsOf(c)) \in Nat
         /\ IsFiniteSet(Inserters(c)) /\ Cardinality(Inserters(c)) \in Nat
         /\ Cardinality(Inserters(c)) <= Cardinality(Fetchers)
<1>1. RowsOf(c) \in SUBSET companies /\ Inserters(c) \in SUBSET Fetchers /\ IsFiniteSet(companies)
  BY DEF RowsOf, Inserters, IpShape
<1>2. QED BY <1>1, IpAssumption, FS_Subset, FS_CardinalityType

LEMMA IpInitInv == IpInit => IpInv
<1> SUFFICES ASSUME IpInit PROVE IpInv
  OBVIOUS
<1>1. IpShape
  <2>1. IsFiniteSet({})
    BY FS_EmptySet
  <2>2. service \in [Ip -> Companies \cup {Unknown}] /\ \A ip \in Ip : service[ip] \in CompanyAnswers(ip)
    BY DEF IpInit
  <2>3. \A p \in Fetchers : fetcher[p] = IpResting /\ fetcher[p].at = "idle"
    BY DEF IpInit, IpResting
  <2>4. IpResting \in FetcherState
    BY DEF IpResting, FetcherState
  <2>5. fetcher \in [Fetchers -> FetcherState]
    BY <2>4 DEF IpInit
  <2>6. QED BY <2>1, <2>2, <2>3, <2>5 DEF IpInit, IpShape
<1>2. LastId
  <2>1. IdsInUse = {}
    BY DEF IpInit, IdsInUse, IpResting
  <2>2. QED BY <2>1 DEF LastId
<1>3. ASSUME NEW c \in Companies
      PROVE  Cardinality(RowsOf(c)) + Cardinality(Inserters(c)) <= Cardinality(Fetchers)
  <2>1. RowsOf(c) = {} /\ Inserters(c) = {}
    BY DEF IpInit, RowsOf, Inserters, Inserting, IpResting
  <2>2. Cardinality({}) = 0 /\ Cardinality(Fetchers) \in Nat
    BY FS_EmptySet, <1>1, Counts
  <2>3. QED BY <2>1, <2>2
<1>4. QED BY <1>1, <1>2, <1>3 DEF IpInv, Room

(* A process without a new reason to insert.                               *)
LEMMA NoMoreRoomTaken ==
  ASSUME IpInv, IpShape',
         \A c \in Companies : Cardinality(RowsOf(c)') <= Cardinality(RowsOf(c)),
         \A q \in Fetchers : Inserting(q)' => Inserting(q) /\ fetcher'[q].answer = fetcher[q].answer
  PROVE  Room'
<1> SUFFICES ASSUME NEW c \in Companies
             PROVE  Cardinality(RowsOf(c)') + Cardinality(Inserters(c)') <= Cardinality(Fetchers)
  BY DEF Room
<1>1. Inserters(c)' \in SUBSET Inserters(c)
  BY DEF Inserters, SameRange
<1>2. IpShape /\ Cardinality(RowsOf(c)) + Cardinality(Inserters(c)) <= Cardinality(Fetchers)
  BY DEF IpInv, Room
<1>3. Cardinality(Inserters(c)') <= Cardinality(Inserters(c)) /\ Cardinality(Inserters(c)') \in Nat
  <2>1. IsFiniteSet(Inserters(c)) BY <1>2, Counts
  <2>2. QED BY <1>1, <2>1, FS_Subset, FS_CardinalityType
<1>4. IsFiniteSet(RowsOf(c)')
  <2>1. RowsOf(c)' \in SUBSET companies' /\ IsFiniteSet(companies')
    BY DEF RowsOf, IpShape
  <2>2. QED BY <2>1, FS_Subset
<1>5. Cardinality(RowsOf(c)') \in Nat
  BY <1>4, FS_CardinalityType
<1>6. QED BY <1>2, <1>3, <1>5, Counts

LEMMA FewerRows ==
  ASSUME IpShape, companies' \subseteq companies
  PROVE  /\ IsFiniteSet(companies')
         /\ \A c \in Companies : Cardinality(RowsOf(c)') <= Cardinality(RowsOf(c))
<1>1. IsFiniteSet(companies')
  <2>1. companies' \in SUBSET companies /\ IsFiniteSet(companies)
    BY DEF IpShape
  <2>2. QED BY <2>1, FS_Subset
<1>2. ASSUME NEW c \in Companies PROVE Cardinality(RowsOf(c)') <= Cardinality(RowsOf(c))
  <2>1. RowsOf(c)' \in SUBSET RowsOf(c)
    BY DEF RowsOf
  <2>2. QED BY <2>1, Counts, FS_Subset
<1>3. QED BY <1>1, <1>2

(* A process p goes on to a state in which it inserts nothing it was not   *)
(* going to, with ids that are in the table or were its own.               *)
LEMMA GoOn ==
  ASSUME IpInv, NEW p \in Fetchers, NEW state \in FetcherState, Goto(p, state),
         state.at # "idle" => state.ip \in Ip,
         state.at \in {"read", "merge"} => state.answer \in Companies,
         state.at = "merge" /\ ~state.saved /\ (\A isec \in state.todo : ~isec.same) =>
           Inserting(p) /\ state.answer = fetcher[p].answer,
         companies' \subseteq Rows, IsFiniteSet(companies'),
         \A c \in Companies : Cardinality(RowsOf(c)') <= Cardinality(RowsOf(c)),
         \A row \in companies' : \E old \in companies : row.id = old.id,
         \A isec \in state.todo : isec.id \in IdsInUse,
         unknownIps' \subseteq Ip, service' = service
  PROVE  IpInv'
<1>1. /\ fetcher \in [Fetchers -> FetcherState] /\ fetcher' \in [Fetchers -> FetcherState]
      /\ fetcher'[p] = state /\ \A q \in Fetchers \ {p} : fetcher'[q] = fetcher[q]
  BY DEF IpInv, IpShape, Goto
<1>2. IpShape'
  <2>1. \A q \in Fetchers : /\ fetcher'[q].at # "idle" => fetcher'[q].ip \in Ip
                            /\ fetcher'[q].at \in {"read", "merge"} => fetcher'[q].answer \in Companies
    BY <1>1 DEF IpInv, IpShape
  <2>2. QED BY <1>1, <2>1 DEF IpInv, IpShape
<1>3. IdsInUse' \subseteq IdsInUse
  BY <1>1 DEF IdsInUse
<1>4. LastId'
  BY <1>3 DEF IpInv, LastId
<1>5. \A q \in Fetchers : Inserting(q)' => Inserting(q) /\ fetcher'[q].answer = fetcher[q].answer
  BY <1>1 DEF Inserting
<1>6. Room'
  BY <1>2, <1>5, NoMoreRoomTaken
<1>7. QED BY <1>2, <1>4, <1>6 DEF IpInv

(* The steps that leave a process idle or waiting for an answer.           *)
LEMMA WaitingSteps ==
  ASSUME IpInv, NEW p \in Fetchers,
         LookUpUnknown(p) \/ FetchIPCompanyInfo(p) \/ RemoveExisting(p) \/ NoteUnknown(p)
           \/ FetchFails(p) \/ (\E ip \in Ip : LookUp(p, ip))
  PROVE  IpInv'
<1>1. fetcher[p] \in FetcherState /\ IpShape /\ (fetcher[p].at # "idle" => fetcher[p].ip \in Ip)
  BY DEF IpInv, IpShape
<1>2. IpResting \in FetcherState /\ IpResting.at = "idle" /\ IpResting.todo = {}
  BY DEF IpResting, FetcherState
<1>3. /\ companies \subseteq Rows /\ unknownIps \subseteq Ip
      /\ \A isec \in fetcher[p].todo : isec.id \in IdsInUse
  BY DEF IpInv, IpShape, IdsInUse
<1>4. ASSUME companies' \subseteq companies
      PROVE  /\ companies' \subseteq Rows /\ IsFiniteSet(companies')
             /\ \A c \in Companies : Cardinality(RowsOf(c)') <= Cardinality(RowsOf(c))
             /\ \A row \in companies' : \E old \in companies : row.id = old.id
  BY <1>1, <1>3, <1>4, FewerRows
<1>5. ASSUME Finish(p), companies' \subseteq companies, unknownIps' \subseteq Ip, service' = service PROVE IpInv'
  <2>1. Goto(p, IpResting)
    BY <1>5 DEF Finish
  <2>2. QED BY <1>2, <1>4, <1>5, <2>1, GoOn
<1>6. ASSUME NEW ip \in Ip, LookUp(p, ip) PROVE IpInv'
  <2> DEFINE state == [IpResting EXCEPT !.at = "unknown", !.ip = ip]
  <2>1. state \in FetcherState /\ state.at = "unknown" /\ state.ip = ip /\ state.todo = {}
    BY DEF IpResting, FetcherState
  <2>2. Goto(p, state) /\ companies' = companies /\ unknownIps' = unknownIps /\ service' = service
    BY <1>6 DEF LookUp, Outside
  <2> HIDE DEF state
  <2>3. QED BY <1>3, <1>4, <2>1, <2>2, GoOn
<1>7. CASE LookUpUnknown(p)
  <2> DEFINE state == [fetcher[p] EXCEPT !.at = "fetch"]
  <2>1. state \in FetcherState /\ state.at = "fetch" /\ state.ip = fetcher[p].ip /\ state.todo = fetcher[p].todo
    BY <1>1 DEF FetcherState
  <2>2. (Finish(p) \/ Goto(p, state)) /\ companies' = companies /\ unknownIps' = unknownIps /\ service' = service
        /\ fetcher[p].at # "idle"
    BY <1>7 DEF LookUpUnknown, Outside, At
  <2> HIDE DEF state
  <2>3. QED BY <1>1, <1>3, <1>4, <1>5, <2>1, <2>2, GoOn
<1>8. CASE FetchIPCompanyInfo(p)
  <2> DEFINE answer == service[fetcher[p].ip]
             label == IF answer = Unknown THEN "forget" ELSE "read"
             state == [fetcher[p] EXCEPT !.at = label, !.answer = answer]
  <2>1. /\ Goto(p, state) /\ companies' = companies /\ unknownIps' = unknownIps /\ service' = service
        /\ fetcher[p].at = "fetch"
    BY <1>8 DEF FetchIPCompanyInfo, Outside, At
  <2>2. answer \in Companies \cup {Unknown}
    BY <1>1, <2>1 DEF IpShape
  <2>3. label \in {"forget", "read"} /\ (label = "read" => answer \in Companies)
    BY <2>2
  <2> HIDE DEF label, answer
  <2>4. /\ state \in FetcherState /\ state.at = label /\ state.ip = fetcher[p].ip
        /\ state.todo = fetcher[p].todo /\ state.answer = answer
    BY <1>1, <2>2, <2>3 DEF FetcherState
  <2> HIDE DEF state
  <2>5. state.at # "merge" /\ (state.at = "read" => state.answer \in Companies)
    BY <2>3, <2>4
  <2>6. QED BY <1>1, <1>3, <1>4, <2>1, <2>4, <2>5, GoOn
<1>9. CASE RemoveExisting(p)
  <2> DEFINE state == [fetcher[p] EXCEPT !.at = "note"]
  <2>1. state \in FetcherState /\ state.at = "note" /\ state.ip = fetcher[p].ip /\ state.todo = fetcher[p].todo
    BY <1>1 DEF FetcherState
  <2>2. Goto(p, state) /\ companies' \subseteq companies /\ unknownIps' = unknownIps /\ service' = service
        /\ fetcher[p].at # "idle"
    BY <1>9 DEF RemoveExisting, Outside, At
  <2> HIDE DEF state
  <2>3. QED BY <1>1, <1>3, <1>4, <2>1, <2>2, GoOn
<1>10. CASE NoteUnknown(p)
  <2>1. Finish(p) /\ companies' = companies /\ unknownIps' \subseteq Ip /\ service' = service
    BY <1>1, <1>3, <1>10 DEF NoteUnknown, Outside, At
  <2>2. QED BY <1>5, <2>1
<1>11. CASE FetchFails(p)
  BY <1>3, <1>5, <1>11 DEF FetchFails
<1>12. QED BY <1>6, <1>7, <1>8, <1>9, <1>10, <1>11

(* A process that reads rows of its answer's range is not going to insert; *)
(* if there are none, there is room for all processes.                     *)
LEMMA ReadInv ==
  ASSUME IpInv, NEW p \in Fetchers, ReadIntersections(p)
  PROVE  IpInv'
<1> DEFINE answer == fetcher[p].answer
           touched(row) == SameRange(row, answer) \/ (Inside(row, answer) /\ row.info = answer.info)
           todo == {[id |-> row.id, same |-> SameRange(row, answer)] :
                      row \in {r \in companies : Intersects(r, answer) /\ touched(r)}}
           state == [fetcher[p] EXCEPT !.at = "merge", !.todo = todo]
<1>1. /\ fetcher[p].at = "read" /\ Goto(p, state)
      /\ companies' = companies /\ unknownIps' = unknownIps /\ service' = service
  BY DEF ReadIntersections, At, Outside
<1>2. /\ IpShape /\ fetcher[p] \in FetcherState /\ answer \in Companies /\ fetcher[p].ip \in Ip
      /\ companies \subseteq Rows
  BY <1>1 DEF IpInv, IpShape
<1>3. todo \subseteq [id : Nat, same : BOOLEAN] /\ (\A isec \in todo : isec.id \in IdsInUse)
  <2>1. ASSUME NEW row \in companies
        PROVE  /\ [id |-> row.id, same |-> SameRange(row, answer)] \in [id : Nat, same : BOOLEAN]
               /\ row.id \in IdsInUse
    <3>1. row.id \in Nat /\ SameRange(row, answer) \in BOOLEAN
      BY <1>2 DEF Rows, SameRange
    <3>2. QED BY <3>1 DEF IdsInUse
  <2>2. ASSUME NEW isec \in todo PROVE isec \in [id : Nat, same : BOOLEAN] /\ isec.id \in IdsInUse
    <3>1. PICK row \in companies : isec = [id |-> row.id, same |-> SameRange(row, answer)]
      OBVIOUS
    <3>2. QED BY <2>1, <3>1
  <2>3. QED BY <2>2
<1>4. \A row \in companies : SameRange(row, answer) => [id |-> row.id, same |-> TRUE] \in todo
  <2>1. SUFFICES ASSUME NEW row \in companies, SameRange(row, answer)
                 PROVE  [id |-> row.id, same |-> TRUE] \in todo
    OBVIOUS
  <2>2. Intersects(row, answer)
    BY <1>2, <2>1, CompanyFacts DEF SameRange, Intersects
  <2>3. SameRange(row, answer) = TRUE
    BY <2>1 DEF SameRange
  <2>4. QED BY <2>1, <2>2, <2>3
<1> HIDE DEF todo
<1>5. /\ state \in FetcherState /\ state.at = "merge" /\ state.ip = fetcher[p].ip
      /\ state.answer = answer /\ state.todo = todo
  BY <1>2, <1>3 DEF FetcherState
<1> HIDE DEF state, answer
<1>6. /\ fetcher' \in [Fetchers -> FetcherState]
      /\ fetcher'[p] = state /\ \A q \in Fetchers \ {p} : fetcher'[q] = fetcher[q]
  BY <1>1, <1>5 DEF IpInv, IpShape, Goto
<1>7. IpShape'
  <2>1. \A q \in Fetchers : /\ fetcher'[q].at # "idle" => fetcher'[q].ip \in Ip
                            /\ fetcher'[q].at \in {"read", "merge"} => fetcher'[q].answer \in Companies
    BY <1>2, <1>5, <1>6 DEF IpInv, IpShape
  <2>2. QED BY <1>1, <1>6, <2>1 DEF IpInv, IpShape
<1>8. LastId'
  <2>1. IdsInUse' \subseteq IdsInUse
    BY <1>1, <1>3, <1>5, <1>6 DEF IdsInUse
  <2>2. QED BY <2>1 DEF IpInv, LastId
<1>9. ASSUME NEW c \in Companies
      PROVE  Cardinality(RowsOf(c)') + Cardinality(Inserters(c)') <= Cardinality(Fetchers)
  <2>1. RowsOf(c)' = RowsOf(c)
    BY <1>1 DEF RowsOf
  <2>2. CASE RowsOf(c) = {}
    <3>1. Inserters(c)' \in SUBSET Fetchers
      BY DEF Inserters
    <3>2. Cardinality(Inserters(c)') \in Nat /\ Cardinality(Inserters(c)') <= Cardinality(Fetchers)
      BY <3>1, IpAssumption, FS_Subset, FS_CardinalityType
    <3>3. QED BY <1>2, <2>1, <2>2, <3>2, FS_EmptySet, Counts
  <2>3. CASE RowsOf(c) # {}
    <3>1. p \notin Inserters(c)'
      <4>1. SUFFICES ASSUME SameRange(answer, c) PROVE ~Inserting(p)'
        BY <1>5, <1>6 DEF Inserters
      <4>2. PICK row \in companies : SameRange(row, c)
        BY <2>3 DEF RowsOf
      <4>3. SameRange(row, answer)
        BY <4>1, <4>2 DEF SameRange
      <4>4. [id |-> row.id, same |-> TRUE] \in fetcher'[p].todo
        BY <1>4, <1>5, <1>6, <4>3
      <4>5. QED BY <4>4 DEF Inserting
    <3>2. Inserters(c)' \in SUBSET Inserters(c)
      BY <1>6, <3>1 DEF Inserters, Inserting
    <3>3. Cardinality(Inserters(c)') \in Nat /\ Cardinality(Inserters(c)') <= Cardinality(Inserters(c))
      BY <1>2, <3>2, Counts, FS_Subset, FS_CardinalityType
    <3>4. Cardinality(RowsOf(c)) + Cardinality(Inserters(c)) <= Cardinality(Fetchers)
      BY DEF IpInv, Room
    <3>5. QED BY <1>2, <2>1, <3>3, <3>4, Counts
  <2>4. QED BY <2>2, <2>3
<1>10. QED BY <1>7, <1>8, <1>9 DEF IpInv, Room

(* Rewriting rows in place makes no more of them.                          *)
LEMMA RewrittenRows ==
  ASSUME IpShape, NEW f \in [companies -> Rows], companies' = {f[row] : row \in companies},
         \A row \in companies : f[row].id = row.id /\ f[row].from = row.from /\ f[row].to = row.to
  PROVE  /\ companies' \subseteq Rows /\ IsFiniteSet(companies')
         /\ \A c \in Companies : Cardinality(RowsOf(c)') <= Cardinality(RowsOf(c))
         /\ \A row \in companies' : \E old \in companies : row.id = old.id
<1>1. f \in Surjection(companies, companies') /\ IsFiniteSet(companies)
  BY DEF Surjection, IpShape
<1>2. IsFiniteSet(companies')
  BY <1>1, FS_Surjection
<1>3. ASSUME NEW c \in Companies PROVE Cardinality(RowsOf(c)') <= Cardinality(RowsOf(c))
  <2> DEFINE g == [row \in RowsOf(c) |-> f[row]]
  <2>1. RowsOf(c)' = {f[row] : row \in RowsOf(c)}
    BY DEF RowsOf, SameRange
  <2>2. g \in [RowsOf(c) -> RowsOf(c)'] /\ \A y \in RowsOf(c)' : \E x \in RowsOf(c) : g[x] = y
    BY <2>1
  <2> HIDE DEF g
  <2>3. g \in Surjection(RowsOf(c), RowsOf(c)')
    BY <2>2 DEF Surjection
  <2>4. QED BY <2>3, Counts, FS_Surjection
<1>4. QED BY <1>2, <1>3

LEMMA MergeInv ==
  ASSUME IpInv, NEW p \in Fetchers, MergeRow(p)
  PROVE  IpInv'
<1>1. PICK isec \in fetcher[p].todo :
        /\ UpdateSame(p, isec) \/ RemoveRedundant(p, isec)
        /\ Goto(p, [fetcher[p] EXCEPT !.todo = @ \ {isec}, !.saved = NowSaved(p, isec)])
  BY DEF MergeRow
<1>2. fetcher[p].at = "merge" /\ unknownIps' = unknownIps /\ service' = service
  BY DEF MergeRow, At, Outside
<1>3. /\ IpShape /\ fetcher[p] \in FetcherState /\ fetcher[p].answer \in Companies /\ fetcher[p].ip \in Ip
      /\ isec \in [id : Nat, same : BOOLEAN] /\ unknownIps \subseteq Ip /\ companies \subseteq Rows
  <2>1. IpShape /\ fetcher[p] \in FetcherState /\ fetcher[p].answer \in Companies /\ fetcher[p].ip \in Ip
    BY <1>2 DEF IpInv, IpShape
  <2>2. fetcher[p].todo \subseteq [id : Nat, same : BOOLEAN]
    BY <2>1 DEF FetcherState
  <2>3. QED BY <2>1, <2>2 DEF IpShape
<1> DEFINE todo == fetcher[p].todo \ {isec}
           found == NowSaved(p, isec)
           state == [fetcher[p] EXCEPT !.todo = todo, !.saved = found]
<1>4. found \in BOOLEAN /\ (found <=> fetcher[p].saved \/ isec.same)
  BY <1>3 DEF NowSaved, FetcherState
<1>5. Goto(p, state)
  BY <1>1
<1> HIDE DEF found
<1>6. /\ state \in FetcherState /\ state.at = "merge" /\ state.ip = fetcher[p].ip
      /\ state.answer = fetcher[p].answer /\ state.todo = todo /\ state.saved = found
  BY <1>2, <1>3, <1>4 DEF FetcherState
<1> HIDE DEF state
<1>7. /\ companies' \subseteq Rows /\ IsFiniteSet(companies')
      /\ \A c \in Companies : Cardinality(RowsOf(c)') <= Cardinality(RowsOf(c))
      /\ \A row \in companies' : \E old \in companies : row.id = old.id
  <2>1. CASE RemoveRedundant(p, isec)
    <3>1. companies' \subseteq companies
      BY <2>1 DEF RemoveRedundant
    <3>2. QED BY <1>3, <3>1, FewerRows
  <2>2. CASE UpdateSame(p, isec)
    <3> DEFINE f == [row \in companies |-> IF row.id = isec.id
                       THEN [row EXCEPT !.info = fetcher[p].answer.info, !.fresh = TRUE] ELSE row]
    <3>1. companies' = {f[row] : row \in companies}
      BY <2>2 DEF UpdateSame
    <3>2. fetcher[p].answer.info \in {c.info : c \in Companies}
      BY <1>3
    <3>3. ASSUME NEW row \in companies
          PROVE  f[row] \in Rows /\ f[row].id = row.id /\ f[row].from = row.from /\ f[row].to = row.to
      <4>1. row \in Rows
        BY <1>3
      <4>2. QED BY <3>2, <4>1 DEF Rows
    <3>4. f \in [companies -> Rows]
      BY <3>3
    <3> HIDE DEF f
    <3>5. QED BY <1>3, <3>1, <3>3, <3>4, RewrittenRows
  <2>3. QED BY <1>1, <2>1, <2>2
<1>8. \A x \in state.todo : x.id \in IdsInUse
  BY <1>6 DEF IdsInUse
<1>9. ~state.saved /\ (\A x \in state.todo : ~x.same) => Inserting(p)
  BY <1>2, <1>4, <1>6 DEF Inserting
<1>10. QED
  BY <1>2, <1>3, <1>5, <1>6, <1>7, <1>8, <1>9, GoOn

(* There is always a free id.                                              *)
LEMMA NewIdIsFree ==
  ASSUME LastId, IpShape
  PROVE  NewId \in Nat /\ NewId \notin IdsInUse
<1>1. PICK last \in Nat : \A id \in IdsInUse : id <= last
  BY DEF LastId
<1>2. \A id \in IdsInUse : id \in Nat
  <2>1. ASSUME NEW row \in companies PROVE row.id \in Nat
    BY DEF IpShape, Rows
  <2>2. ASSUME NEW q \in Fetchers, NEW isec \in fetcher[q].todo PROVE isec.id \in Nat
    <3>1. fetcher[q] \in FetcherState
      BY DEF IpShape
    <3>2. QED BY <3>1 DEF FetcherState
  <2>3. QED BY <2>1, <2>2 DEF IdsInUse
<1>3. IsFiniteSet(IdsInUse)
  <2>1. IdsInUse \in SUBSET (0..last) /\ IsFiniteSet(0..last)
    <3>1. IsFiniteSet(0..last)
      BY FS_Interval
    <3>2. QED BY <1>1, <1>2, <3>1
  <2>2. QED BY <2>1, FS_Subset
<1> DEFINE n == Cardinality(IdsInUse)
<1>4. n \in Nat
  BY <1>3, FS_CardinalityType
<1>5. ASSUME \A id \in 1..(n + 1) : id \in IdsInUse PROVE FALSE
  <2>1. Cardinality(1..(n + 1)) = n + 1
    <3> HIDE DEF n
    <3> QED BY <1>4, FS_Interval
  <2>2. 1..(n + 1) \in SUBSET IdsInUse
    BY <1>5
  <2>3. Cardinality(1..(n + 1)) <= n
    BY <1>3, <2>2, FS_Subset
  <2>4. QED BY <1>4, <2>1, <2>3
<1>6. NewId \in 1..(n + 1) /\ NewId \notin IdsInUse
  BY <1>5 DEF NewId
<1>7. QED BY <1>4, <1>6

(* Who inserts takes the room it had.                                      *)
LEMMA InsertInv ==
  ASSUME IpInv, NEW p \in Fetchers, InsertCompany(p)
  PROVE  IpInv'
<1> DEFINE answer == fetcher[p].answer
           row == [id |-> NewId, from |-> answer.from, to |-> answer.to, info |-> answer.info, fresh |-> TRUE]
<1>1. /\ fetcher[p].at = "merge" /\ fetcher[p].todo = {} /\ Goto(p, IpResting)
      /\ companies' = IF fetcher[p].saved THEN companies ELSE companies \cup {row}
      /\ unknownIps' = unknownIps /\ service' = service
  BY DEF InsertCompany, At, Finish, Outside
<1>2. /\ IpShape /\ LastId /\ fetcher[p] \in FetcherState /\ answer \in Companies /\ companies \subseteq Rows
      /\ unknownIps \subseteq Ip
  BY <1>1 DEF IpInv, IpShape
<1>3. IpResting \in FetcherState /\ IpResting.at = "idle" /\ IpResting.todo = {}
  BY DEF IpResting, FetcherState
<1>4. NewId \in Nat
  BY <1>2, NewIdIsFree
<1>5. row \in Rows
  BY <1>2, <1>4, CompanyFacts DEF Rows
<1>6. row.from = answer.from /\ row.to = answer.to /\ row.id = NewId
  OBVIOUS
<1>7. CASE fetcher[p].saved
  <2>1. companies' \subseteq companies
    BY <1>1, <1>7
  <2>2. QED BY <1>1, <1>2, <1>3, <2>1, FewerRows, GoOn
<1>8. CASE ~fetcher[p].saved
  <2> HIDE DEF row
  <2>1. companies' = companies \cup {row} /\ Inserting(p)
    BY <1>1, <1>8 DEF Inserting
  <2>2. /\ fetcher' \in [Fetchers -> FetcherState]
        /\ fetcher'[p] = IpResting /\ \A q \in Fetchers \ {p} : fetcher'[q] = fetcher[q]
    BY <1>1, <1>3 DEF IpInv, IpShape, Goto
  <2>3. IsFiniteSet(companies')
    BY <1>2, <2>1, FS_AddElement DEF IpShape
  <2>4. IpShape'
    <3>1. companies' \subseteq Rows
      BY <1>2, <1>5, <2>1
    <3>2. \A q \in Fetchers : /\ fetcher'[q].at # "idle" => fetcher'[q].ip \in Ip
                              /\ fetcher'[q].at \in {"read", "merge"} => fetcher'[q].answer \in Companies
      BY <1>2, <1>3, <2>2 DEF IpShape
    <3>3. QED BY <1>1, <1>2, <2>2, <2>3, <3>1, <3>2 DEF IpShape
  <2>5. LastId'
    <3>1. IdsInUse' \subseteq IdsInUse \cup {NewId}
      BY <1>3, <1>6, <2>1, <2>2 DEF IdsInUse
    <3>2. PICK last \in Nat : \A id \in IdsInUse : id <= last
      BY <1>2 DEF LastId
    <3>3. \A id \in IdsInUse : id \in Nat
      <4>1. ASSUME NEW r \in companies PROVE r.id \in Nat
        BY <1>2 DEF Rows
      <4>2. ASSUME NEW q \in Fetchers, NEW isec \in fetcher[q].todo PROVE isec.id \in Nat
        <5>1. fetcher[q] \in FetcherState
          BY <1>2 DEF IpShape
        <5>2. QED BY <5>1 DEF FetcherState
      <4>3. QED BY <4>1, <4>2 DEF IdsInUse
    <3> DEFINE top == last + NewId
    <3>4. top \in Nat /\ \A id \in IdsInUse \cup {NewId} : id <= top
      BY <1>4, <3>2, <3>3
    <3> HIDE DEF top
    <3>5. QED BY <3>1, <3>4 DEF LastId
  <2>6. ASSUME NEW c \in Companies
        PROVE  Cardinality(RowsOf(c)') + Cardinality(Inserters(c)') <= Cardinality(Fetchers)
    <3>1. Inserters(c)' = Inserters(c) \ {p}
      BY <1>3, <2>2 DEF Inserters, Inserting
    <3>2. Cardinality(RowsOf(c)) + Cardinality(Inserters(c)) <= Cardinality(Fetchers)
      BY DEF IpInv, Room
    <3>3. /\ IsFiniteSet(RowsOf(c)) /\ Cardinality(RowsOf(c)) \in Nat /\ Cardinality(Fetchers) \in Nat
          /\ IsFiniteSet(Inserters(c)) /\ Cardinality(Inserters(c)) \in Nat
      BY <1>2, Counts
    <3>4. CASE SameRange(answer, c)
      <4>1. p \in Inserters(c)
        BY <2>1, <3>4 DEF Inserters
      <4>2. Cardinality(Inserters(c)') = Cardinality(Inserters(c)) - 1
        BY <3>1, <3>3, <4>1, FS_RemoveElement
      <4>3. RowsOf(c)' = RowsOf(c) \cup {row}
        BY <1>6, <2>1, <3>4 DEF RowsOf, SameRange
      <4>4. Cardinality(RowsOf(c)') \in {Cardinality(RowsOf(c)), Cardinality(RowsOf(c)) + 1}
        BY <3>3, <4>3, FS_AddElement
      <4>5. QED BY <3>2, <3>3, <4>2, <4>4
    <3>5. CASE ~SameRange(answer, c)
      <4>1. RowsOf(c)' = RowsOf(c)
        BY <1>6, <2>1, <3>5 DEF RowsOf, SameRange
      <4>2. Cardinality(Inserters(c)') \in Nat /\ Cardinality(Inserters(c)') <= Cardinality(Inserters(c))
        BY <3>1, <3>3, FS_Subset, FS_CardinalityType
      <4>3. QED BY <3>2, <3>3, <4>1, <4>2
    <3>6. QED BY <3>4, <3>5
  <2>7. QED BY <2>4, <2>5, <2>6 DEF IpInv, Room
<1>9. QED BY <1>7, <1>8

LEMMA OutsideInv ==
  ASSUME IpInv, RowGrowsOld \/ (\E ip \in Ip : NoteGrowsOld(ip)) \/ AnswerChanges \/ UNCHANGED ipVars
  PROVE  IpInv'
<1>1. fetcher' = fetcher
  BY DEF RowGrowsOld, NoteGrowsOld, AnswerChanges, ipVars
<1>2. /\ companies' \subseteq Rows /\ IsFiniteSet(companies')
      /\ \A c \in Companies : Cardinality(RowsOf(c)') <= Cardinality(RowsOf(c))
      /\ \A row \in companies' : \E old \in companies : row.id = old.id
  <2>1. CASE RowGrowsOld
    <3>1. PICK row \in companies : row.fresh /\ companies' = (companies \ {row}) \cup {[row EXCEPT !.fresh = FALSE]}
      BY <2>1 DEF RowGrowsOld
    <3> DEFINE f == [r \in companies |-> IF r = row THEN [row EXCEPT !.fresh = FALSE] ELSE r]
    <3>2. companies' = {f[r] : r \in companies}
      BY <3>1
    <3>3. ASSUME NEW r \in companies
          PROVE  f[r] \in Rows /\ f[r].id = r.id /\ f[r].from = r.from /\ f[r].to = r.to
      <4>1. r \in Rows /\ row \in Rows
        BY DEF IpInv, IpShape
      <4>2. QED BY <4>1 DEF Rows
    <3>4. f \in [companies -> Rows]
      BY <3>3
    <3> HIDE DEF f
    <3>5. QED BY <3>2, <3>3, <3>4, RewrittenRows DEF IpInv
  <2>2. CASE ~RowGrowsOld
    <3>1. companies' = companies
      BY <2>2 DEF NoteGrowsOld, AnswerChanges, ipVars
    <3>2. QED BY <3>1, FewerRows DEF IpInv, IpShape
  <2>3. QED BY <2>1, <2>2
<1>3. /\ unknownIps' \subseteq Ip
      /\ service' \in [Ip -> Companies \cup {Unknown}] /\ \A ip \in Ip : service'[ip] \in CompanyAnswers(ip)
  <2>1. CASE AnswerChanges
    <3>1. PICK ip \in Ip : \E a \in CompanyAnswers(ip) \ {service[ip]} : service' = [service EXCEPT ![ip] = a]
      BY <2>1 DEF AnswerChanges
    <3>2. PICK a \in CompanyAnswers(ip) : service' = [service EXCEPT ![ip] = a]
      BY <3>1
    <3>3. a \in Companies \cup {Unknown}
      BY <3>2 DEF Companies
    <3>4. QED BY <2>1, <3>2, <3>3 DEF AnswerChanges, IpInv, IpShape
  <2>2. CASE ~AnswerChanges
    BY <2>2 DEF RowGrowsOld, NoteGrowsOld, ipVars, Outside, IpInv, IpShape
  <2>3. QED BY <2>1, <2>2
<1>4. IpShape'
  BY <1>1, <1>2, <1>3 DEF IpInv, IpShape
<1>5. LastId'
  <2>1. IdsInUse' \subseteq IdsInUse
    BY <1>1, <1>2 DEF IdsInUse
  <2>2. QED BY <2>1 DEF IpInv, LastId
<1>6. Room'
  <2>1. \A q \in Fetchers : Inserting(q)' => Inserting(q) /\ fetcher'[q].answer = fetcher[q].answer
    BY <1>1 DEF Inserting
  <2>2. QED BY <1>2, <1>4, <2>1, NoMoreRoomTaken
<1>7. QED BY <1>4, <1>5, <1>6 DEF IpInv

LEMMA IpNextInv == IpInv /\ [IpNext]_ipVars => IpInv'
<1> SUFFICES ASSUME IpInv, [IpNext]_ipVars PROVE IpInv'
  OBVIOUS
<1>1. ASSUME NEW p \in Fetchers, Proceed(p) \/ FetchFails(p) \/ \E ip \in Ip : LookUp(p, ip)
      PROVE  IpInv'
  BY <1>1, WaitingSteps, ReadInv, MergeInv, InsertInv DEF Proceed
<1>2. QED BY <1>1, OutsideInv DEF IpNext

(* However the processes interleave, no range has more rows than there are *)
(* processes (core/ip_companies.go 82-134).                                *)
THEOREM NoPileUpAlways == IpSpec => []NoPileUp
<1>1. IpInv => NoPileUp
  <2>1. SUFFICES ASSUME IpInv, NEW c \in Companies
                 PROVE  Cardinality(RowsOf(c)) <= Cardinality(Fetchers)
    BY DEF NoPileUp, RowsOf
  <2>2. QED BY <2>1, Counts DEF IpInv, Room
<1>2. QED BY IpInitInv, IpNextInv, <1>1, PTL DEF IpSpec

----------------------------------------------------------------------------
(* A database that is followed (GeoIPReload).  The inductive invariant: a  *)
(* file is installed after the one it replaces, the time remembered is not *)
(* later than that of the file served, and nobody looks ahead of the clock.*)
GeoOrder ==
  /\ geoFile <= geoClock /\ geoTmp <= geoClock
  /\ geoTmp # 0 => geoFile < geoTmp /\ geoClock <= 2 * MaxDownloads
  /\ geoStat <= geoFile
  /\ lastModTime <= geoServed /\ geoServed <= geoFile

GeoInv == GeoTypeOK /\ GeoOrder

LEMMA GeoInitInv == GeoInit => GeoInv
BY GeoAssumption DEF GeoInit, GeoInv, GeoTypeOK, GeoOrder, GeoTime

LEMMA GeoNextInv ==
  ASSUME GeoInv, [GeoNext]_geoVars
  PROVE  GeoInv'
<1> USE GeoAssumption DEF GeoInv, GeoTypeOK, GeoOrder, GeoTime
<1>1. CASE Download
  BY <1>1 DEF Download
<1>2. CASE Install
  BY <1>2 DEF Install
<1>3. CASE StatFile
  BY <1>3 DEF StatFile
<1>4. CASE Reopen
  BY <1>4 DEF Reopen, Remembered
<1>5. CASE ReopenFails
  BY <1>5 DEF ReopenFails
<1>6. CASE UNCHANGED geoVars
  BY <1>6 DEF geoVars
<1>7. QED
  BY <1>1, <1>2, <1>3, <1>4, <1>5, <1>6 DEF GeoNext

(* Whatever is installed while a process looks, opens or fails to: as long *)
(* as what it serves is not the file that is installed, the file is later  *)
(* than the time it remembers, so that the next look finds it out          *)
(* (db.go 93-141).  This is what NewestIsServed rests on.                  *)
StalenessShows == geoServed # geoFile => geoFile > lastModTime
THEOREM StalenessShowsAlways == GeoSpec => []StalenessShows
<1>1. GeoInv => StalenessShows
  BY DEF GeoInv, GeoTypeOK, GeoOrder, GeoTime, StalenessShows
<1>2. QED
  BY GeoInitInv, GeoNextInv, <1>1, PTL DEF GeoSpec

----------------------------------------------------------------------------
(* All of it together.  A behaviour of MCSharedTables is, of the variables *)
(* of each module, one of that module's.                                   *)
LEMMA SharedRunsThem == SharedSpec => ClaimSpec /\ IpSpec /\ GeoSpec
<1>1. SharedInit => Init /\ IpInit /\ GeoInit
  BY DEF SharedInit
<1> USE DEF SharedNext, sharedVars, ClaimRows, CMDFetchCompanies, CMDHttp
<1>2. [SharedNext]_sharedVars => [Next]_vars
  OBVIOUS
<1>3. [SharedNext]_sharedVars => [IpNext]_ipVars
  OBVIOUS
<1>4. [SharedNext]_sharedVars => [GeoNext]_geoVars
  OBVIOUS
<1>5. QED
  BY <1>1, <1>2, <1>3, <1>4, PTL DEF SharedSpec, ClaimSpec, IpSpec, GeoSpec

(* Type correctness of the claims, of the companies' rows and those who    *)
(* merge them (core/ip_companies.go) and of the database that is followed  *)
(* (utils/db.go, GeoIPConn).                                               *)
THEOREM SharedTypeCorrect == SharedSpec => [](TypeOK /\ IpTypeOK /\ GeoTypeOK)
<1>1. RotationInv => TypeOK
  BY DEF RotationInv
<1>2. IpInv => IpTypeOK
  BY DEF IpInv, IpShape, IpTypeOK, FetcherState
<1>3. GeoInv => GeoTypeOK
  BY DEF GeoInv
<1>4. ClaimSpec => []RotationInv
  BY RotationInitInv, RotationNextInv, PTL DEF ClaimSpec
<1>5. IpSpec => []IpInv
  BY IpInitInv, IpNextInv, PTL DEF IpSpec
<1>6. GeoSpec => []GeoInv
  BY GeoInitInv, GeoNextInv, PTL DEF GeoSpec
<1>7. QED
  BY <1>1, <1>2, <1>3, <1>4, <1>5, <1>6, SharedRunsThem, PTL
=============================================================================
