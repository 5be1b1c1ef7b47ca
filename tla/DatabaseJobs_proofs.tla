------------------------ MODULE DatabaseJobs_proofs -------------------------
(* Proofs about the jobs that keep the database (MCDatabaseJobs): the      *)
(* savers of node offers, the daily and the official statistics, the pages *)
(* of transactions and their sums, the prober's bookkeeping and the        *)
(* archives of pings, for every value of their constants.                  *)
EXTENDS MCDatabaseJobs, CommonLemmas, NaturalsInduction

(* The commands by themselves, without fairness.                           *)
OffersSpec == OffersInit /\ [][OffersNext]_offVars
StatSpec == StatInit /\ [][StatNext]_statVars
PartSpec == PartInit /\ [][PartNext]_partVars
TxSpec == TxInit /\ [][TxNext]_txVars
ProbesSpec == ProbesInit /\ [][ProbesNext]_probeVars

----------------------------------------------------------------------------
(* Savers of node offers (NodeOffers).  The inductive invariant: what a    *)
(* saver holds at each of its stages.                                      *)
OffHoldsNothing ==
  \A s \in Savers : saver[s].at = "off" => \A n \in Offered : holder[n] # s
LockingHoldsRest ==
  \A s \in Savers : saver[s].at = "lock" =>
    /\ \A n \in saver[s].seen : holder[n] = s \/ n \in ToSet(saver[s].todo)
    /\ saver[s].saved = {}
WritingHoldsSeen ==
  \A s \in Savers : saver[s].at = "upsert" => \A n \in saver[s].seen : holder[n] = s

SaverState ==
  [at : {"off", "lock", "upsert"}, list : Seq(Offered), seen : SUBSET Offered,
   todo : Seq(Offered), saved : SUBSET Offered]
OffersShape ==
  /\ nodes \subseteq Offered
  /\ holder \in [Offered -> Savers \cup Others \cup {Nobody}]
  /\ saver \in [Savers -> SaverState]
  /\ \A s \in Savers : ToSet(saver[s].todo) \subseteq saver[s].seen
  /\ other \in [Others -> SUBSET (Offered \cup Off)]

OffersInv == OffersShape /\ OffHoldsNothing /\ LockingHoldsRest /\ WritingHoldsSeen

LEMMA OffersInitInv == OffersInit => OffersInv
<1> SUFFICES ASSUME OffersInit PROVE OffersInv
  OBVIOUS
<1>1. <<>> \in Seq(Offered)
  BY EmptySeq
<1>2. SaverOff \in SaverState
  BY <1>1 DEF SaverOff, SaverState
<1>3. OffersShape
  <2>1. ToSet(SaverOff.todo) = {}
    BY DEF SaverOff, ToSet
  <2>2. QED BY <1>2, <2>1 DEF OffersInit, OffersShape
<1>4. OffHoldsNothing /\ LockingHoldsRest /\ WritingHoldsSeen
  BY OffersAssumption DEF OffersInit, SaverOff, OffHoldsNothing, LockingHoldsRest, WritingHoldsSeen
<1>5. QED BY <1>3, <1>4 DEF OffersInv

(* Each step keeps the invariant.                                          *)
LEMMA OffersNextInv ==
  ASSUME OffersInv, [OffersNext]_offVars
  PROVE  OffersInv'
<1> USE DEF OffersInv
<1>1. ASSUME NEW s \in Savers, BeginSave(s) PROVE OffersInv'
  <2>1. PICK list \in OfferLists :
          LET seen == nodes \cap ToSet(list)
          IN  \E order \in Orders(seen) :
                saver' = [saver EXCEPT ![s] = [at |-> "lock", list |-> list, seen |-> seen,
                                               todo |-> order, saved |-> {}]]
    BY <1>1 DEF BeginSave, LockedFirst
  <2> DEFINE seen == nodes \cap ToSet(list)
  <2>2. saver[s].at = "off" /\ UNCHANGED <<nodes, holder, other>>
    BY <1>1 DEF BeginSave
  <2>3. list \in Seq(Offered) /\ seen \subseteq Offered
    BY ListsAreDistinct DEF OffersShape
  <2> HIDE DEF seen
  <2>4. PICK order \in Orders(seen) :
          saver' = [saver EXCEPT ![s] = [at |-> "lock", list |-> list, seen |-> seen,
                                         todo |-> order, saved |-> {}]]
    BY <2>1 DEF seen
  <2>5. order \in Seq(Offered) /\ ToSet(order) = seen
    <3>1. Cardinality(seen) \in Nat
      BY <2>3, OffersAssumption, FS_Subset, FS_CardinalityType
    <3>2. order \in [1..Cardinality(seen) -> Offered]
      BY <2>3 DEF Orders
    <3>3. QED BY <3>1, <3>2, SeqDef DEF Orders
  <2>6. OffersShape'
    BY <2>2, <2>3, <2>4, <2>5 DEF OffersShape, SaverState
  <2>7. QED
    BY <2>2, <2>4, <2>5, <2>6 DEF OffersShape, OffHoldsNothing, LockingHoldsRest, WritingHoldsSeen
<1>2. ASSUME NEW s \in Savers, LockRow(s) PROVE OffersInv'
  <2> DEFINE n == Head(saver[s].todo)
             rest == Tail(saver[s].todo)
  <2>1. /\ saver[s].at = "lock" /\ saver[s].todo # <<>> /\ Free(n, s)
        /\ holder' = [holder EXCEPT ![n] = s]
        /\ saver' = [saver EXCEPT ![s].todo = rest]
        /\ UNCHANGED <<nodes, other, fetches>>
    BY <1>2 DEF LockRow, Take
  <2>2. saver[s].todo \in Seq(Offered) /\ ToSet(saver[s].todo) \subseteq saver[s].seen
    BY DEF OffersShape, SaverState
  <2>3. n \in Offered /\ rest \in Seq(Offered) /\ ToSet(saver[s].todo) = ToSet(rest) \cup {n}
    BY <2>1, <2>2, TakeHead
  <2> HIDE DEF n, rest
  <2>4. OffersShape'
    BY <2>1, <2>2, <2>3 DEF OffersShape, SaverState
  <2>5. \A t \in Savers : t # s => holder[n] # t /\ saver'[t] = saver[t]
    BY <2>1, OffersAssumption DEF Free, OffersShape
  <2>6. OffHoldsNothing' /\ LockingHoldsRest' /\ WritingHoldsSeen'
    BY <2>1, <2>2, <2>3, <2>5
       DEF OffersShape, SaverState, OffHoldsNothing, LockingHoldsRest, WritingHoldsSeen
  <2>7. QED BY <2>4, <2>6
<1>3. ASSUME NEW s \in Savers, RowsLocked(s) PROVE OffersInv'
  <2>1. /\ saver[s].at = "lock" /\ saver[s].todo = <<>>
        /\ saver' = [saver EXCEPT ![s].at = "upsert"]
        /\ UNCHANGED <<nodes, holder, other>>
    BY <1>3 DEF RowsLocked
  <2>2. OffersShape'
    BY <2>1 DEF OffersShape, SaverState
  <2>3. OffHoldsNothing' /\ LockingHoldsRest'
    BY <2>1 DEF OffersShape, SaverState, OffHoldsNothing, LockingHoldsRest
  <2>4. \A n \in saver[s].seen : n \in Offered /\ holder[n] = s
    <3>1. ToSet(saver[s].todo) = {}
      BY <2>1 DEF ToSet
    <3>2. QED BY <2>1, <3>1 DEF OffersShape, SaverState, LockingHoldsRest
  <2>5. WritingHoldsSeen'
    BY <2>1, <2>4 DEF OffersShape, SaverState, WritingHoldsSeen
  <2>6. QED BY <2>2, <2>3, <2>5
<1>4. ASSUME NEW s \in Savers, UpsertNode(s) PROVE OffersInv'
  <2> DEFINE n == Head(saver[s].list)
  <2>1. /\ saver[s].at = "upsert" /\ saver[s].list # <<>> /\ Free(n, s)
        /\ holder' = [holder EXCEPT ![n] = s]
        /\ saver' = [saver EXCEPT ![s].list = Tail(@), ![s].saved = @ \cup {n}]
        /\ UNCHANGED <<nodes, other, fetches>>
    BY <1>4 DEF UpsertNode, Take
  <2>2. n \in Offered /\ Tail(saver[s].list) \in Seq(Offered)
    BY <2>1, HeadTailProperties DEF OffersShape, SaverState
  <2> HIDE DEF n
  <2>a. saver[s] \in SaverState /\ saver \in [Savers -> SaverState]
    BY DEF OffersShape
  <2>b. [saver[s] EXCEPT !.list = Tail(@), !.saved = @ \cup {n}] \in SaverState
    BY <2>2, <2>a DEF SaverState
  <2>3. OffersShape'
    BY <2>1, <2>2, <2>a, <2>b DEF OffersShape
  <2>4. \A t \in Savers : t # s => holder[n] # t /\ saver'[t] = saver[t]
    BY <2>1, OffersAssumption DEF Free, OffersShape
  <2>5. OffHoldsNothing' /\ LockingHoldsRest' /\ WritingHoldsSeen'
    BY <2>1, <2>2, <2>4 DEF OffersShape, SaverState, OffHoldsNothing, LockingHoldsRest, WritingHoldsSeen
  <2>6. QED BY <2>3, <2>5
<1>5. ASSUME NEW s \in Savers, CommitSave(s) \/ RollBack(s) PROVE OffersInv'
  <2>1. /\ nodes' = nodes \/ nodes' = nodes \cup saver[s].saved
        /\ holder' = [m \in Offered |-> IF holder[m] = s THEN Nobody ELSE holder[m]]
        /\ saver' = [saver EXCEPT ![s] = SaverOff]
        /\ UNCHANGED other
    BY <1>5 DEF CommitSave, RollBack, Release
  <2>2. SaverOff \in SaverState /\ ToSet(SaverOff.todo) = {}
    BY EmptySeq DEF SaverOff, SaverState, ToSet
  <2>3. OffersShape'
    BY <2>1, <2>2 DEF OffersShape, SaverState
  <2>4. OffHoldsNothing' /\ LockingHoldsRest' /\ WritingHoldsSeen'
    BY <2>1, OffersAssumption
       DEF OffersShape, SaverState, SaverOff, OffHoldsNothing, LockingHoldsRest, WritingHoldsSeen
  <2>5. QED BY <2>3, <2>4
<1>6. ASSUME NEW o \in Others, BeginOther(o) \/ LockOther(o) \/ EndOther(o) PROVE OffersInv'
  <2>1. UNCHANGED <<nodes, saver>>
    BY <1>6 DEF BeginOther, LockOther, EndOther
  <2>2. /\ other' \in [Others -> SUBSET (Offered \cup Off)]
        /\ holder' \in [Offered -> Savers \cup Others \cup {Nobody}]
    <3>1. CASE BeginOther(o)
      BY <3>1 DEF BeginOther, OffersShape
    <3>2. CASE LockOther(o)
      BY <3>2 DEF LockOther, Take, OffersShape
    <3>3. CASE EndOther(o)
      BY <3>3 DEF EndOther, Release, OffersShape
    <3>4. QED BY <1>6, <3>1, <3>2, <3>3
  <2>3. \A s \in Savers, n \in Offered : holder'[n] = s <=> holder[n] = s
    <3>1. o \notin Savers /\ Nobody \notin Savers
      BY OffersAssumption
    <3>2. CASE BeginOther(o)
      BY <3>2 DEF BeginOther
    <3>3. CASE LockOther(o)
      BY <3>1, <3>3 DEF LockOther, Free, Take, OffersShape
    <3>4. CASE EndOther(o)
      BY <3>1, <3>4 DEF EndOther, Release, OffersShape
    <3>5. QED BY <1>6, <3>2, <3>3, <3>4
  <2>4. OffersShape'
    BY <2>1, <2>2 DEF OffersShape
  <2>5. OffHoldsNothing' /\ LockingHoldsRest' /\ WritingHoldsSeen'
    BY <2>1, <2>3 DEF OffersShape, SaverState, OffHoldsNothing, LockingHoldsRest, WritingHoldsSeen
  <2>6. QED BY <2>4, <2>5
<1>7. ASSUME UNCHANGED offVars PROVE OffersInv'
  BY <1>7 DEF offVars, OffersShape, OffHoldsNothing, LockingHoldsRest, WritingHoldsSeen
<1>8. QED
  BY <1>1, <1>2, <1>3, <1>4, <1>5, <1>6, <1>7 DEF OffersNext

----------------------------------------------------------------------------
(* Who writes holds all the rows it has seen, so that a saver that waits   *)
(* for a row it has seen is still locking, and has written none.           *)
LEMMA WaitsBeforeWriting ==
  ASSUME OffersInv, NEW s \in Savers, NEW n \in Awaited(s), n \in saver[s].seen
  PROVE  saver[s].saved = {}
<1>1. n \in Wanted(s) /\ holder[n] # s
  BY DEF Awaited, Free
<1>2. saver[s].at # "upsert"
  BY <1>1 DEF OffersInv, WritingHoldsSeen
<1>3. saver[s].at = "lock"
  BY <1>1, <1>2 DEF Wanted
<1>4. QED BY <1>3 DEF OffersInv, LockingHoldsRest

(* Savers that wait for one another, but not for a node that one of them   *)
(* found without a row when it locked its rows, have written nothing yet   *)
(* (nodes/fetcher.go 99-175), however many fetch at once, whatever they    *)
(* are offered and in whatever order each locks its rows.                  *)
THEOREM DeadlocksBeforeWrites == OffersSpec => []DeadlockBeforeWrites
<1>1. ASSUME OffersInv PROVE DeadlockBeforeWrites
  <2> SUFFICES ASSUME NEW S \in SUBSET Savers, InCircle(S),
                      \A s \in S : \A n \in Awaited(s) : n \in saver[s].seen
               PROVE  \A s \in S : saver[s].saved = {}
    BY DEF DeadlockBeforeWrites
  <2>1. TAKE s \in S
  <2>2. PICK n \in Awaited(s) : n \in saver[s].seen
    BY DEF InCircle, WaitsFor
  <2>3. QED BY <1>1, <2>2, WaitsBeforeWriting
<1>2. QED BY OffersInitInv, OffersNextInv, <1>1, PTL DEF OffersSpec

----------------------------------------------------------------------------
(* The daily rows (DailyStats).  The inductive invariant: a row is written *)
(* on its day only, so that the row of yesterday no longer changes.        *)
DailyShape ==
  /\ today \in StatDay /\ statActive \subseteq StatNodes
  /\ dailyRow \in [StatDay -> [saved : BOOLEAN, ids : SUBSET StatNodes,
                               come : SUBSET StatNodes, left : SUBSET StatNodes]]
NoRowYet == \A d \in StatDay : d > today => ~dailyRow[d].saved

DailyInv == DailyShape /\ NoRowYet /\ DaysTile

LEMMA StatInitInv == StatInit => DailyInv
BY StatAssumption DEF StatInit, DailyInv, DailyShape, NoRowYet, DaysTile, NoDailyRow, StatDay

(* The one action that writes a row.                                       *)
LEMMA SaveKeepsDays ==
  ASSUME DailyInv, SaveDailyStats
  PROVE  DailyInv'
<1> USE DEF DailyInv
<1>1. UNCHANGED <<today, statActive>>
  BY DEF SaveDailyStats
<1>2. CASE UNCHANGED dailyRow
  BY <1>1, <1>2 DEF DailyShape, NoRowYet, DaysTile
<1> DEFINE row == [saved |-> TRUE, ids |-> statActive, come |-> statActive \ Yesterday.ids,
                   left |-> Yesterday.ids \ statActive]
<1>3. CASE dailyRow' = [dailyRow EXCEPT ![today] = row]
  <2>1. today \in StatDay /\ Yesterday.ids \subseteq StatNodes
    <3>1. today # 1 => today - 1 \in StatDay
      BY StatAssumption DEF DailyShape, StatDay
    <3>2. QED BY <3>1 DEF DailyShape, Yesterday, NoDailyRow
  <2>2. DailyShape'
    BY <1>1, <1>3, <2>1 DEF DailyShape
  <2>3. NoRowYet'
    BY <1>1, <1>3, <2>1, StatAssumption DEF DailyShape, NoRowYet, StatDay
  <2>4. ASSUME NEW d \in StatDay, dailyRow'[d].saved
        PROVE  LET before == IF d = 1 THEN NoDailyRow ELSE dailyRow'[d - 1]
               IN  /\ dailyRow'[d].ids = (before.ids \ dailyRow'[d].left) \cup dailyRow'[d].come
                   /\ dailyRow'[d].left \subseteq before.ids
                   /\ dailyRow'[d].come \cap before.ids = {}
    <3>1. CASE d = today
      <4>1. dailyRow'[d] = row
        BY <1>3, <2>1, <3>1 DEF DailyShape
      <4>2. d # 1 => dailyRow'[d - 1] = dailyRow[d - 1]
        BY <1>3, <2>1, <3>1, StatAssumption DEF DailyShape, StatDay
      <4>3. Yesterday = IF d = 1 THEN NoDailyRow ELSE dailyRow'[d - 1]
        BY <3>1, <4>2 DEF Yesterday
      <4> HIDE DEF DailyInv
      <4>4. QED BY <4>1, <4>3
    <3>2. CASE d # today
      <4>1. dailyRow'[d] = dailyRow[d] /\ dailyRow[d].saved
        BY <1>3, <2>1, <2>4, <3>2 DEF DailyShape
      <4>2. d - 1 # today \/ d = 1
        BY <2>1, <4>1, StatAssumption DEF NoRowYet, StatDay
      <4>3. d # 1 => dailyRow'[d - 1] = dailyRow[d - 1]
        BY <1>3, <2>1, <4>2, StatAssumption DEF DailyShape, StatDay
      <4>4. QED BY <4>1, <4>3 DEF DaysTile
    <3>3. QED BY <3>1, <3>2
  <2>5. DaysTile'
    BY <2>4 DEF DaysTile
  <2>6. QED BY <2>2, <2>3, <2>5
<1>4. QED
  BY <1>2, <1>3 DEF SaveDailyStats, Upserted

LEMMA StatNextInv ==
  ASSUME DailyInv, [StatNext]_statVars
  PROVE  DailyInv'
<1> USE DEF DailyInv
<1>1. CASE SaveDailyStats
  BY <1>1, SaveKeepsDays
<1>2. CASE StatNodesChange
  BY <1>2 DEF StatNodesChange, DailyShape, NoRowYet, DaysTile
<1>3. CASE MidnightUTC
  BY <1>3, StatAssumption DEF MidnightUTC, DailyShape, NoRowYet, DaysTile, StatDay
<1>4. CASE StatOff
  <2>1. UNCHANGED dailyVars
    BY <1>4 DEF StatOff, CloseErrors, ReadError, OffStatsEnd, GetJSON, SaveSatDetails, SendError
  <2>2. QED BY <2>1 DEF dailyVars, DailyShape, NoRowYet, DaysTile
<1>5. CASE UNCHANGED statVars
  BY <1>5 DEF statVars, DailyShape, NoRowYet, DaysTile
<1>6. QED
  BY <1>1, <1>2, <1>3, <1>4, <1>5 DEF StatNext, StatDaily

(* The rows of neighbouring days tile, however many runs a day has and     *)
(* whatever days have none (stats.go 199-231).                             *)
THEOREM DaysTileAlways == StatSpec => []DaysTile
<1>1. DailyInv => DaysTile BY DEF DailyInv
<1>2. QED BY StatInitInv, StatNextInv, <1>1, PTL DEF StatSpec

----------------------------------------------------------------------------
(* The fetch of the official documents (DailyStats).  An error that has    *)
(* happened is reported, queued or about to be sent; and every satellite   *)
(* raises one at most.                                                     *)
DocState == [at : {"fetch", "save", "send", "done"}, left : 0..SatsInDoc]

OffShape ==
  /\ offAt \in {"off", "reading", "done"}
  /\ doc \in [Docs -> DocState]
  /\ errChan \in 0..ErrCap /\ errClosed \in BOOLEAN
  /\ raised \in Nat /\ reported \in Nat

Senders == {k \in Docs : doc[k].at = "send"}
NoErrorLost == reported + errChan + Cardinality(Senders) = raised

ToSave == {s \in Docs \X (1..SatsInDoc) : s[2] <= doc[s[1]].left}
OneErrorEach == raised + Cardinality(ToSave) <= Cardinality(Docs) * SatsInDoc

InTurn ==
  /\ \A k \in Docs : /\ doc[k].at = "fetch" => doc[k].left = SatsInDoc
                     /\ doc[k].at = "save" => doc[k].left > 0
  /\ errClosed => AllDone
  /\ offAt = "done" => errChan = 0 /\ errClosed

OffInv == OffShape /\ NoErrorLost /\ OneErrorEach /\ InTurn

LEMMA DocCounts ==
  ASSUME OffShape
  PROVE  /\ IsFiniteSet(Senders) /\ Cardinality(Senders) \in Nat
         /\ IsFiniteSet(ToSave) /\ Cardinality(ToSave) \in Nat
         /\ Cardinality(Docs) \in Nat
         /\ Cardinality(Docs \X (1..SatsInDoc)) = Cardinality(Docs) * SatsInDoc
         /\ IsFiniteSet(Docs \X (1..SatsInDoc))
<1>1. IsFiniteSet(Docs) /\ SatsInDoc \in Nat /\ SatsInDoc > 0
  BY StatAssumption
<1>2. IsFiniteSet(1..SatsInDoc) /\ Cardinality(1..SatsInDoc) = SatsInDoc
  BY <1>1, FS_Interval
<1>3. /\ IsFiniteSet(Docs \X (1..SatsInDoc))
      /\ Cardinality(Docs \X (1..SatsInDoc)) = Cardinality(Docs) * SatsInDoc
  BY <1>1, <1>2, FS_Product
<1>4. Senders \in SUBSET Docs /\ ToSave \in SUBSET (Docs \X (1..SatsInDoc))
  BY DEF Senders, ToSave
<1>5. IsFiniteSet(Senders) /\ IsFiniteSet(ToSave)
  BY <1>1, <1>3, <1>4, FS_Subset
<1>6. QED BY <1>1, <1>3, <1>5, FS_CardinalityType

LEMMA OffInitInv == StatInit => OffInv
<1> SUFFICES ASSUME StatInit PROVE OffInv
  OBVIOUS
<1>1. SatsInDoc \in Nat /\ SatsInDoc > 0 /\ ErrCap \in Nat
  BY StatAssumption
<1>2. OffShape
  <2>1. [at |-> "fetch", left |-> SatsInDoc] \in DocState
    BY <1>1 DEF DocState
  <2>2. doc \in [Docs -> DocState] /\ offAt \in {"off", "reading"}
    BY <2>1 DEF StatInit
  <2>3. 0 \in 0..ErrCap
    BY <1>1
  <2>4. QED BY <2>2, <2>3 DEF StatInit, OffShape
<1>3. NoErrorLost
  <2>1. Senders = {}
    BY DEF StatInit, Senders
  <2>2. QED BY <2>1, FS_EmptySet DEF StatInit, NoErrorLost
<1>4. OneErrorEach
  <2>1. ToSave = Docs \X (1..SatsInDoc)
    BY <1>1 DEF StatInit, ToSave
  <2>2. QED BY <1>2, <2>1, DocCounts DEF StatInit, OneErrorEach
<1>5. QED BY <1>1, <1>2, <1>3, <1>4 DEF StatInit, InTurn, OffInv

(* A goroutine goes on to another state; if it raises an error, it was     *)
(* about to save a satellite and no longer is.                             *)
LEMMA TellStep ==
  ASSUME OffInv, NEW k \in Docs, NEW state \in DocState, Tell(k, state), doc[k].at # "done",
         state.at # "fetch", state.at = "save" => state.left > 0,
         state.left <= doc[k].left, UNCHANGED <<offAt, errClosed, reported>>,
         \/ /\ state.at = "send" /\ doc[k].at # "send" /\ state.left < doc[k].left
            /\ raised' = raised + 1 /\ errChan' = errChan
         \/ /\ state.at # "send" /\ doc[k].at # "send" /\ UNCHANGED <<raised, errChan>>
         \/ /\ state.at # "send" /\ doc[k].at = "send"
            /\ raised' = raised /\ errChan' = errChan + 1 /\ errChan + 1 \in 0..ErrCap
  PROVE  OffInv'
<1>1. OffShape /\ doc' \in [Docs -> DocState] /\ doc'[k] = state /\ \A j \in Docs \ {k} : doc'[j] = doc[j]
  BY DEF OffInv, OffShape, Tell
<1>2. OffShape'
  BY <1>1 DEF OffShape
<1>3. ~errClosed /\ offAt # "done"
  BY DEF OffInv, InTurn, AllDone
<1>4. InTurn'
  BY <1>1, <1>3 DEF OffInv, InTurn
<1>5. state.left \in Nat /\ \A j \in Docs : doc[j].left \in 0..SatsInDoc
  BY <1>1, StatAssumption DEF OffShape, DocState
<1>6. NoErrorLost'
  <2>1. CASE state.at = "send" /\ doc[k].at # "send"
    <3>1. Senders' = Senders \cup {k} /\ k \notin Senders
      BY <1>1, <2>1 DEF Senders
    <3>2. Cardinality(Senders') = Cardinality(Senders) + 1
      BY <1>1, <3>1, DocCounts, FS_AddElement
    <3>3. QED BY <1>1, <2>1, <3>2, DocCounts DEF OffInv, NoErrorLost, OffShape
  <2>2. CASE state.at # "send" /\ doc[k].at # "send"
    <3>1. Senders' = Senders
      BY <1>1, <2>2 DEF Senders
    <3>2. QED BY <2>2, <3>1 DEF OffInv, NoErrorLost
  <2>3. CASE state.at # "send" /\ doc[k].at = "send"
    <3>1. Senders' = Senders \ {k} /\ k \in Senders
      BY <1>1, <2>3 DEF Senders
    <3>2. Cardinality(Senders') = Cardinality(Senders) - 1
      BY <1>1, <3>1, DocCounts, FS_RemoveElement
    <3>3. QED BY <1>1, <2>3, <3>2, DocCounts, StatAssumption DEF OffInv, NoErrorLost, OffShape
  <2>4. QED BY <2>1, <2>2, <2>3
<1>7. OneErrorEach'
  <2>1. ToSave' \in SUBSET ToSave
    <3>1. SUFFICES ASSUME NEW s \in ToSave' PROVE s \in ToSave
      OBVIOUS
    <3>2. s \in Docs \X (1..SatsInDoc) /\ s[2] <= doc'[s[1]].left /\ s[1] \in Docs /\ s[2] \in Nat
      BY <3>1 DEF ToSave
    <3>3. s[2] <= doc[s[1]].left
      BY <1>1, <1>5, <3>2
    <3>4. QED BY <3>2, <3>3 DEF ToSave
  <2>2. Cardinality(ToSave') <= Cardinality(ToSave) /\ Cardinality(ToSave') \in Nat
    BY <1>1, <2>1, DocCounts, FS_Subset, FS_CardinalityType
  <2>3. CASE raised' = raised
    <3>1. /\ Cardinality(ToSave) \in Nat /\ raised \in Nat /\ Cardinality(Docs) * SatsInDoc \in Nat
          /\ raised + Cardinality(ToSave) <= Cardinality(Docs) * SatsInDoc
      BY <1>1, DocCounts, StatAssumption DEF OffInv, OneErrorEach, OffShape
    <3>2. raised + Cardinality(ToSave') <= Cardinality(Docs) * SatsInDoc
      BY <2>2, <3>1
    <3>3. QED BY <2>3, <3>2 DEF OneErrorEach
  <2>4. CASE raised' = raised + 1 /\ state.left < doc[k].left
    <3> DEFINE s == <<k, doc[k].left>>
    <3>1. s \in ToSave
      BY <1>1, <1>5, <2>4 DEF ToSave
    <3>2. s \notin ToSave'
      BY <1>1, <1>5, <2>4 DEF ToSave
    <3>3. Cardinality(ToSave') # Cardinality(ToSave)
      BY <1>1, <2>1, <3>1, <3>2, DocCounts, FS_Subset
    <3>4. Cardinality(ToSave) \in Nat /\ raised \in Nat /\ Cardinality(Docs) * SatsInDoc \in Nat
          /\ raised + Cardinality(ToSave) <= Cardinality(Docs) * SatsInDoc
      BY <1>1, DocCounts, StatAssumption DEF OffInv, OneErrorEach, OffShape
    <3>5. raised' + Cardinality(ToSave') <= Cardinality(Docs) * SatsInDoc
      BY <2>2, <2>4, <3>3, <3>4
    <3>6. QED BY <3>5 DEF OneErrorEach
  <2>5. QED BY <2>3, <2>4
<1>8. QED BY <1>2, <1>4, <1>6, <1>7 DEF OffInv

LEMMA DocumentSteps ==
  ASSUME OffInv, NEW k \in Docs, GetJSON(k) \/ SaveSatDetails(k) \/ SendError(k)
  PROVE  OffInv'
<1>1. /\ doc[k] \in DocState /\ SatsInDoc \in Nat /\ SatsInDoc > 0 /\ doc[k].left \in 0..SatsInDoc
      /\ errChan \in 0..ErrCap /\ ErrCap \in Nat
      /\ doc[k].at = "fetch" => doc[k].left = SatsInDoc
      /\ doc[k].at = "save" => doc[k].left > 0
  BY StatAssumption DEF OffInv, OffShape, InTurn, DocState
<1>2. \A n \in 0..SatsInDoc :
             /\ [at |-> After(n), left |-> n] \in DocState
             /\ After(n) \in {"done", "save"} /\ (After(n) = "save" => n > 0)
             /\ [at |-> "send", left |-> n] \in DocState
  BY <1>1 DEF DocState, After
<1>3. CASE GetJSON(k)
  <2> DEFINE got == [at |-> After(SatsInDoc), left |-> SatsInDoc]
             failed == [at |-> "send", left |-> 0]
  <2>1. doc[k].at = "fetch" /\ doc[k].left = SatsInDoc /\ UNCHANGED <<offAt, errChan, errClosed, reported>>
    BY <1>1, <1>3 DEF GetJSON
  <2>2. [doc[k] EXCEPT !.at = After(SatsInDoc)] = got
    BY <1>1, <2>1 DEF DocState
  <2>3. \/ Tell(k, got) /\ UNCHANGED raised
        \/ Tell(k, failed) /\ raised' = raised + 1
    BY <1>3, <2>2 DEF GetJSON
  <2>4. got \in DocState /\ got.at \in {"done", "save"} /\ (got.at = "save" => got.left > 0) /\ got.left = SatsInDoc
    <3>1. SatsInDoc \in 0..SatsInDoc
      BY <1>1
    <3>2. QED BY <1>2, <3>1
  <2>5. failed \in DocState /\ failed.at = "send" /\ failed.left = 0
    <3>1. 0 \in 0..SatsInDoc
      BY <1>1
    <3>2. QED BY <1>2, <3>1
  <2> HIDE DEF got, failed
  <2>6. QED BY <1>1, <2>1, <2>3, <2>4, <2>5, TellStep
<1>4. CASE SaveSatDetails(k)
  <2> DEFINE n == doc[k].left - 1
             saved == [at |-> After(n), left |-> n]
             failed == [at |-> "send", left |-> n]
  <2>1. doc[k].at = "save" /\ UNCHANGED <<offAt, errChan, errClosed, reported>>
    BY <1>4 DEF SaveSatDetails
  <2>2. \/ Tell(k, saved) /\ UNCHANGED raised
        \/ Tell(k, failed) /\ raised' = raised + 1
    BY <1>4 DEF SaveSatDetails
  <2>3. n \in 0..SatsInDoc /\ n < doc[k].left
    BY <1>1, <2>1
  <2> HIDE DEF n
  <2>4. /\ saved \in DocState /\ saved.at \in {"done", "save"} /\ (saved.at = "save" => saved.left > 0)
        /\ saved.left = n /\ failed \in DocState /\ failed.at = "send" /\ failed.left = n
    BY <1>2, <2>3
  <2> HIDE DEF saved, failed
  <2>5. QED BY <1>1, <2>1, <2>2, <2>3, <2>4, TellStep
<1>5. CASE SendError(k)
  <2> DEFINE sent == [at |-> After(doc[k].left), left |-> doc[k].left]
  <2>1. /\ doc[k].at = "send" /\ errChan < ErrCap /\ errChan' = errChan + 1
        /\ UNCHANGED <<offAt, errClosed, raised, reported>>
    BY <1>5 DEF SendError, HasRoom
  <2>2. [doc[k] EXCEPT !.at = After(doc[k].left)] = sent
    BY <1>1 DEF DocState
  <2>3. Tell(k, sent)
    BY <1>5, <2>2 DEF SendError
  <2>4. sent \in DocState /\ sent.at \in {"done", "save"} /\ (sent.at = "save" => sent.left > 0)
        /\ sent.left = doc[k].left
    BY <1>1, <1>2
  <2> HIDE DEF sent
  <2>5. QED BY <1>1, <2>1, <2>3, <2>4, TellStep
<1>6. QED BY <1>3, <1>4, <1>5

LEMMA OffNextInv == OffInv /\ [StatNext]_statVars => OffInv'
<1> SUFFICES ASSUME OffInv, [StatNext]_statVars PROVE OffInv'
  OBVIOUS
<1>1. CASE StatDaily \/ UNCHANGED statVars
  <2>1. UNCHANGED offStatVars
    BY <1>1 DEF StatDaily, SaveDailyStats, StatNodesChange, MidnightUTC, offStatVars, statVars
  <2>2. QED
    BY <2>1 DEF offStatVars, OffInv, OffShape, NoErrorLost, OneErrorEach, InTurn, Senders, ToSave, AllDone
<1>2. CASE CloseErrors
  BY <1>2 DEF CloseErrors, OffInv, OffShape, NoErrorLost, OneErrorEach, InTurn, Senders, ToSave, AllDone
<1>3. CASE ReadError
  <2>1. OffShape /\ errChan > 0 /\ errChan' = errChan - 1 /\ reported' = reported + 1 /\ offAt = "reading"
        /\ UNCHANGED <<offAt, doc, errClosed, raised>>
    BY <1>3 DEF ReadError, Reading, OffInv
  <2>2. OffShape' /\ Senders' = Senders /\ ToSave' = ToSave
    BY <2>1, StatAssumption DEF OffShape, Senders, ToSave
  <2>3. QED
    BY <2>1, <2>2, DocCounts, StatAssumption DEF OffInv, OffShape, NoErrorLost, OneErrorEach, InTurn, AllDone
<1>4. CASE OffStatsEnd
  BY <1>4 DEF OffStatsEnd, Reading, OffInv, OffShape, NoErrorLost, OneErrorEach, InTurn, Senders, ToSave, AllDone
<1>5. QED
  BY <1>1, <1>2, <1>3, <1>4, DocumentSteps DEF StatNext, StatOff

(* The fetch of the documents ends only with every error reported          *)
(* (stats.go 352-412).                                                     *)
THEOREM AllReportedAlways == StatSpec => []AllReported
<1>1. OffInv => AllReported
  <2>1. SUFFICES ASSUME OffInv, offAt = "done" PROVE reported = raised
    BY DEF AllReported
  <2>2. errChan = 0 /\ Senders = {}
    BY <2>1 DEF OffInv, InTurn, AllDone, Senders
  <2>3. Cardinality(Senders) = 0
    BY <2>2, FS_EmptySet
  <2>4. reported \in Nat /\ reported + errChan + Cardinality(Senders) = raised
    BY <2>1 DEF OffInv, NoErrorLost, OffShape
  <2>5. QED BY <2>2, <2>3, <2>4
<1>2. QED BY OffInitInv, OffNextInv, <1>1, PTL DEF StatSpec

----------------------------------------------------------------------------
(* The pages of transfers (Transactions).  The inductive invariant: what   *)
(* Etherscan lists and the table has not is not before the block the next  *)
(* request starts at; between a request and the saving of its page this    *)
(* holds of what was listed at the request, and of what is listed since.   *)
Block(t) == Chain[t].block
NotBefore(S, T) == \A t \in S : Block(t) >= MaxBlock(T) - 1

StoredListed == stored \subseteq listed /\ listed \subseteq Transfers
NextReaches == NotBefore(listed \ stored, stored)
PageHeld ==
  run.at = "insert" =>
    /\ stored \subseteq run.asked /\ run.asked \subseteq listed
    /\ run.page = FirstPage({t \in run.asked : Block(t) >= StartBlock})
    /\ NotBefore(listed \ run.asked, run.asked)

PagesInv == StoredListed /\ NextReaches /\ PageHeld /\ NothingSkipped

(* The last block of some transfers.                                       *)
LEMMA LastBlock ==
  ASSUME NEW S \in SUBSET Transfers
  PROVE  /\ MaxBlock(S) \in Nat
         /\ \A t \in S : Block(t) \in Nat /\ Block(t) <= MaxBlock(S)
         /\ S # {} => \E t \in S : Block(t) = MaxBlock(S)
<1>1. \A t \in S : Block(t) \in Nat
  BY ChainType DEF Block
<1>2. CASE S = {}
  BY <1>2 DEF MaxBlock
<1>3. CASE S # {}
  <2> DEFINE B == {Chain[t].block : t \in S}
             f == [t \in S |-> Chain[t].block]
  <2>1. B \subseteq Nat /\ B # {}
    BY <1>1, <1>3 DEF Block
  <2>2. IsFiniteSet(B)
    <3>1. IsFiniteSet(1..Len(Chain)) /\ S \in SUBSET (1..Len(Chain))
      BY ChainType, FS_Interval
    <3>2. IsFiniteSet(S)
      BY <3>1, FS_Subset
    <3>3. f \in Surjection(S, B)
      BY DEF Surjection
    <3> HIDE DEF f, B
    <3>4. QED BY <3>2, <3>3, FS_Surjection
  <2> HIDE DEF B
  <2>3. \E x \in B : \A y \in B : y <= x
    BY <2>1, <2>2, HasGreatest
  <2>4. \E x \in B : \A y \in B : x >= y
    BY <2>1, <2>3
  <2>5. MaxBlock(S) = CHOOSE x \in B : \A y \in B : x >= y
    BY <1>3 DEF MaxBlock, Max, B
  <2>6. MaxBlock(S) \in B /\ \A y \in B : MaxBlock(S) >= y
    BY <2>4, <2>5
  <2>7. \A t \in S : Block(t) \in B
    BY DEF B, Block
  <2>8. \E t \in S : Block(t) = MaxBlock(S)
    BY <2>6 DEF B, Block
  <2>9. QED BY <1>1, <2>1, <2>6, <2>7, <2>8
<1>4. QED BY <1>2, <1>3

LEMMA LastBlockGrows ==
  ASSUME NEW T \in SUBSET Transfers, NEW S \in SUBSET T
  PROVE  MaxBlock(S) <= MaxBlock(T) /\ MaxBlock(S) \in Nat /\ MaxBlock(T) \in Nat
<1>1. S \in SUBSET Transfers
  OBVIOUS
<1> MaxBlock(S) \in Nat /\ MaxBlock(T) \in Nat
  BY <1>1, LastBlock
<1>2. CASE S = {}
  <2>1. MaxBlock(S) = 0
    BY <1>2 DEF MaxBlock
  <2>2. QED BY <2>1
<1>3. CASE S # {}
  <2>1. PICK t \in S : Block(t) = MaxBlock(S)
    BY <1>1, <1>3, LastBlock
  <2>2. t \in T /\ Block(t) <= MaxBlock(T)
    BY LastBlock
  <2>3. QED BY <2>1, <2>2
<1>4. QED BY <1>2, <1>3

(* A page is the beginning of what is asked for, and a full page if it is  *)
(* not all of it.                                                          *)
LEMMA PageIsBeginning ==
  ASSUME NEW W \in SUBSET Transfers
  PROVE  /\ FirstPage(W) \subseteq W
         /\ \A u \in FirstPage(W), t \in W \ FirstPage(W) : u < t
         /\ FirstPage(W) # W => Cardinality(FirstPage(W)) = Page
<1> DEFINE Before(t) == {u \in W : u < t}
<1>1. Page \in Nat /\ Page > 0 /\ IsFiniteSet(W) /\ W \subseteq Nat
  <2>1. IsFiniteSet(1..Len(Chain)) /\ W \in SUBSET (1..Len(Chain))
    BY ChainType, FS_Interval
  <2>2. IsFiniteSet(W)
    BY <2>1, FS_Subset
  <2>3. QED BY <2>1, <2>2, ChainType
<1>2. \A t \in W : /\ Before(t) \in SUBSET W /\ IsFiniteSet(Before(t)) /\ Cardinality(Before(t)) \in Nat
                   /\ t \in FirstPage(W) <=> Cardinality(Before(t)) < Page
  <2>1. SUFFICES ASSUME NEW t \in W
                 PROVE  /\ Before(t) \in SUBSET W /\ IsFiniteSet(Before(t)) /\ Cardinality(Before(t)) \in Nat
                        /\ t \in FirstPage(W) <=> Cardinality(Before(t)) < Page
    OBVIOUS
  <2>2. Before(t) \in SUBSET W
    OBVIOUS
  <2>3. t \in FirstPage(W) <=> Cardinality(Before(t)) < Page
    BY DEF FirstPage
  <2> HIDE DEF Before
  <2>4. QED BY <1>1, <2>2, <2>3, FS_Subset, FS_CardinalityType
<1>3. FirstPage(W) \subseteq W
  BY DEF FirstPage
<1>4. ASSUME NEW u \in FirstPage(W), NEW t \in W \ FirstPage(W) PROVE u < t
  <2>0. t \in W /\ u \in W /\ t \in Nat /\ u \in Nat
    <3>1. t \in W /\ u \in W
      BY <1>3
    <3>2. QED BY <1>1, <3>1
  <2>1. SUFFICES ASSUME t <= u PROVE FALSE
    BY <2>0
  <2>2. Before(t) \subseteq Before(u)
    <3>1. SUFFICES ASSUME NEW x \in W, x < t PROVE x < u
      OBVIOUS
    <3>2. x \in Nat
      BY <1>1
    <3> HIDE DEF Before
    <3>3. QED BY <2>0, <2>1, <3>1, <3>2
  <2>3. Cardinality(Before(t)) <= Cardinality(Before(u))
    <3>1. IsFiniteSet(Before(u)) /\ Before(t) \in SUBSET Before(u)
      BY <1>2, <2>0, <2>2
    <3> HIDE DEF Before
    <3>2. QED BY <3>1, FS_Subset
  <2> HIDE DEF Before
  <2>4. Cardinality(Before(u)) < Page /\ ~(Cardinality(Before(t)) < Page)
        /\ Cardinality(Before(u)) \in Nat /\ Cardinality(Before(t)) \in Nat
    BY <1>2, <2>0
  <2>5. QED BY <1>1, <2>3, <2>4
<1>5. ASSUME FirstPage(W) # W PROVE Cardinality(FirstPage(W)) = Page
  <2>1. W \ FirstPage(W) # {} /\ W \ FirstPage(W) \in SUBSET Nat
    BY <1>1, <1>3, <1>5
  <2>2. PICK t \in W \ FirstPage(W) : \A s \in W \ FirstPage(W) : t <= s
    BY <2>1, HasLeast
  <2>3. Before(t) = FirstPage(W)
    <3>1. ASSUME NEW u \in W, u < t PROVE u \in FirstPage(W)
      BY <1>1, <2>2, <3>1
    <3>2. QED BY <1>3, <1>4, <3>1
  <2>4. Cardinality(FirstPage(W)) \in Nat /\ Cardinality(FirstPage(W)) >= Page /\ IsFiniteSet(FirstPage(W))
    <3> HIDE DEF Before
    <3> QED BY <1>1, <1>2, <2>3
  <2>5. FirstPage(W) # {} /\ FirstPage(W) \in SUBSET Nat
    <3>1. FirstPage(W) # {}
      BY <1>1, <2>4, FS_EmptySet
    <3>2. \A x \in FirstPage(W) : x \in Nat
      BY <1>1, <1>3
    <3>3. QED BY <3>1, <3>2
  <2>6. PICK g \in FirstPage(W) : \A s \in FirstPage(W) : s <= g
    BY <2>4, <2>5, HasGreatest
  <2>7. FirstPage(W) \ {g} \subseteq Before(g)
    <3>1. SUFFICES ASSUME NEW x \in FirstPage(W), x # g PROVE x \in W /\ x < g
      OBVIOUS
    <3>2. x \in W /\ x \in Nat /\ g \in Nat /\ x <= g
      BY <2>5, <2>6, <1>3
    <3>3. QED BY <3>1, <3>2
  <2>8. Cardinality(FirstPage(W) \ {g}) <= Cardinality(Before(g)) /\ Cardinality(Before(g)) < Page
        /\ Cardinality(Before(g)) \in Nat
    <3> HIDE DEF Before
    <3> QED BY <1>2, <1>3, <2>7, FS_Subset
  <2>9. Cardinality(FirstPage(W) \ {g}) = Cardinality(FirstPage(W)) - 1
    BY <2>4, FS_RemoveElement
  <2> HIDE DEF Before
  <2>10. QED BY <1>1, <2>4, <2>8, <2>9
<1>6. QED BY <1>3, <1>4, <1>5

LEMMA TxInitInv == TxInit => PagesInv
BY DEF TxInit, PagesInv, StoredListed, NextReaches, NotBefore, PageHeld, NothingSkipped, Idle

LEMMA ListInv ==
  ASSUME PagesInv, NEW t \in Transfers, List(t)
  PROVE  PagesInv'
<1>1. /\ t \notin listed /\ Block(t) >= MaxBlock(listed) - 1
      /\ listed' = listed \cup {t} /\ UNCHANGED <<stored, run>>
  BY DEF List, Block
<1>2. Block(t) \in Nat
  BY ChainType DEF Block
<1>3. StoredListed' /\ stored \in SUBSET listed /\ listed \in SUBSET Transfers
  BY <1>1 DEF PagesInv, StoredListed
<1>4. ASSUME NEW S \in SUBSET listed, NotBefore(listed \ S, S) PROVE NotBefore(listed' \ S, S)
  <2>1. MaxBlock(S) <= MaxBlock(listed) /\ MaxBlock(S) \in Nat /\ MaxBlock(listed) \in Nat
    BY <1>3, LastBlockGrows
  <2>2. Block(t) >= MaxBlock(S) - 1
    BY <1>1, <1>2, <2>1
  <2>3. QED BY <1>1, <1>4, <2>2 DEF NotBefore
<1>5. NextReaches'
  BY <1>1, <1>3, <1>4 DEF PagesInv, NextReaches, NotBefore
<1>6. PageHeld'
  <2>1. SUFFICES ASSUME run.at = "insert" PROVE PageHeld'
    BY <1>1 DEF PageHeld
  <2>2. run.asked \in SUBSET listed /\ NotBefore(listed \ run.asked, run.asked)
    BY <2>1 DEF PagesInv, PageHeld
  <2>3. NotBefore(listed' \ run.asked, run.asked)
    BY <1>4, <2>2
  <2>4. StartBlock' = StartBlock
    BY <1>1 DEF StartBlock, MaxBlock
  <2>5. QED BY <1>1, <2>1, <2>3, <2>4 DEF PagesInv, PageHeld, NotBefore, FirstPage
<1>7. QED BY <1>1, <1>3, <1>5, <1>6 DEF PagesInv, NothingSkipped

LEMMA RequestInv ==
  ASSUME PagesInv, RequestPage
  PROVE  PagesInv'
<1> DEFINE W == {t \in listed : Block(t) >= StartBlock}
<1>1. run' = Fetched(FirstPage(W)) /\ UNCHANGED <<listed, stored>>
  BY DEF RequestPage, Block
<1>2. NothingSkipped' /\ PageHeld'
  <2>1. CASE run' = Idle
    BY <2>1 DEF Idle, NothingSkipped, PageHeld
  <2>2. CASE run' = [at |-> "insert", page |-> FirstPage(W), asked |-> listed]
    <3>1. run'.at = "insert" /\ run'.page = FirstPage(W) /\ run'.asked = listed
      BY <2>2
    <3>2. StartBlock' = StartBlock
      BY <1>1 DEF StartBlock, MaxBlock
    <3>3. QED BY <1>1, <3>1, <3>2 DEF NothingSkipped, PageHeld, PagesInv, StoredListed, NotBefore, FirstPage, Block
  <2>3. QED BY <1>1, <2>1, <2>2 DEF Fetched
<1>3. QED BY <1>1, <1>2 DEF PagesInv, StoredListed, NextReaches, NotBefore

(* Saving a page: what is cut off is not before what it ends with; and an  *)
(* incomplete page had all that was asked for.                             *)
LEMMA InsertPageInv ==
  ASSUME PagesInv, InsertPage
  PROVE  PagesInv'
<1> DEFINE W == {t \in run.asked : Block(t) >= StartBlock}
           page == FirstPage(W)
           label == IF Cardinality(page) = Page THEN "request" ELSE "start"
<1>1. /\ run.at = "insert" /\ run.page = page /\ stored \subseteq run.asked /\ run.asked \subseteq listed
      /\ NotBefore(listed \ run.asked, run.asked)
      /\ stored' = stored \cup page /\ listed' = listed
      /\ run' = [at |-> label, asked |-> run.asked]
  <2>1. run.at = "insert"
    BY DEF InsertPage
  <2>2. run.page = page /\ stored \subseteq run.asked /\ run.asked \subseteq listed
        /\ NotBefore(listed \ run.asked, run.asked)
    BY <2>1 DEF PagesInv, PageHeld
  <2> HIDE DEF page
  <2>3. QED BY <2>1, <2>2 DEF InsertPage
<1>2. run'.at = label /\ run'.asked = run.asked /\ label \in {"request", "start"}
  BY <1>1
<1>3. run.asked \in SUBSET Transfers /\ W \in SUBSET Transfers /\ listed \in SUBSET Transfers
  BY <1>1 DEF PagesInv, StoredListed
<1>4. /\ page \subseteq W /\ \A u \in page, t \in W \ page : u < t
      /\ page # W => Cardinality(page) = Page
  <2> HIDE DEF W
  <2> QED BY <1>3, PageIsBeginning
<1>5. \A t \in run.asked \ stored : t \in W
  BY <1>1 DEF PagesInv, NextReaches, NotBefore, StartBlock
<1>6. W \subseteq run.asked
  OBVIOUS
<1> HIDE DEF W, page, label
<1>7. stored' \in SUBSET run.asked
  BY <1>1, <1>4, <1>6
<1>8. StoredListed'
  BY <1>1, <1>7 DEF PagesInv, StoredListed
<1>9. NextReaches'
  <2>1. SUFFICES ASSUME NEW t \in listed \ stored' PROVE Block(t) >= MaxBlock(stored') - 1
    BY <1>1 DEF NextReaches, NotBefore
  <2>2. Block(t) \in Nat /\ t \in Transfers
    BY <1>3, <2>1, ChainType DEF Block
  <2>3. CASE t \notin run.asked
    <3>1. Block(t) >= MaxBlock(run.asked) - 1
      BY <1>1, <2>1, <2>3 DEF NotBefore
    <3>2. QED BY <1>3, <1>7, <2>2, <3>1, LastBlockGrows
  <2>4. CASE t \in run.asked
    <3>1. t \in W \ page /\ t \notin stored
      BY <1>1, <1>5, <2>1, <2>4
    <3>2. \A u \in page : Block(u) <= Block(t)
      BY <1>3, <1>4, <2>2, <3>1, ChainAssumption DEF Block
    <3>3. \A u \in stored : Block(u) <= MaxBlock(stored) /\ Block(u) \in Nat
      <4>1. stored \in SUBSET Transfers
        BY DEF PagesInv, StoredListed
      <4>2. QED BY <4>1, LastBlock
    <3>4. Block(t) >= MaxBlock(stored) - 1
      BY <2>1, <3>1 DEF PagesInv, NextReaches, NotBefore
    <3>5. stored' \in SUBSET Transfers /\ stored \in SUBSET Transfers
      BY <1>3, <1>7 DEF PagesInv, StoredListed
    <3>6. MaxBlock(stored') \in Nat /\ MaxBlock(stored) \in Nat
      BY <3>5, LastBlock
    <3>7. CASE stored' = {}
      BY <2>2, <3>7 DEF MaxBlock
    <3>8. CASE stored' # {}
      <4>1. PICK u \in stored' : Block(u) = MaxBlock(stored')
        BY <3>5, <3>8, LastBlock
      <4>2. CASE u \in page
        BY <2>2, <3>2, <3>6, <4>1, <4>2
      <4>3. CASE u \in stored
        BY <2>2, <3>3, <3>4, <3>6, <4>1, <4>3
      <4>4. QED BY <1>1, <4>2, <4>3
    <3>9. QED BY <3>7, <3>8
  <2>5. QED BY <2>3, <2>4
<1>10. NothingSkipped'
  <2>1. SUFFICES ASSUME label = "start" PROVE run.asked \subseteq stored'
    BY <1>2 DEF NothingSkipped
  <2>2. page = W
    BY <1>4, <2>1 DEF label
  <2>3. QED BY <1>1, <1>5, <2>2
<1>11. PageHeld'
  BY <1>2 DEF PageHeld
<1>12. QED BY <1>8, <1>9, <1>10, <1>11 DEF PagesInv

LEMMA TxNextInv == PagesInv /\ [TxNext]_txVars => PagesInv'
<1> SUFFICES ASSUME PagesInv, [TxNext]_txVars PROVE PagesInv'
  OBVIOUS
<1>1. ASSUME UNCHANGED <<listed, stored>>, run'.at \notin {"insert", "start"} PROVE PagesInv'
  BY <1>1 DEF PagesInv, StoredListed, NextReaches, NotBefore, PageHeld, NothingSkipped
<1>2. ASSUME UNCHANGED <<listed, stored, run>> PROVE PagesInv'
  <2>1. StartBlock' = StartBlock
    BY <1>2 DEF StartBlock, MaxBlock
  <2>2. QED
    BY <1>2, <2>1 DEF PagesInv, StoredListed, NextReaches, NotBefore, PageHeld, NothingSkipped, FirstPage, Block
<1>3. CASE TxTick \/ UNCHANGED txVars
  BY <1>2, <1>3 DEF TxTick, txVars
<1>4. CASE StartRun
  BY <1>1, <1>4 DEF StartRun
<1>5. CASE ChooseStart
  <2>1. run'.at = "sum" /\ UNCHANGED <<listed, stored>>
    BY <1>5 DEF ChooseStart
  <2>2. QED BY <1>1, <2>1
<1>6. CASE UpdateDay
  <2>1. UNCHANGED <<listed, stored>> /\ run.at = "sum" /\ run' = [run EXCEPT !.date = run.date + 1]
    BY <1>6 DEF UpdateDay
  <2>2. run'.at = "sum"
    BY <2>1
  <2>3. QED BY <1>1, <2>1, <2>2
<1>7. CASE EndRun \/ RunFails
  BY <1>1, <1>7 DEF EndRun, RunFails, Idle
<1>8. QED
  BY <1>3, <1>4, <1>5, <1>6, <1>7, ListInv, RequestInv, InsertPageInv DEF TxNext, RunStep, FetchStep

(* Once a run has stopped asking for pages, everything listed when the     *)
(* last one was asked for is in the table (transactions.go 35-134).        *)
THEOREM NothingSkippedAlways == TxSpec => []NothingSkipped
<1>1. PagesInv => NothingSkipped
  BY DEF PagesInv
<1>2. QED BY TxInitInv, TxNextInv, <1>1, PTL DEF TxSpec

-----------------------------------------------------------------------------
(* What a day's payouts add up to (Transactions).                          *)
Values == [t \in Transfers |-> Chain[t].value]

LEMMA TransfersType ==
  /\ IsFiniteSet(Transfers) /\ Transfers \in SUBSET Nat
  /\ DayLen \in Nat \ {0} /\ DayHours \in Nat \ {0} /\ HourLen \in Nat \ {0}
  /\ \A t \in Transfers : Chain[t].at \in Nat /\ Values[t] \in Nat
<1>1. IsFiniteSet(1..Len(Chain)) /\ Transfers = 1..Len(Chain)
  BY ChainType, FS_Interval
<1>2. \A t \in Transfers : Values[t] = Chain[t].value
  BY DEF Values
<1>3. DayLen \in Nat \ {0}
  BY ChainType DEF DayLen
<1> QED BY <1>1, <1>2, <1>3, ChainType

(* A transfer is of a day, and of an hour of it.                           *)
LEMMA DayAndHour ==
  ASSUME NEW t \in Transfers
  PROVE  DayOf(t) \in Nat /\ HourOf(t) \in 0..(DayHours - 1)
<1> DEFINE a == Chain[t].at
           n == DayLen
<1>1. a \in Nat /\ n \in Nat \ {0} /\ n = DayHours * HourLen
  BY TransfersType DEF DayLen
<1> HIDE DEF a, n
<1>2. a \div n \in Nat
  BY <1>1
<1>3. a % n \in Nat /\ a % n < n
  BY <1>1
<1>4. (a % n) \div HourLen \in 0..(DayHours - 1)
  BY <1>1, <1>3, TransfersType, QuotientBound
<1> QED BY <1>2, <1>4 DEF DayOf, HourOf, a, n

LEMMA SumOfIs ==
  ASSUME NEW T \in SUBSET Transfers
  PROVE  SumOf(T) = SumBy(Values, T)
<1> DEFINE ch(s) == CHOOSE x \in s : TRUE
           Adds(h) == h = [s \in SUBSET T |-> IF s = {} THEN 0
                                              ELSE Chain[ch(s)].value + h[s \ {ch(s)}]]
           g == CHOOSE h : Adds(h)
<1>1. IsFiniteSet(T)
  BY TransfersType, FS_Subset
<1>2. \A s \in SUBSET T : s # {} => Values[ch(s)] = Chain[ch(s)].value
  <2> SUFFICES ASSUME NEW s \in SUBSET T, s # {} PROVE Values[ch(s)] = Chain[ch(s)].value
    OBVIOUS
  <2>1. ch(s) \in s
    BY ChosenElement
  <2> QED BY <2>1 DEF Values
<1>3. \A h : Adds(h) <=> SumsUp(Values, T, h)
  BY <1>2 DEF SumsUp
<1>4. SumOf(T) = g[T]
  BY DEF SumOf, MapThenSumSet, MapThenFoldSet, Value
<1>5. \E h : Adds(h)
  <2> HIDE DEF Adds
  <2> QED BY <1>1, <1>3, SumsUpExists
<1>6. SumsUp(Values, T, g)
  <2> HIDE DEF Adds
  <2> QED BY <1>3, <1>5
<1> HIDE DEF g
<1> QED BY <1>1, <1>4, <1>6, SumByIs

(* The payouts of a day that count: of equal ones in an hour the first.    *)
Counted(S, d) ==
  {t \in Payouts(S, d) : ~\E u \in S : /\ DayOf(u) = d /\ HourOf(u) = HourOf(t)
                                       /\ u < t /\ SameRow(t, u)}

(* What a day's row has of each hour's payouts.                            *)
LEMMA DayRow ==
  ASSUME NEW S, NEW d
  PROVE  /\ DOMAIN DaySummary(S, d) = 0..(DayHours - 1)
         /\ \A h \in 0..(DayHours - 1) :
              DaySummary(S, d)[h].payouts = SumOf({t \in HourRows(S, d, h) : IsPayout(t)})
BY DEF DaySummary

LEMMA DayAddsUp ==
  ASSUME NEW S \in SUBSET Transfers, NEW d \in DOMAIN summary, summary[d] = DaySummary(S, d)
  PROVE  DayPayouts(d) = SumBy(Values, Counted(S, d))
<1> DEFINE K == 0..(DayHours - 1)
           rows(h) == {t \in HourRows(S, d, h) : IsPayout(t)}
           paid == [h \in K |-> summary[d][h].payouts]
           ch(s) == CHOOSE x \in s : TRUE
           Adds(f) == f = [s \in SUBSET K |-> IF s = {} THEN 0
                                              ELSE summary[d][ch(s)].payouts + f[s \ {ch(s)}]]
           g == CHOOSE f : Adds(f)
<1>1. IsFiniteSet(K)
  <2>1. DayHours - 1 \in Int /\ 0 \in Int
    BY TransfersType
  <2> QED BY ONLY <2>1, FS_Interval
<1>2. DOMAIN summary[d] = K /\ \A h \in K : summary[d][h].payouts = SumOf(rows(h))
  <2> HIDE DEF paid, ch, Adds, g
  <2>1. DOMAIN summary[d] = K
    BY DayRow
  <2>2. \A h \in K : summary[d][h].payouts = SumOf(rows(h))
    BY DayRow
  <2> QED BY <2>1, <2>2
<1>3. \A s \in SUBSET K : s # {} => paid[ch(s)] = summary[d][ch(s)].payouts
  <2> SUFFICES ASSUME NEW s \in SUBSET K, s # {} PROVE paid[ch(s)] = summary[d][ch(s)].payouts
    OBVIOUS
  <2>1. ch(s) \in s
    BY ChosenElement
  <2>2. ch(s) \in K
    BY <2>1
  <2> HIDE DEF K, ch
  <2> QED BY <2>2
<1>4. DayPayouts(d) = g[K]
  BY <1>2 DEF DayPayouts, MapThenSumSet, MapThenFoldSet
<1>5. DayPayouts(d) = SumBy(paid, K)
  <2> HIDE DEF K, paid
  <2>1. \A f : Adds(f) <=> SumsUp(paid, K, f)
    BY <1>3 DEF SumsUp
  <2>2. \E f : Adds(f)
    <3> HIDE DEF Adds
    <3> QED BY <1>1, <2>1, SumsUpExists
  <2>3. SumsUp(paid, K, g)
    <3> HIDE DEF Adds
    <3> QED BY <2>1, <2>2
  <2> HIDE DEF g
  <2> QED BY <1>1, <1>4, <2>3, SumByIs
<1> DEFINE f == [t \in Transfers |-> HourOf(t)]
           of == [h \in K |-> rows(h)]
           C == Counted(S, d)
<1>6. \A h \in K : \A x : x \in of[h] <=> x \in C /\ f[x] = h
  <2> SUFFICES ASSUME NEW h \in K, NEW x PROVE x \in rows(h) <=> x \in C /\ f[x] = h
    OBVIOUS
  <2>1. CASE x \in S
    <3>1. x \in Transfers
      BY <2>1
    <3>2. f[x] = HourOf(x)
      BY <3>1
    <3> QED BY <2>1, <3>2 DEF HourRows, Counted, Payouts
  <2>2. CASE x \notin S
    BY <2>2 DEF HourRows, Counted, Payouts
  <2> QED BY <2>1, <2>2
<1>7. \A h \in K : paid[h] = SumBy(Values, of[h])
  <2> SUFFICES ASSUME NEW h \in K PROVE paid[h] = SumBy(Values, of[h])
    OBVIOUS
  <2>1. rows(h) \in SUBSET Transfers
    BY DEF HourRows
  <2>2. paid[h] = SumOf(rows(h)) /\ of[h] = rows(h)
    BY <1>2
  <2> HIDE DEF rows, paid, of
  <2> QED BY <2>1, <2>2, SumOfIs
<1>8. C \in SUBSET Transfers /\ IsFiniteSet(C) /\ (\A x \in C : Values[x] \in Int /\ f[x] \in K)
  <2>1. C \in SUBSET Transfers
    BY DEF Counted, Payouts
  <2>2. IsFiniteSet(C)
    BY <2>1, TransfersType, FS_Subset
  <2>3. \A x \in C : f[x] = HourOf(x) /\ HourOf(x) \in K
    BY <2>1, DayAndHour
  <2> HIDE DEF C, f, K
  <2>4. \A x \in C : Values[x] \in Int
    BY <2>1, TransfersType
  <2> QED BY <2>1, <2>2, <2>3, <2>4
<1> HIDE DEF K, of, C, f, paid
<1>9. SumBy(paid, K) = SumBy(Values, C)
  BY <1>1, <1>6, <1>7, <1>8, SumOfGroups
<1> QED BY <1>5, <1>9 DEF C

(* The inductive invariant: each summed day is the summary of some of what *)
(* is stored - of all that was when the next day was first summed, if that *)
(* was, and of all that is while the run comes from this day.              *)
SumsShape ==
  /\ DOMAIN counted = DOMAIN summary /\ DOMAIN summary \subseteq Nat
  /\ IsFiniteSet(DOMAIN summary) /\ summary = [d \in DOMAIN summary |-> summary[d]]
  /\ \A e \in DOMAIN counted : counted[e] \subseteq stored
RunShape ==
  /\ run.at = "insert" => run.page # {}
  /\ run.at = "start" => stored # {}
  /\ run.at = "sum" => \E d \in Nat : run = [at |-> "sum", date |-> d]
SummedOver(d, S) ==
  /\ S \subseteq stored /\ summary[d] = DaySummary(S, d)
  /\ d + 1 \in DOMAIN summary => counted[d + 1] \subseteq S
  /\ d + 1 \notin DOMAIN summary /\ run.at = "sum" => (run.date = d + 1 => S = stored)
DaysSummed == \A d \in DOMAIN summary : \E S : SummedOver(d, S)

SumsInv == StoredListed /\ NothingSkipped /\ SumsShape /\ RunShape /\ DaysSummed

(* A summary depends on the transfers it is of and on the day only.        *)
LEMMA SummaryIsOfRows == \A S, d : DaySummary(S, d)' = DaySummary(S, d)
BY DEF DaySummary, HourRows, SameRow, IsPreparing, IsPayout, Value, SumOf, Withdrawals,
       WalletTransfers, Limit, DayOf, HourOf, DayLen, MapThenSumSet, MapThenFoldSet, Transfers

(* It says what is to be shown.                                            *)
LEMMA SumsInvImplies == SumsInv => PayoutsAddUp
<1> SUFFICES ASSUME SumsInv, NEW d \in DOMAIN summary
             PROVE  /\ DayPayouts(d) <= SumOf(Payouts(stored, d))
                    /\ (/\ ~\E t, u \in Payouts(stored, d) : /\ t # u /\ HourOf(t) = HourOf(u)
                                                             /\ SameRow(t, u)
                        /\ IF d + 1 \in DOMAIN summary
                           THEN Payouts(stored, d) \subseteq counted[d + 1]
                           ELSE run.at = "sum" /\ run.date = d + 1)
                       => DayPayouts(d) = SumOf(Payouts(stored, d))
  BY DEF PayoutsAddUp
<1>1. PICK S : SummedOver(d, S)
  BY DEF SumsInv, DaysSummed
<1>2. stored \in SUBSET Transfers /\ S \in SUBSET Transfers /\ S \subseteq stored
  BY <1>1 DEF SumsInv, StoredListed, SummedOver
<1> DEFINE P == Payouts(stored, d)
           C == Counted(S, d)
<1>3. P \in SUBSET Transfers /\ C \in SUBSET P
  BY <1>2 DEF Payouts, Counted
<1>4. DayPayouts(d) = SumBy(Values, C)
  BY <1>1, <1>2, DayAddsUp DEF SummedOver
<1>5. SumOf(P) = SumBy(Values, P)
  BY <1>3, SumOfIs
<1>6. SumBy(Values, C) <= SumBy(Values, P)
  <2>1. IsFiniteSet(P) /\ \A t \in P : Values[t] \in Nat
    BY <1>3, TransfersType, FS_Subset
  <2> HIDE DEF P, C
  <2> QED BY <1>3, <2>1, SumOfPart
<1>7. ASSUME ~\E t, u \in P : t # u /\ HourOf(t) = HourOf(u) /\ SameRow(t, u),
             IF d + 1 \in DOMAIN summary THEN P \subseteq counted[d + 1]
             ELSE run.at = "sum" /\ run.date = d + 1
      PROVE  C = P
  <2>1. P \subseteq S
    BY <1>1, <1>7 DEF SummedOver, Payouts
  <2>2. ASSUME NEW t \in P, NEW u \in S, DayOf(u) = d, HourOf(u) = HourOf(t), u < t, SameRow(t, u)
        PROVE  FALSE
    <3>1. u \in P
      BY <1>2, <2>2 DEF Payouts, IsPayout, SameRow
    <3>2. u # t
      <4>1. u \in Nat /\ t \in Nat
        BY <1>3, <3>1, TransfersType
      <4> QED BY <2>2, <4>1
    <3> QED BY <1>7, <2>2, <3>1, <3>2
  <2>3. \A t \in P : t \in C
    BY <2>1, <2>2 DEF Counted, Payouts
  <2> QED BY <1>3, <2>3
<1> QED BY <1>4, <1>5, <1>6, <1>7

LEMMA SumsInitInv == TxInit => SumsInv
<1> SUFFICES ASSUME TxInit PROVE SumsInv
  OBVIOUS
<1>1. DOMAIN summary = {} /\ DOMAIN counted = {}
  BY EmptySeq DEF TxInit
<1>2. IsFiniteSet({}) /\ summary = [d \in DOMAIN summary |-> summary[d]]
  BY FS_EmptySet DEF TxInit
<1> QED
  BY <1>1, <1>2 DEF TxInit, SumsInv, StoredListed, NothingSkipped, SumsShape, RunShape, DaysSummed, Idle

(* The first day of a run is one that has a summary, if any has.           *)
LEMMA StartIsADay ==
  ASSUME SumsInv, run.at = "start"
  PROVE  /\ StartDate \in Nat
         /\ DOMAIN summary # {} => StartDate \in DOMAIN summary
<1> DEFINE D == DOMAIN summary
           B == {DayOf(t) : t \in stored}
<1>1. D \in SUBSET Nat /\ IsFiniteSet(D) /\ stored # {} /\ stored \in SUBSET Transfers
  BY DEF SumsInv, SumsShape, RunShape, StoredListed
<1>2. CASE D # {}
  <2>1. summary # <<>>
    BY <1>2, EmptySeq
  <2>2. StartDate = CHOOSE x \in D : \A y \in D : x >= y
    BY <2>1 DEF StartDate, Max
  <2>3. \E x \in D : \A y \in D : y <= x
    <3> HIDE DEF D
    <3> QED BY <1>1, <1>2, HasGreatest
  <2>4. \E x \in D : \A y \in D : x >= y
    BY <1>1, <2>3
  <2>5. StartDate \in D
    <3> HIDE DEF D
    <3> QED BY <2>2, <2>4
  <2> QED BY <1>1, <2>5
<1>3. CASE D = {}
  <2>1. summary = <<>>
    BY <1>3 DEF SumsInv, SumsShape
  <2>2. StartDate = CHOOSE x \in B : \A y \in B : x <= y
    BY <2>1 DEF StartDate, Min
  <2>3. B \in SUBSET Nat /\ B # {}
    BY <1>1, DayAndHour
  <2>4. StartDate \in B
    <3> HIDE DEF B
    <3>1. \E x \in B : \A y \in B : x <= y
      BY <2>3, HasLeast
    <3> QED BY <2>2, <3>1
  <2> QED BY <1>3, <2>3, <2>4
<1> QED BY <1>2, <1>3

(* Summing up a day: it is the summary of all that is stored, and so was   *)
(* the day before if this day has no summary yet.                          *)
LEMMA UpdateDayInv ==
  ASSUME SumsInv, UpdateDay
  PROVE  SumsInv'
<1> DEFINE e == run.date
           v == DaySummary(stored, e)
<1>1. PICK n \in Nat : run = [at |-> "sum", date |-> n]
  BY DEF UpdateDay, SumsInv, RunShape
<1>2. /\ e = n /\ e \in Nat /\ run.at = "sum"
      /\ summary' = WithDay(summary, e, v)
      /\ counted' = IF e \in DOMAIN counted THEN counted ELSE WithDay(counted, e, stored)
      /\ UNCHANGED <<listed, stored>>
  BY <1>1 DEF UpdateDay
<1>3. run' = [at |-> "sum", date |-> n + 1] /\ n + 1 \in Nat
  BY <1>1 DEF UpdateDay
<1>4. run'.at = "sum" /\ run'.date = n + 1
  BY <1>3
<1> HIDE DEF v
<1>5. /\ DOMAIN summary' = DOMAIN summary \cup {e}
      /\ summary'[e] = v /\ \A d \in DOMAIN summary : d # e => summary'[d] = summary[d]
      /\ summary' = [d \in DOMAIN summary' |-> summary'[d]]
  BY <1>2 DEF WithDay
<1>6. /\ DOMAIN counted' = DOMAIN counted \cup {e}
      /\ \A d \in DOMAIN counted : counted'[d] = counted[d]
      /\ e \notin DOMAIN counted => counted'[e] = stored
  BY <1>2 DEF WithDay
<1>7. SumsShape'
  <2>1. IsFiniteSet(DOMAIN summary \cup {e})
    BY FS_AddElement DEF SumsInv, SumsShape
  <2> HIDE DEF e
  <2> QED BY <1>2, <1>5, <1>6, <2>1 DEF SumsInv, SumsShape
<1>8. RunShape'
  BY <1>3, <1>4 DEF RunShape
<1>9. NothingSkipped' /\ StoredListed'
  BY <1>2, <1>4 DEF NothingSkipped, SumsInv, StoredListed
<1>10. ASSUME NEW d \in DOMAIN summary' PROVE \E S : SummedOver(d, S)'
  <2>0. d \in Nat /\ d # d + 1
    BY <1>2, <1>5 DEF SumsInv, SumsShape
  <2>1. CASE d = e
    <3>1. d + 1 # e
      BY <2>0, <2>1
    <3>2. d + 1 \in DOMAIN summary' => counted'[d + 1] \subseteq stored
      BY <1>5, <1>6, <3>1 DEF SumsInv, SumsShape
    <3>3. summary'[d] = DaySummary(stored, d)
      BY <1>5, <2>1 DEF v
    <3>4. SummedOver(d, stored)'
      BY <1>2, <3>2, <3>3, SummaryIsOfRows DEF SummedOver
    <3> QED BY <3>4
  <2>2. CASE d # e
    <3>1. d \in DOMAIN summary /\ summary'[d] = summary[d]
      BY <1>5, <2>2
    <3>2. PICK S : SummedOver(d, S)
      BY <3>1 DEF SumsInv, DaysSummed
    <3>3. S \subseteq stored' /\ summary'[d] = DaySummary(S, d)
      BY <1>2, <3>1, <3>2 DEF SummedOver
    <3>4. ASSUME d + 1 \in DOMAIN summary' PROVE counted'[d + 1] \subseteq S
      <4>1. CASE d + 1 \in DOMAIN summary
        <5>1. counted'[d + 1] = counted[d + 1]
          BY <1>6, <4>1 DEF SumsInv, SumsShape
        <5> QED BY <3>2, <4>1, <5>1 DEF SummedOver
      <4>2. CASE d + 1 \notin DOMAIN summary
        <5>1. d + 1 = e
          BY <1>5, <3>4, <4>2
        <5>2. S = stored
          BY <1>2, <3>2, <4>2, <5>1 DEF SummedOver
        <5>3. counted'[d + 1] = stored
          BY <1>6, <4>2, <5>1 DEF SumsInv, SumsShape
        <5> QED BY <5>2, <5>3
      <4> QED BY <4>1, <4>2
    <3>5. run'.date # d + 1
      BY <1>2, <1>4, <2>0, <2>2
    <3>6. SummedOver(d, S)'
      BY <3>3, <3>4, <3>5, SummaryIsOfRows DEF SummedOver
    <3> QED BY <3>6
  <2> QED BY <2>1, <2>2
<1>11. DaysSummed'
  BY <1>10 DEF DaysSummed
<1> QED BY <1>7, <1>8, <1>9, <1>11 DEF SumsInv

LEMMA ChooseStartInv ==
  ASSUME SumsInv, ChooseStart
  PROVE  SumsInv'
<1>1. PICK date \in {StartDate} \cup DOMAIN summary : run' = [at |-> "sum", date |-> date]
  BY DEF ChooseStart
<1>2. UNCHANGED <<listed, stored, summary, counted>> /\ run'.at = "sum" /\ run'.date = date
  BY <1>1 DEF ChooseStart
<1>3. date \in Nat /\ (DOMAIN summary # {} => date \in DOMAIN summary)
  <2>1. StartDate \in Nat /\ (DOMAIN summary # {} => StartDate \in DOMAIN summary)
    BY StartIsADay DEF ChooseStart
  <2> QED BY <1>1, <2>1 DEF SumsInv, SumsShape
<1>4. ASSUME NEW d \in DOMAIN summary PROVE \E S : SummedOver(d, S)'
  <2>1. PICK S : SummedOver(d, S)
    BY DEF SumsInv, DaysSummed
  <2>2. SummedOver(d, S)'
    BY <1>2, <1>3, <2>1, SummaryIsOfRows
       DEF SummedOver
  <2> QED BY <2>2
<1>5. DaysSummed'
  BY <1>2, <1>4 DEF DaysSummed
<1>6. RunShape'
  BY <1>1, <1>2, <1>3 DEF RunShape
<1> QED BY <1>2, <1>5, <1>6 DEF SumsInv, StoredListed, NothingSkipped, SumsShape

(* No other step writes the summaries.                                     *)
LEMMA OtherStepsInv ==
  ASSUME SumsInv, UNCHANGED <<summary, counted>>, stored \subseteq stored',
         stored' = stored \/ run'.at # "sum",
         run'.at = "sum" => run' = run,
         StoredListed', NothingSkipped', RunShape'
  PROVE  SumsInv'
<1>1. SumsShape'
  BY DEF SumsInv, SumsShape
<1>2. ASSUME NEW d \in DOMAIN summary PROVE \E S : SummedOver(d, S)'
  <2>1. PICK S : SummedOver(d, S)
    BY DEF SumsInv, DaysSummed
  <2>2. SummedOver(d, S)'
    BY <2>1, SummaryIsOfRows
       DEF SummedOver
  <2> QED BY <2>2
<1>3. DaysSummed'
  BY <1>2 DEF DaysSummed
<1> QED BY <1>1, <1>3 DEF SumsInv

LEMMA SumsNextInv == SumsInv /\ PagesInv /\ PagesInv' /\ [TxNext]_txVars => SumsInv'
<1> SUFFICES ASSUME SumsInv, PagesInv, PagesInv', [TxNext]_txVars PROVE SumsInv'
  OBVIOUS
<1>0. StoredListed' /\ NothingSkipped'
  BY DEF PagesInv
<1>1. ASSUME UNCHANGED <<stored, summary, counted, run>> PROVE SumsInv'
  <2>1. RunShape'
    BY <1>1 DEF SumsInv, RunShape
  <2> QED BY <1>0, <1>1, <2>1, OtherStepsInv
<1>2. ASSUME UNCHANGED <<stored, summary, counted>>, run'.at \notin {"start", "sum"},
             run'.at = "insert" => run'.page # {}
      PROVE  SumsInv'
  <2>1. RunShape'
    BY <1>2 DEF RunShape
  <2> QED BY <1>0, <1>2, <2>1, OtherStepsInv
<1>3. CASE TxTick \/ (\E t \in Transfers : List(t)) \/ UNCHANGED txVars
  BY <1>1, <1>3 DEF TxTick, List, txVars
<1>4. CASE StartRun \/ EndRun \/ RunFails
  <2>1. UNCHANGED <<stored, summary, counted>> /\ run'.at \in {"idle", "request"}
    BY <1>4 DEF StartRun, EndRun, RunFails, Idle
  <2> QED BY <1>2, <2>1
<1>5. CASE RequestPage
  <2> DEFINE page == FirstPage({t \in listed : Chain[t].block >= StartBlock})
  <2>1. run' = Fetched(page) /\ UNCHANGED <<stored, summary, counted>>
    BY <1>5 DEF RequestPage
  <2> HIDE DEF page
  <2>2. run'.at \notin {"start", "sum"} /\ (run'.at = "insert" => run'.page # {})
    <3>1. CASE page = {}
      BY <2>1, <3>1 DEF Fetched, Idle
    <3>2. CASE page # {}
      <4>1. run' = [at |-> "insert", page |-> page, asked |-> listed]
        BY <2>1, <3>2 DEF Fetched
      <4> QED BY <3>2, <4>1
    <3> QED BY <3>1, <3>2
  <2> QED BY <1>2, <2>1, <2>2
<1>6. CASE InsertPage
  <2> DEFINE at == IF Cardinality(run.page) = Page THEN "request" ELSE "start"
  <2>1. /\ run.at = "insert" /\ stored' = stored \cup run.page /\ UNCHANGED <<summary, counted>>
        /\ run' = [at |-> at, asked |-> run.asked]
    BY <1>6 DEF InsertPage
  <2>2. run'.at = at /\ at \in {"request", "start"}
    BY <2>1
  <2> HIDE DEF at
  <2>3. stored' # {}
    BY <2>1 DEF SumsInv, RunShape
  <2>4. RunShape'
    BY <2>2, <2>3 DEF RunShape
  <2>5. stored \subseteq stored' /\ run'.at # "sum"
    BY <2>1, <2>2
  <2> QED BY <1>0, <2>1, <2>4, <2>5, OtherStepsInv
<1> QED
  BY <1>3, <1>4, <1>5, <1>6, UpdateDayInv, ChooseStartInv DEF TxNext, RunStep, FetchStep

(* The payouts of a day are never overstated, and all there once a run has *)
(* passed the day and nothing came after that (transactions.go 159-334).   *)
THEOREM PayoutsAddUpAlways == TxSpec => []PayoutsAddUp
<1>1. PagesInv /\ SumsInv /\ [TxNext]_txVars => PagesInv' /\ SumsInv'
  BY TxNextInv, SumsNextInv
<1>2. QED BY TxInitInv, SumsInitInv, SumsInvImplies, <1>1, PTL DEF TxSpec

----------------------------------------------------------------------------
(* What the prober writes down (NodeProbes).  The inductive invariant: a   *)
(* node in flight was checked just now, so that it is not loaded again, is *)
(* in flight once, and has one reply, of a transport that worked.          *)
Stamps == [any : Nat, tcp : Nat, quic : Nat]
Reply == [node : Probed, tcpErr : BOOLEAN, quicErr : BOOLEAN]

ProbesShape ==
  /\ checkedBefore \subseteq Probed \X Probed
  /\ checkedAge \in [Probed -> {"null", "old", "new"}]
  /\ offerAge \in [Probed -> {"old", "recent"}]
  /\ replyAge \in [Probed -> {"null", "old", "recent"}]
  /\ updated \in [Probed -> Stamps]
  /\ probing \subseteq Probed
  /\ replies \subseteq Reply
  /\ probeSaves \in Nat

InFlightIsNew ==
  /\ \A n \in probing : checkedAge[n] = "new" /\ \A r \in replies : r.node # n
  /\ \A r \in replies : checkedAge[r.node] = "new"
OneReply == \A r, s \in replies : r.node = s.node => r = s
SomeTransport == \A r \in replies : ~(r.tcpErr /\ r.quicErr)
SavedBefore == \A n \in Probed : updated[n].tcp <= probeSaves /\ updated[n].quic <= probeSaves

ProbesInv ==
  /\ ProbesShape /\ InFlightIsNew /\ OneReply /\ SomeTransport /\ SavedBefore
  /\ ReplyHasTransport

LEMMA ProbesInitInv == ProbesInit => ProbesInv
<1> SUFFICES ASSUME ProbesInit PROVE ProbesInv
  OBVIOUS
<1>1. updated \in [Probed -> Stamps]
  BY DEF ProbesInit, Stamps
<1>2. QED
  BY <1>1 DEF ProbesInit, ProbesInv, ProbesShape, InFlightIsNew, OneReply, SomeTransport, SavedBefore,
              ReplyHasTransport

LEMMA LoadInv ==
  ASSUME ProbesInv, LoadOldNodes
  PROVE  ProbesInv'
<1>1. PICK S \in FirstDue :
        /\ checkedBefore' = {pair \in checkedBefore : pair[1] \notin S /\ pair[2] \notin S}
                              \cup (Probed \ S) \X S
        /\ checkedAge' = [n \in Probed |-> IF n \in S THEN "new" ELSE checkedAge[n]]
        /\ probing' = probing \cup S
  BY DEF LoadOldNodes
<1>2. UNCHANGED <<offerAge, replyAge, updated, replies, probeSaves>>
  BY DEF LoadOldNodes
<1>3. S \subseteq Probed /\ \A n \in S : checkedAge[n] # "new"
  BY DEF FirstDue, DueNodes, Due
<1>4. checkedBefore' \subseteq Probed \X Probed
  BY <1>1, <1>3 DEF ProbesInv, ProbesShape
<1>5. ProbesShape'
  BY <1>1, <1>2, <1>3, <1>4 DEF ProbesInv, ProbesShape
<1>6. \A r \in replies : r.node \in Probed /\ r.node \notin S
  BY <1>3 DEF ProbesInv, ProbesShape, InFlightIsNew, Reply
<1>7. InFlightIsNew'
  BY <1>1, <1>2, <1>3, <1>6 DEF ProbesInv, ProbesShape, InFlightIsNew
<1>8. QED
  BY <1>2, <1>5, <1>7 DEF ProbesInv, OneReply, SomeTransport, SavedBefore, ReplyHasTransport

LEMMA ProbeInv ==
  ASSUME ProbesInv, ProbeNode
  PROVE  ProbesInv'
<1>1. PICK n \in probing : \E tcpErr, quicErr \in BOOLEAN :
        /\ replies' = IF Reached(tcpErr, quicErr)
                      THEN replies \cup {[node |-> n, tcpErr |-> tcpErr, quicErr |-> quicErr]}
                      ELSE replies
        /\ probing' = probing \ {n}
  BY DEF ProbeNode
<1>2. PICK tcpErr \in BOOLEAN, quicErr \in BOOLEAN :
        /\ replies' = IF Reached(tcpErr, quicErr)
                      THEN replies \cup {[node |-> n, tcpErr |-> tcpErr, quicErr |-> quicErr]}
                      ELSE replies
        /\ probing' = probing \ {n}
  BY <1>1
<1> DEFINE new == [node |-> n, tcpErr |-> tcpErr, quicErr |-> quicErr]
<1>3. UNCHANGED <<checkedBefore, checkedAge, offerAge, replyAge, updated, probeSaves>>
  BY DEF ProbeNode
<1>4. n \in Probed /\ new \in Reply /\ new.node = n /\ new.tcpErr = tcpErr /\ new.quicErr = quicErr
  BY DEF ProbesInv, ProbesShape, Reply
<1>5. replies' \subseteq replies \cup {new} /\ (new \in replies' => new \in replies \/ ~(tcpErr /\ quicErr))
  BY <1>2 DEF Reached
<1> HIDE DEF new
<1>6. ProbesShape'
  BY <1>2, <1>3, <1>4, <1>5 DEF ProbesInv, ProbesShape
<1>7. InFlightIsNew' /\ OneReply' /\ SomeTransport'
  BY <1>2, <1>3, <1>4, <1>5 DEF ProbesInv, InFlightIsNew, OneReply, SomeTransport
<1>8. QED
  BY <1>3, <1>6, <1>7 DEF ProbesInv, SavedBefore, ReplyHasTransport

LEMMA SaveInv ==
  ASSUME ProbesInv, SavePinged
  PROVE  ProbesInv'
<1> DEFINE now == probeSaves + 1
           Of(n) == {r \in replies : r.node = n}
           Kept(old, failed) == IF failed THEN old ELSE now
           stamps(n) == [any  |-> now,
                         tcp  |-> Kept(updated[n].tcp, \E r \in Of(n) : r.tcpErr),
                         quic |-> Kept(updated[n].quic, \E r \in Of(n) : r.quicErr)]
<1>1. /\ updated' = [n \in Probed |-> IF Of(n) = {} THEN updated[n] ELSE stamps(n)]
      /\ replyAge' = [n \in Probed |-> IF Of(n) = {} THEN replyAge[n] ELSE "recent"]
      /\ replies' = {} /\ probeSaves' = now
      /\ UNCHANGED <<checkedBefore, checkedAge, offerAge, probing>>
  BY DEF SavePinged
<1>2. now \in Nat /\ probeSaves \in Nat /\ probeSaves < now
  BY DEF ProbesInv, ProbesShape
<1>3. ASSUME NEW n \in Probed
      PROVE  /\ updated[n] \in Stamps /\ updated[n].tcp \in Nat /\ updated[n].quic \in Nat
             /\ updated[n].tcp < now /\ updated[n].quic < now
  BY <1>2 DEF ProbesInv, ProbesShape, Stamps, SavedBefore
<1>4. ASSUME NEW n \in Probed
      PROVE  /\ stamps(n) \in Stamps /\ stamps(n).any = now
             /\ stamps(n).tcp = Kept(updated[n].tcp, \E r \in Of(n) : r.tcpErr)
             /\ stamps(n).quic = Kept(updated[n].quic, \E r \in Of(n) : r.quicErr)
  BY <1>2, <1>3 DEF Stamps
<1>5. ASSUME NEW n \in Probed, Of(n) # {}
      PROVE  stamps(n).tcp = now \/ stamps(n).quic = now
  <2>1. PICK r \in replies : r.node = n
    BY <1>5
  <2>2. \A s \in Of(n) : s = r
    BY <2>1 DEF ProbesInv, OneReply
  <2>3. ~r.tcpErr \/ ~r.quicErr
    BY DEF ProbesInv, SomeTransport
  <2> HIDE DEF stamps, Of
  <2>4. QED BY <1>4, <2>2, <2>3
<1>6. ASSUME NEW n \in Probed PROVE stamps(n).tcp \in Nat /\ stamps(n).quic \in Nat /\ stamps(n).tcp <= now /\ stamps(n).quic <= now
  <2> HIDE DEF stamps, Of
  <2>1. QED BY <1>2, <1>3, <1>4
<1> HIDE DEF stamps, Of, now
<1>7. ProbesShape'
  <2>1. updated' \in [Probed -> Stamps]
    BY <1>1, <1>3, <1>4
  <2>2. QED BY <1>1, <1>2, <2>1 DEF ProbesInv, ProbesShape
<1>8. InFlightIsNew' /\ OneReply' /\ SomeTransport'
  BY <1>1 DEF ProbesInv, InFlightIsNew, OneReply, SomeTransport
<1>9. SavedBefore'
  <2>1. SUFFICES ASSUME NEW n \in Probed PROVE updated'[n].tcp <= now /\ updated'[n].quic <= now
    BY <1>1 DEF SavedBefore
  <2>2. updated[n].tcp <= now /\ updated[n].quic <= now
    BY <1>2, <1>3
  <2>3. QED BY <1>1, <1>6, <2>2
<1>10. ReplyHasTransport'
  <2>1. SUFFICES ASSUME NEW n \in Probed
                 PROVE  updated'[n].any = IF updated'[n].tcp > updated'[n].quic
                                          THEN updated'[n].tcp ELSE updated'[n].quic
    BY DEF ReplyHasTransport
  <2>2. CASE Of(n) = {}
    BY <1>1, <2>2 DEF ProbesInv, ReplyHasTransport
  <2>3. CASE Of(n) # {}
    <3>1. updated'[n] = stamps(n)
      BY <1>1, <2>3
    <3>2. QED BY <1>2, <1>4, <1>5, <1>6, <2>3, <3>1
  <2>4. QED BY <2>2, <2>3
<1>11. QED BY <1>7, <1>8, <1>9, <1>10 DEF ProbesInv

LEMMA ProbesNextInv == ProbesInv /\ [ProbesNext]_probeVars => ProbesInv'
<1> SUFFICES ASSUME ProbesInv, [ProbesNext]_probeVars PROVE ProbesInv'
  OBVIOUS
<1>1. CASE ProberCrash
  BY <1>1 DEF ProberCrash, ProbesInv, ProbesShape, InFlightIsNew, OneReply, SomeTransport, SavedBefore,
              ReplyHasTransport
<1>2. CASE NodeOffered
  BY <1>2 DEF NodeOffered, ProbesInv, ProbesShape, InFlightIsNew, OneReply, SomeTransport, SavedBefore,
              ReplyHasTransport
<1>3. CASE WeekPasses
  BY <1>3 DEF WeekPasses, ProbesInv, ProbesShape, InFlightIsNew, OneReply, SomeTransport, SavedBefore,
              ReplyHasTransport
<1>4. ASSUME NEW n \in Probed, CheckAges(n) PROVE ProbesInv'
  <2>1. /\ checkedAge' = [checkedAge EXCEPT ![n] = "old"] /\ n \notin probing /\ \A r \in replies : r.node # n
        /\ UNCHANGED <<checkedBefore, offerAge, replyAge, updated, probing, replies, probeSaves>>
    BY <1>4 DEF CheckAges
  <2>2. ProbesShape' /\ InFlightIsNew'
    BY <2>1 DEF ProbesInv, ProbesShape, InFlightIsNew, Reply
  <2>3. QED BY <2>1, <2>2 DEF ProbesInv, OneReply, SomeTransport, SavedBefore, ReplyHasTransport
<1>5. CASE UNCHANGED probeVars
  BY <1>5 DEF probeVars, ProbesInv, ProbesShape, InFlightIsNew, OneReply, SomeTransport, SavedBefore,
              ReplyHasTransport
<1>6. QED
  BY <1>1, <1>2, <1>3, <1>4, <1>5, LoadInv, ProbeInv, SaveInv DEF ProbesNext

(* A row's updated_at is the later of its two transports' (prober.go       *)
(* 145-158, 202-207).                                                      *)
THEOREM ReplyHasTransportAlways == ProbesSpec => []ReplyHasTransport
<1>1. ProbesInv => ReplyHasTransport
  BY DEF ProbesInv
<1>2. QED BY ProbesInitInv, ProbesNextInv, <1>1, PTL DEF ProbesSpec

-----------------------------------------------------------------------------
(* The archives (Partitions): periods of any length, any number of days,   *)
(* saves and failed transactions.                                          *)

(* The inductive invariant.                                                *)

Rows == [Dates -> Nat]
Copying == mover.at \in {"locked", "copied"}

PartShape ==
  /\ clock \in Nat
  /\ current \in Rows /\ truth \in Rows
  /\ archives \in Seq([start : Int, end : Int, rows : Rows])
  /\ \/ mover = Resting
     \/ mover \in [at : {"renamed", "locked"},
                   to : [start : Int, attached : BOOLEAN], end : Int]
     \/ mover \in [at : {"copied"}, to : [start : Int, attached : BOOLEAN],
                   end : Int, rows : Rows]
  /\ pingSaver = Resting \/ pingSaver \in [at : {"routed"}, date : Dates]

(* The saver is late by a day at most, and out while the mover copies.      *)
SaverInTime ==
  pingSaver # Resting => pingSaver.date >= Today - 1 /\ ~Copying

(* Archives are in order and none crosses the end of its period.            *)
Ordered ==
  /\ \A i \in DOMAIN archives :
       /\ archives[i].start < archives[i].end
       /\ archives[i].end <= MaxEndDate(archives[i])
       /\ archives[i].start <= Today - 1
  /\ \A i, j \in DOMAIN archives : i < j => archives[i].end <= archives[j].start
  /\ \A i \in DOMAIN archives :
       i + 1 \in DOMAIN archives => /\ IsFull(archives[i])
                                    /\ archives[i].end = archives[i + 1].start

(* There is no day between the first and the last one that none covers.    *)
NoGap ==
  archives # <<>> =>
    \A d \in Int : archives[1].start <= d /\ d < archives[Len(archives)].end
                     => Archive(d) # {}

(* Rows that no archive covers are later than all of them.                 *)
Later ==
  archives # <<>> =>
    \A d \in Dates : current[d] > 0 => d >= archives[Len(archives)].end

Placed ==
  \A d \in Dates :
    /\ current[d] = IF Archive(d) = {} THEN truth[d] ELSE 0
    /\ \A i \in DOMAIN archives :
         archives[i].rows[d] = IF Covers(archives[i], d) THEN truth[d] ELSE 0

(* What the mover made up its mind about still fits the archives.          *)
Fits ==
  mover # Resting =>
    LET last == archives[Len(archives)]
    IN  /\ mover.to.start < mover.end
        /\ mover.end <= MaxEndDate(mover.to)
        /\ mover.to.start <= Today - 1
        /\ IF mover.to.attached
             THEN /\ archives # <<>>
                  /\ mover.to.start = last.start /\ last.end < mover.end
             ELSE IF archives = <<>>
               THEN \A d \in Dates : current[d] > 0 => d >= mover.to.start
               ELSE IsFull(last) /\ mover.to.start = last.end

CopyIsExact ==
  mover.at = "copied" =>
    mover.rows = [d \in Dates |-> IF InRange(d) THEN current[d] ELSE 0]

PartInv == /\ PartShape /\ SaverInTime /\ Ordered /\ NoGap
           /\ Later /\ Placed /\ Fits /\ CopyIsExact

-----------------------------------------------------------------------------
(* A day lies in its period.                                               *)
LEMMA Period ==
  ASSUME NEW d \in Int
  PROVE  /\ TruncMonthDown(d) \in Int
         /\ TruncMonthDown(d) <= d
         /\ d < TruncMonthDown(d) + Months
<1> Months \in Int /\ Months > 0
  BY PartitionsAssumption
<1>1. d \div Months \in Int
  OBVIOUS
<1>2. d = Months * (d \div Months) + (d % Months) /\ d % Months \in 0..(Months - 1)
  OBVIOUS
<1> QED BY <1>1, <1>2 DEF TruncMonthDown

LEMMA ArchiveShape ==
  ASSUME PartShape
  PROVE  /\ Len(archives) \in Nat /\ DOMAIN archives = 1..Len(archives)
         /\ \A i \in DOMAIN archives :
              /\ i \in Int /\ archives[i] \in [start : Int, end : Int, rows : Rows]
              /\ archives[i].start \in Int /\ archives[i].end \in Int
              /\ archives[i].rows \in Rows
         /\ archives # <<>> => 1 \in DOMAIN archives /\ Len(archives) \in DOMAIN archives
<1>1. archives \in Seq([start : Int, end : Int, rows : Rows])
  BY DEF PartShape
<1>2. ASSUME NEW i \in DOMAIN archives
      PROVE  i \in Int /\ archives[i] \in [start : Int, end : Int, rows : Rows]
  <2> DEFINE A == [start : Int, end : Int, rows : Rows]
  <2>1. archives \in Seq(A)
    BY <1>1
  <2> HIDE DEF A
  <2>2. i \in Int /\ archives[i] \in A
    BY <2>1
  <2> QED BY <2>2 DEF A
<1> QED BY <1>1, <1>2

LEMMA HasLeastDay ==
  ASSUME NEW S \in SUBSET Nat, S # {}
  PROVE  Min(S) \in S /\ \A m \in S : Min(S) <= m
<1>1. PICK n \in S : \A m \in S : <<m, n>> \notin OpToRel(<, Nat)
  BY NatLessThanWellFounded, WFMin
<1>2. ASSUME NEW m \in S PROVE n <= m
  <2>1. ~(m < n) BY <1>1, <1>2 DEF OpToRel
  <2>2. QED BY <2>1
<1>3. QED BY <1>2 DEF Min

LEMMA PartInitInv == PartInit => PartInv
<1> SUFFICES ASSUME PartInit PROVE PartInv
  OBVIOUS
<1> USE DEF PartInit, Resting
<1>1. PartShape
  BY DEF PartShape, Rows, NoRows
<1>2. \A d : Archive(d) = {}
  BY DEF Archive
<1>3. SaverInTime /\ Ordered /\ NoGap /\ Later /\ Fits /\ CopyIsExact
  BY DEF SaverInTime, Ordered, NoGap, Later, Fits, CopyIsExact
<1>4. Placed
  <2>1. DOMAIN archives = {} /\ \A d \in Dates : current[d] = 0 /\ truth[d] = 0
    BY DEF NoRows
  <2>2. QED BY <1>2, <2>1 DEF Placed
<1> QED BY <1>1, <1>3, <1>4 DEF PartInv

(* A day has at most one archive, and the rows are there.                  *)
LEMMA OneArchive ==
  ASSUME PartShape, Ordered, NEW d \in Int, NEW i \in Archive(d)
  PROVE  Archive(d) = {i}
<1> SUFFICES ASSUME NEW j \in Archive(d), j # i PROVE FALSE
  OBVIOUS
<1>1. /\ i \in DOMAIN archives /\ archives[i].start <= d /\ d < archives[i].end
      /\ j \in DOMAIN archives /\ archives[j].start <= d /\ d < archives[j].end
  BY DEF Archive, Covers
<1>2. /\ i \in Int /\ archives[i].start \in Int /\ archives[i].end \in Int
      /\ j \in Int /\ archives[j].start \in Int /\ archives[j].end \in Int
  BY <1>1, ArchiveShape
<1>3. archives[i].end <= archives[j].start \/ archives[j].end <= archives[i].start
  BY <1>1, <1>2 DEF Ordered
<1> QED BY <1>1, <1>2, <1>3

LEMMA PartInvSuffices == PartInv => PartitionsTile
<1> SUFFICES ASSUME PartInv PROVE PartitionsTile
  OBVIOUS
<1> USE DEF PartInv
<1>1. ArchivesTile
  BY DEF ArchivesTile, Ordered, PartShape
<1>2. ASSUME NEW d \in Dates
      PROVE  /\ Archive(d) # {} => current[d] = 0
             /\ \A i \in DOMAIN archives \ Archive(d) : archives[i].rows[d] = 0
             /\ truth[d] = IF Archive(d) = {} THEN current[d]
                           ELSE archives[CHOOSE i \in Archive(d) : TRUE].rows[d]
  <2>1. \A i \in DOMAIN archives : i \in Archive(d) <=> Covers(archives[i], d)
    BY DEF Archive
  <2>2. CASE Archive(d) = {}
    BY <2>1, <2>2 DEF Placed
  <2>3. CASE Archive(d) # {}
    <3> DEFINE i == CHOOSE i \in Archive(d) : TRUE
    <3>1. i \in Archive(d)
      BY <2>3
    <3>2. i \in DOMAIN archives /\ Covers(archives[i], d)
      BY <3>1 DEF Archive
    <3> HIDE DEF i
    <3>3. archives[i].rows[d] = truth[d]
      BY <3>2 DEF Placed
    <3>4. QED BY <2>1, <2>3, <3>3 DEF Placed, i
  <2>4. QED BY <2>2, <2>3
<1>3. RowsInOnePlace
  BY <1>2 DEF RowsInOnePlace
<1> QED BY <1>1, <1>3 DEF PartitionsTile

-----------------------------------------------------------------------------
(* One lemma per action, or per group of actions alike.                    *)

(* Only the clock goes on.                                                  *)
LEMMA TickStep == PartInv /\ PartTick => PartInv'
<1> SUFFICES ASSUME PartInv, PartTick PROVE PartInv'
  OBVIOUS
<1> USE DEF PartInv, PartTick
<1>1. clock \in Nat /\ clock' = clock + 1 /\ Today \in Int /\ Today' \in Int /\ Today <= Today'
  BY DEF PartShape, Today
<1>2. UNCHANGED <<current, archives, mover, pingSaver, truth>>
  OBVIOUS
<1>3. PartShape'
  BY <1>1, <1>2 DEF PartShape
<1>4. SaverInTime'
  <2>1. pingSaver # Resting => pingSaver.date \in Int /\ Today' <= pingSaver.date + 1
    BY DEF PartShape, Today, Dates
  <2>2. QED BY <1>1, <1>2, <2>1 DEF SaverInTime, Copying
<1>5. Ordered'
  <2>1. ASSUME NEW i \in DOMAIN archives PROVE archives[i].start <= Today' - 1
    <3>1. archives[i].start \in Int /\ archives[i].start <= Today - 1
      BY ArchiveShape DEF Ordered
    <3>2. QED BY <1>1, <3>1
  <2> HIDE DEF PartTick
  <2>2. QED BY <1>2, <2>1 DEF Ordered, IsFull, MaxEndDate
<1>6. Fits'
  <2>1. mover # Resting => mover.to.start \in Int
    BY DEF PartShape
  <2>2. QED BY <1>1, <1>2, <2>1 DEF Fits, IsFull, MaxEndDate
<1>7. (NoGap /\ Later /\ Placed /\ CopyIsExact)'
  BY <1>2 DEF NoGap, Later, Placed, CopyIsExact, Archive, Covers, InRange
<1> QED BY <1>3, <1>4, <1>5, <1>6, <1>7

(* Only the saver's transaction begins or fails.                            *)
LEMMA SaverStep ==
  ASSUME PartInv, UNCHANGED <<clock, current, archives, mover, truth>>,
         \/ pingSaver' = Resting
         \/ /\ ~Copying
            /\ \E d \in Dates : d >= Today - 1
                                /\ pingSaver' = [at |-> "routed", date |-> d]
  PROVE  PartInv'
<1> USE DEF PartInv
<1>1. PartShape'
  BY DEF PartShape
<1>2. SaverInTime'
  BY DEF SaverInTime, Copying, Today
<1>3. (Ordered /\ NoGap /\ Later /\ Placed /\ Fits /\ CopyIsExact)'
  BY DEF Ordered, NoGap, Later, Placed, Fits, CopyIsExact, Archive, Covers,
         InRange, IsFull, MaxEndDate, Today
<1> QED BY <1>1, <1>2, <1>3

LEMMA BeginStep == ASSUME PartInv, NEW d \in Dates, BeginPings(d) PROVE PartInv'
<1>1. clock \in Nat /\ d >= Today - 1
  BY DEF PartInv, PartShape, BeginPings, Today, Dates
<1>2. ~Copying
  BY DEF BeginPings, MoverHolds, Copying
<1> QED BY <1>1, <1>2, SaverStep DEF BeginPings

LEMMA SaverAbortStep == PartInv /\ SaverAborts => PartInv'
BY SaverStep DEF SaverAborts

(* A query of the site changes no table.                                    *)
LEMMA ReaderStep == PartInv /\ (BeginRead \/ EndRead \/ ReaderAborts) => PartInv'
<1> SUFFICES ASSUME PartInv, BeginRead \/ EndRead \/ ReaderAborts PROVE PartInv'
  OBVIOUS
<1>1. UNCHANGED <<clock, current, archives, mover, pingSaver, truth>>
  BY DEF BeginRead, EndRead, ReaderAborts
<1> QED
  BY <1>1 DEF PartInv, PartShape, SaverInTime, Copying, Ordered, NoGap, Later, Placed, Fits, CopyIsExact,
              Archive, Covers, InRange, IsFull, MaxEndDate, Today

(* Only the mover's transaction fails.                                      *)
LEMMA MoverAbortStep == PartInv /\ MoverAborts => PartInv'
<1> SUFFICES ASSUME PartInv, MoverAborts PROVE PartInv'
  OBVIOUS
<1> USE DEF PartInv
<1>1. /\ mover' = Resting
      /\ UNCHANGED <<clock, current, archives, pingSaver, truth>>
  BY DEF MoverAborts
<1>2. PartShape'
  BY <1>1 DEF PartShape
<1>3. (SaverInTime /\ Fits /\ CopyIsExact)'
  BY <1>1 DEF SaverInTime, Fits, CopyIsExact, Copying, Resting, Today
<1>4. (Ordered /\ NoGap /\ Later /\ Placed)'
  BY <1>1 DEF Ordered, NoGap, Later, Placed, Archive, Covers, IsFull, MaxEndDate, Today
<1> QED BY <1>2, <1>3, <1>4

(* The save goes to the archive of its day, or, if there is none, is later *)
(* than all archives and than the one that is being made.                  *)
LEMMA CommitStep == PartInv /\ CommitPings => PartInv'
<1> SUFFICES ASSUME PartInv, CommitPings PROVE PartInv'
  OBVIOUS
<1> USE DEF PartInv
<1> DEFINE d == pingSaver.date
<1>1. /\ pingSaver # Resting /\ d \in Dates /\ d \in Int /\ d >= Today - 1 /\ ~Copying
      /\ Today \in Int
  BY DEF CommitPings, PartShape, SaverInTime, Resting, Dates, Today
<1>2. /\ UNCHANGED <<clock, mover>> /\ pingSaver' = Resting
      /\ truth' = [truth EXCEPT ![d] = @ + 1]
  BY DEF CommitPings
<1> HIDE DEF d
<1>3. mover # Resting => mover.at = "renamed"
  BY <1>1 DEF PartShape, Copying
<1>4. (SaverInTime /\ CopyIsExact)'
  BY <1>2, <1>3 DEF SaverInTime, CopyIsExact, Resting
<1>5. truth' \in Rows /\ truth'[d] = truth[d] + 1
      /\ \A e \in Dates : e # d => truth'[e] = truth[e]
  BY <1>1, <1>2 DEF PartShape, Rows
<1>6. CASE Archive(d) = {}
  <2>1. /\ UNCHANGED archives /\ current' = [current EXCEPT ![d] = @ + 1]
    BY <1>6 DEF CommitPings, d
  <2>2. current' \in Rows /\ current'[d] = current[d] + 1
        /\ \A e \in Dates : e # d => current'[e] = current[e]
    BY <1>1, <2>1 DEF PartShape, Rows
  <2>3. PartShape'
    BY <1>2, <1>5, <2>1, <2>2 DEF PartShape
  <2>4. (Ordered /\ NoGap)'
    BY <1>2, <2>1 DEF Ordered, NoGap, Archive, Covers, IsFull, MaxEndDate, Today
  <2>5. archives # <<>> => d >= archives[Len(archives)].end
    <3> SUFFICES ASSUME archives # <<>> PROVE d >= archives[Len(archives)].end
      OBVIOUS
    <3>1. 1 \in DOMAIN archives
          /\ archives[1].start \in Int /\ archives[Len(archives)].end \in Int
      BY ArchiveShape
    <3>2. archives[1].start <= d
      <4>1. archives[1].start <= Today - 1
        BY <3>1 DEF Ordered
      <4>2. QED BY <1>1, <3>1, <4>1
    <3>3. QED BY <1>1, <1>6, <3>1, <3>2 DEF NoGap
  <2>6. Later'
    BY <2>1, <2>2, <2>5 DEF Later
  <2>7. Placed'
    <3>1. \A e : Archive(e)' = Archive(e)
      BY <2>1 DEF Archive, Covers
    <3>2. ~\E i \in DOMAIN archives : Covers(archives[i], d)
      BY <1>6 DEF Archive
    <3>3. ASSUME NEW e \in Dates
          PROVE  current'[e] = IF Archive(e) = {} THEN truth'[e] ELSE 0
      BY <1>5, <1>6, <2>2 DEF Placed
    <3>4. ASSUME NEW e \in Dates, NEW i \in DOMAIN archives
          PROVE  archives[i].rows[e] = IF Covers(archives[i], e) THEN truth'[e] ELSE 0
      BY <1>5, <3>2 DEF Placed
    <3>5. QED BY <2>1, <3>1, <3>3, <3>4 DEF Placed, Covers
  <2>8. Fits'
    <3>1. mover # Resting => mover.to.start <= d
      BY <1>1 DEF Fits, PartShape
    <3>2. QED BY <1>2, <2>1, <2>2, <3>1 DEF Fits, IsFull, MaxEndDate, Today
  <2> QED BY <1>4, <2>3, <2>4, <2>6, <2>7, <2>8
<1>7. CASE Archive(d) # {}
  <2>1. PICK i \in Archive(d) :
          /\ archives' = [archives EXCEPT ![i].rows[d] = @ + 1] /\ UNCHANGED current
    BY <1>7 DEF CommitPings, d
  <2>2. i \in DOMAIN archives /\ Covers(archives[i], d)
    BY DEF Archive
  <2> DEFINE rows == [archives[i].rows EXCEPT ![d] = @ + 1]
             new == [archives[i] EXCEPT !.rows = rows]
  <2>a. archives' = [archives EXCEPT ![i] = new]
    BY <2>1
  <2>b. /\ archives[i].rows \in Rows /\ rows \in Rows
        /\ \A e \in Dates : rows[e] = IF e = d THEN archives[i].rows[e] + 1 ELSE archives[i].rows[e]
    <3>1. archives[i].rows \in Rows
      BY <2>2, ArchiveShape
    <3>2. QED BY <1>1, <3>1 DEF Rows
  <2> HIDE DEF rows
  <2>c. /\ new \in [start : Int, end : Int, rows : Rows]
        /\ new.start = archives[i].start /\ new.end = archives[i].end /\ new.rows = rows
    <3>1. archives[i] \in [start : Int, end : Int, rows : Rows]
      BY <2>2, ArchiveShape
    <3>2. QED BY <2>b, <3>1
  <2> HIDE DEF new
  <2>3. /\ archives' \in Seq([start : Int, end : Int, rows : Rows])
        /\ Len(archives') = Len(archives) /\ DOMAIN archives' = DOMAIN archives
        /\ archives # <<>> /\ archives' # <<>>
    BY <2>a, <2>2, <2>c DEF PartShape
  <2>d. \A j \in DOMAIN archives : archives'[j] = IF j = i THEN new ELSE archives[j]
    BY <2>a, <2>2 DEF PartShape
  <2>4. \A j \in DOMAIN archives : /\ archives'[j].start = archives[j].start
                                   /\ archives'[j].end = archives[j].end
    BY <2>c, <2>d
  <2>5. \A j \in DOMAIN archives, e \in Dates :
          archives'[j].rows[e] = IF j = i /\ e = d THEN archives[j].rows[e] + 1
                                 ELSE archives[j].rows[e]
    BY <2>b, <2>c, <2>d
  <2>6. PartShape'
    BY <1>2, <1>5, <2>1, <2>3 DEF PartShape
  <2>7. \A e : Archive(e)' = Archive(e)
    BY <2>3, <2>4 DEF Archive, Covers
  <2>8. (Ordered /\ NoGap /\ Later)'
    <3>1. Ordered'
      BY <1>2, <2>3, <2>4 DEF Ordered, IsFull, MaxEndDate, Today
    <3>2. NoGap' /\ Later'
      <4>1. 1 \in DOMAIN archives /\ Len(archives) \in DOMAIN archives
        BY <2>3 DEF PartShape
      <4>2. QED BY <2>1, <2>3, <2>4, <2>7, <4>1 DEF NoGap, Later
    <3>3. QED BY <3>1, <3>2
  <2>9. Placed'
    <3>1. \A e \in Dates : current'[e] = IF Archive(e)' = {} THEN truth'[e] ELSE 0
      BY <1>5, <1>7, <2>1, <2>7 DEF Placed
    <3>2. ASSUME NEW e \in Dates, NEW j \in DOMAIN archives
          PROVE  archives'[j].rows[e] = IF Covers(archives[j], e) THEN truth'[e] ELSE 0
      <4>1. Covers(archives[j], d) => j = i
        <5>1. Covers(archives[j], d) => j \in Archive(d)
          BY DEF Archive
        <5>2. QED BY <1>1, <5>1, OneArchive
      <4>2. QED BY <1>5, <2>2, <2>5, <4>1 DEF Placed
    <3>3. QED BY <2>3, <2>4, <3>1, <3>2 DEF Placed, Covers
  <2>10. Fits'
    <3>1. Len(archives) \in DOMAIN archives
      BY <2>3 DEF PartShape
    <3>2. QED BY <1>2, <2>3, <2>4, <3>1 DEF Fits, IsFull, MaxEndDate, Today
  <2> QED BY <1>4, <2>6, <2>8, <2>9, <2>10
<1> QED BY <1>6, <1>7

-----------------------------------------------------------------------------
(* The optimizer.                                                          *)

(* Rows that are old enough and in no archive are what makes room for a    *)
(* range that is not empty.                                                *)
LEMMA RenameStep == PartInv /\ Rename => PartInv'
<1> SUFFICES ASSUME PartInv, Rename PROVE PartInv'
  OBVIOUS
<1> USE DEF PartInv
<1> DEFINE first == Min(InCurrent)
           n == Len(archives)
           last == archives[n]
<1>1. /\ mover = Resting /\ UNCHANGED <<clock, current, archives, pingSaver, truth>>
      /\ mover' = [at |-> "renamed", to |-> Target, end |-> NewEnd(Target.start)]
  BY DEF Rename
<1>2. /\ first \in Dates /\ first \in Int /\ current[first] > 0 /\ first < ArchiveEnd
      /\ \A d \in Dates : current[d] > 0 => first <= d
  <2>1. InCurrent \in SUBSET Nat /\ InCurrent # {} /\ first < ArchiveEnd
    BY PartitionsAssumption DEF InCurrent, Dates, Rename
  <2>2. first \in InCurrent /\ \A d \in InCurrent : first <= d
    BY <2>1, HasLeastDay
  <2>3. QED BY <2>1, <2>2, PartitionsAssumption DEF InCurrent, Dates
<1>3. ArchiveEnd \in Int /\ Today \in Int /\ ArchiveEnd <= Today
  BY DEF PartShape, ArchiveEnd, Today
<1> HIDE DEF first
<1>4. /\ Target \in [start : Int, attached : BOOLEAN]
      /\ Target.start <= first
      /\ IF Target.attached
           THEN /\ archives # <<>>
                /\ Target.start = last.start /\ last.end <= first
                /\ last.end < MaxEndDate(last)
           ELSE IF archives = <<>> THEN TRUE
                ELSE IsFull(last) /\ Target.start = last.end
  <2>1. CASE archives = <<>>
    <3>1. Target = [start |-> TruncMonthDown(first), attached |-> FALSE]
      BY <2>1 DEF Target, first
    <3>2. QED BY <2>1, <3>1, <1>2, Period
  <2>2. CASE archives # <<>>
    <3>1. /\ n \in DOMAIN archives /\ last.start \in Int /\ last.end \in Int
      BY <2>2, ArchiveShape
    <3>2. last.start < last.end /\ last.end <= first
      <4>1. last.start < last.end
        BY <3>1 DEF Ordered
      <4>2. last.end <= first
        BY <2>2, <3>1, <1>2 DEF Later
      <4>3. QED BY <4>1, <4>2
    <3>3. MaxEndDate(last) \in Int
      <4> DEFINE since == last.start
      <4>1. MaxEndDate(last) = TruncMonthDown(since) + Months /\ since \in Int
        BY <3>1 DEF MaxEndDate
      <4> HIDE DEF since
      <4>2. TruncMonthDown(since) \in Int
        BY <4>1, Period
      <4>3. QED BY <4>1, <4>2, PartitionsAssumption
    <3>4. Target = IF IsFull(last) THEN [start |-> last.end, attached |-> FALSE]
                   ELSE [start |-> last.start, attached |-> TRUE]
      BY <2>2 DEF Target
    <3> HIDE DEF last
    <3>5. CASE IsFull(last)
      BY <2>2, <3>1, <3>2, <3>4, <3>5
    <3>6. CASE ~IsFull(last)
      <4>1. last.end < MaxEndDate(last)
        BY <3>1, <3>3, <3>6 DEF IsFull
      <4>2. last.start <= first
        BY <3>1, <3>2, <1>2
      <4>3. QED BY <2>2, <3>1, <3>2, <3>4, <3>6, <4>1, <4>2
    <3>7. QED BY <3>5, <3>6
  <2>3. QED BY <2>1, <2>2
<1> DEFINE to == Target
           end == NewEnd(to.start)
<1> HIDE DEF to
<1>5. to.start \in Int /\ MaxEndDate(to) \in Int /\ to.start < MaxEndDate(to)
  <2> DEFINE since == to.start
  <2>1. since \in Int
    BY <1>4 DEF to
  <2>2. MaxEndDate(to) = TruncMonthDown(since) + Months
    BY DEF MaxEndDate
  <2> HIDE DEF since
  <2>3. TruncMonthDown(since) \in Int /\ since < TruncMonthDown(since) + Months
    BY <2>1, Period
  <2>4. since \in Int /\ MaxEndDate(to) \in Int /\ since < MaxEndDate(to)
    BY <2>1, <2>2, <2>3, PartitionsAssumption
  <2>5. QED BY <2>4 DEF since
<1>6. /\ end \in Int /\ to.start < end /\ end <= MaxEndDate(to)
      /\ end = ArchiveEnd \/ end = MaxEndDate(to)
  <2>1. end = IF ArchiveEnd < MaxEndDate(to) THEN ArchiveEnd ELSE MaxEndDate(to)
    BY DEF NewEnd, DateMin, MaxEndDate
  <2>2. to.start < ArchiveEnd
    BY <1>2, <1>3, <1>4, <1>5 DEF to
  <2> HIDE DEF end
  <2>3. QED BY <1>3, <1>5, <2>1, <2>2
<1> HIDE DEF end
<1>7. mover' = [at |-> "renamed", to |-> to, end |-> end]
  BY <1>1 DEF to, end
<1>8. PartShape'
  BY <1>1, <1>4, <1>6, <1>7 DEF PartShape, to
<1>9. (SaverInTime /\ CopyIsExact)'
  BY <1>1, <1>7 DEF SaverInTime, CopyIsExact, Copying, Today
<1>10. (Ordered /\ NoGap /\ Later /\ Placed)'
  BY <1>1 DEF Ordered, NoGap, Later, Placed, Archive, Covers, IsFull, MaxEndDate, Today
<1>11. Fits'
  <2>1. mover'.to = to /\ mover'.end = end
    BY <1>7
  <2>2. to.start <= Today - 1
    BY <1>2, <1>3, <1>4, <1>5 DEF to
  <2>3. to.attached => last.end < end
    <3> SUFFICES ASSUME to.attached PROVE last.end < end
      OBVIOUS
    <3>1. archives # <<>> /\ to.start = last.start /\ last.end <= first
          /\ last.end < MaxEndDate(last) /\ last.end \in Int
      BY <1>4, ArchiveShape DEF to
    <3>2. MaxEndDate(to) = MaxEndDate(last)
      BY <3>1 DEF MaxEndDate
    <3> HIDE DEF last
    <3>3. QED BY <1>2, <1>3, <1>6, <3>1, <3>2
  <2>4. archives = <<>> => \A d \in Dates : current[d] > 0 => d >= to.start
    <3> SUFFICES ASSUME archives = <<>>, NEW d \in Dates, current[d] > 0 PROVE d >= to.start
      OBVIOUS
    <3>1. d \in Int /\ first <= d
      BY <1>2 DEF Dates
    <3>2. to.start <= first
      BY <1>4 DEF to
    <3>3. QED BY <1>2, <1>5, <3>1, <3>2
  <2>5. IF to.attached
          THEN archives # <<>> /\ to.start = last.start /\ last.end < end
          ELSE archives # <<>> => IsFull(last) /\ to.start = last.end
    BY <1>4, <2>3 DEF to
  <2>6. UNCHANGED <<archives, current>> /\ Today' = Today
    BY <1>1 DEF Today
  <2>7. IF to.attached
          THEN archives # <<>> /\ to.start = last.start /\ last.end < end
          ELSE IF archives = <<>>
            THEN \A d \in Dates : current[d] > 0 => d >= to.start
            ELSE IsFull(last) /\ to.start = last.end
    BY <2>4, <2>5
  <2> HIDE DEF PartInv
  <2>8. QED BY <1>6, <2>1, <2>2, <2>6, <2>7 DEF Fits, IsFull, MaxEndDate
<1> QED BY <1>8, <1>9, <1>10, <1>11

LEMMA LockStep == PartInv /\ LockParent => PartInv'
<1> SUFFICES ASSUME PartInv, LockParent PROVE PartInv'
  OBVIOUS
<1> USE DEF PartInv
<1>1. /\ mover.at = "renamed" /\ pingSaver = Resting
      /\ mover' = [mover EXCEPT !.at = "locked"]
      /\ UNCHANGED <<clock, current, archives, pingSaver, truth>>
  BY DEF LockParent
<1>2. mover \in [at : {"renamed", "locked"}, to : [start : Int, attached : BOOLEAN], end : Int]
  BY <1>1 DEF PartShape, Resting
<1>3. /\ mover' \in [at : {"renamed", "locked"}, to : [start : Int, attached : BOOLEAN], end : Int]
      /\ mover'.at = "locked" /\ mover'.to = mover.to /\ mover'.end = mover.end
      /\ mover # Resting
  BY <1>1, <1>2 DEF Resting
<1>4. PartShape'
  BY <1>1, <1>3 DEF PartShape
<1>5. (SaverInTime /\ CopyIsExact)'
  BY <1>1, <1>3 DEF SaverInTime, CopyIsExact
<1>6. (Ordered /\ NoGap /\ Later /\ Placed)'
  BY <1>1 DEF Ordered, NoGap, Later, Placed, Archive, Covers, IsFull, MaxEndDate, Today
<1>7. Fits'
  BY <1>1, <1>3 DEF Fits, IsFull, MaxEndDate, Today
<1> QED BY <1>4, <1>5, <1>6, <1>7

LEMMA CopyStep == PartInv /\ CopyRows => PartInv'
<1> SUFFICES ASSUME PartInv, CopyRows PROVE PartInv'
  OBVIOUS
<1> USE DEF PartInv
<1> DEFINE copy == [d \in Dates |-> IF InRange(d) THEN current[d] ELSE 0]
<1>1. /\ mover.at = "locked"
      /\ mover' = [at |-> "copied", to |-> mover.to, end |-> mover.end, rows |-> copy]
      /\ UNCHANGED <<clock, current, archives, pingSaver, truth>>
  BY DEF CopyRows
<1>2. mover # Resting /\ mover.to \in [start : Int, attached : BOOLEAN] /\ mover.end \in Int
  BY <1>1 DEF PartShape, Resting
<1>3. copy \in Rows
  BY DEF PartShape, Rows
<1>4. pingSaver = Resting
  BY <1>1 DEF SaverInTime, Copying
<1>5. mover'.at = "copied" /\ mover'.to = mover.to /\ mover'.end = mover.end /\ mover'.rows = copy
  BY <1>1
<1>6. copy = [d \in Dates |-> IF InRange(d)' THEN current'[d] ELSE 0]
  BY <1>1, <1>5 DEF InRange
<1> HIDE DEF copy
<1>7. PartShape'
  BY <1>1, <1>2, <1>3 DEF PartShape
<1>8. (SaverInTime /\ CopyIsExact)'
  BY <1>1, <1>4, <1>5, <1>6 DEF SaverInTime, CopyIsExact
<1>9. (Ordered /\ NoGap /\ Later /\ Placed)'
  BY <1>1 DEF Ordered, NoGap, Later, Placed, Archive, Covers, IsFull, MaxEndDate, Today
<1>10. Fits'
  BY <1>1, <1>2, <1>5 DEF Fits, IsFull, MaxEndDate, Today
<1> QED BY <1>7, <1>8, <1>9, <1>10

(* What the mover copied is in no archive but the one it extends.          *)
LEMMA RangeIsFree ==
  ASSUME PartInv, mover # Resting, NEW d \in Int, InRange(d),
         NEW i \in Archive(d)
  PROVE  mover.to.attached /\ i = Len(archives)
<1> USE DEF PartInv
<1> DEFINE n == Len(archives)
           last == archives[n]
<1>1. /\ i \in DOMAIN archives /\ archives # <<>>
      /\ archives[i].start <= d /\ d < archives[i].end
  BY ArchiveShape DEF Archive, Covers
<1>2. /\ i \in Int /\ archives[i].end \in Int /\ archives[i].start \in Int
      /\ n \in Int /\ n \in DOMAIN archives /\ i <= n
      /\ last.start \in Int /\ last.end \in Int
  BY <1>1, ArchiveShape
<1>3. mover.to.start <= d
  BY DEF InRange
<1>4. last.start < last.end
  BY <1>2 DEF Ordered
<1>5. i < n => archives[i].end <= last.start
  BY <1>1, <1>2 DEF Ordered
<1>6. IF mover.to.attached THEN mover.to.start = last.start
      ELSE mover.to.start = last.end
  BY <1>1 DEF Fits
<1> HIDE DEF n, last
<1>7. mover.to.start \in Int
  BY <1>2, <1>6
<1>8. CASE i < n
  <2>1. last.start <= mover.to.start
    BY <1>2, <1>4, <1>6
  <2> QED BY <1>1, <1>2, <1>3, <1>5, <1>7, <1>8, <2>1
<1>9. CASE i = n
  <2>1. ~mover.to.attached => archives[i].end <= d
    BY <1>2, <1>3, <1>6, <1>9 DEF last
  <2> QED BY <1>1, <1>2, <1>9, <2>1 DEF n
<1> QED BY <1>2, <1>8, <1>9

LEMMA AttachStep == PartInv /\ DeleteAndAttach => PartInv'
<1> SUFFICES ASSUME PartInv, DeleteAndAttach PROVE PartInv'
  OBVIOUS
<1> USE DEF PartInv
<1> DEFINE n == Len(archives)
           last == archives[n]
           from == mover.to.start
           end == mover.end
           A == [start : Int, end : Int, rows : Rows]
<1>1. /\ mover.at = "copied" /\ mover # Resting /\ mover' = Resting
      /\ current' = [d \in Dates |-> IF InRange(d) THEN 0 ELSE current[d]]
      /\ UNCHANGED <<clock, pingSaver, truth>>
  BY DEF DeleteAndAttach, Resting
<1>2. /\ from \in Int /\ end \in Int /\ mover.rows \in Rows
      /\ mover.to.attached \in BOOLEAN
  BY <1>1 DEF PartShape, Resting
<1>3. /\ from < end /\ end <= MaxEndDate(mover.to) /\ from <= Today - 1
      /\ IF mover.to.attached
           THEN archives # <<>> /\ from = last.start /\ last.end < end
           ELSE IF archives = <<>>
             THEN \A d \in Dates : current[d] > 0 => d >= from
             ELSE IsFull(last) /\ from = last.end
  BY <1>1 DEF Fits
<1>4. \A d \in Dates :
        /\ d \in Int /\ current[d] \in Nat /\ truth[d] \in Nat
        /\ current'[d] = IF InRange(d) THEN 0 ELSE current[d]
        /\ mover.rows[d] = IF InRange(d) THEN current[d] ELSE 0
  <2>1. \A d \in Dates : d \in Int /\ current[d] \in Nat /\ truth[d] \in Nat
    BY DEF PartShape, Rows, Dates
  <2>2. mover.rows = [d \in Dates |-> IF InRange(d) THEN current[d] ELSE 0]
    BY <1>1 DEF CopyIsExact
  <2> QED BY <1>1, <2>1, <2>2
<1>5. current' \in Rows
  BY <1>1, <1>4 DEF Rows
<1>6. \A d : InRange(d) <=> from <= d /\ d < end
  BY DEF InRange
<1>7. /\ n \in Nat /\ DOMAIN archives = 1..n /\ archives \in Seq(A)
      /\ \A i \in 1..n : /\ archives[i].start \in Int /\ archives[i].end \in Int
                         /\ archives[i].rows \in Rows
      /\ archives # <<>> => n >= 1
  BY ArchiveShape DEF PartShape
<1>8. (SaverInTime /\ Fits /\ CopyIsExact)'
  BY <1>1 DEF SaverInTime, Fits, CopyIsExact, Copying, Resting, Today
<1>9. Today' = Today
  BY <1>1 DEF Today
<1>10. \A d \in Dates : InRange(d) =>
         \A i \in 1..n : Covers(archives[i], d) => mover.to.attached /\ i = n
  <2> SUFFICES ASSUME NEW d \in Dates, InRange(d), NEW i \in 1..n, Covers(archives[i], d)
               PROVE  mover.to.attached /\ i = n
    OBVIOUS
  <2>1. d \in Int /\ i \in Archive(d)
    BY <1>4, <1>7 DEF Archive
  <2> QED BY <1>1, <2>1, RangeIsFree
<1>11. CASE mover.to.attached
  <2> DEFINE rows == [d \in Dates |-> last.rows[d] + mover.rows[d]]
             new == [start |-> last.start, end |-> end, rows |-> rows]
  <2>1. n \in 1..n /\ last \in A
    BY <1>3, <1>7, <1>11, ArchiveShape
  <2>2. /\ archives' = [archives EXCEPT ![n].end = end,
                          ![n].rows = [d \in Dates |-> @[d] + mover.rows[d]]]
    BY <1>11 DEF DeleteAndAttach
  <2>4. rows \in Rows /\ \A d \in Dates : rows[d] = last.rows[d] + mover.rows[d]
    BY <1>2, <2>1 DEF Rows
  <2>5. /\ new \in A /\ new.start = last.start /\ new.end = end /\ new.rows = rows
    <3> HIDE DEF rows
    <3> QED BY <1>2, <1>3, <2>1, <2>4
  <2>3. archives' = [archives EXCEPT ![n] = new]
    <3>1. new = [last EXCEPT !.end = end, !.rows = rows]
      <4>1. ASSUME NEW e \in Int, NEW r \in Rows
            PROVE  [last EXCEPT !.end = e, !.rows = r]
                     = [start |-> last.start, end |-> e, rows |-> r]
        <5> DEFINE y == [last EXCEPT !.end = e, !.rows = r]
        <5>1. y \in A /\ y.start = last.start /\ y.end = e /\ y.rows = r
          BY <2>1
        <5> HIDE DEF y
        <5>2. y = [start |-> y.start, end |-> y.end, rows |-> y.rows]
          BY <5>1
        <5> QED BY <5>1, <5>2 DEF y
      <4> HIDE DEF rows
      <4> QED BY <1>2, <2>4, <4>1
    <3> HIDE DEF new
    <3>2. archives' = [archives EXCEPT ![n] = [last EXCEPT !.end = end, !.rows = rows]]
      BY <1>7, <2>1, <2>2
    <3> QED BY <3>1, <3>2
  <2> HIDE DEF rows, A
  <2> HIDE DEF new
  <2>6. /\ archives' \in Seq(A) /\ Len(archives') = n /\ DOMAIN archives' = 1..n
        /\ archives' # <<>>
        /\ \A i \in 1..n : archives'[i] = IF i = n THEN new ELSE archives[i]
    BY <1>7, <2>1, <2>3, <2>5
  <2>7. PartShape'
    BY <1>1, <1>5, <2>6 DEF PartShape, A
  <2>8. last.start < last.end /\ last.end <= end /\ last.end < end /\ last.start = from
    <3>1. last.start < last.end
      BY <1>7, <2>1 DEF Ordered
    <3>2. from = last.start /\ last.end < end
      BY <1>3, <1>11
    <3>3. last.end \in Int
      BY <1>7, <2>1
    <3> HIDE DEF last
    <3> QED BY <1>2, <3>1, <3>2, <3>3
  <2>9. MaxEndDate(new) = MaxEndDate(mover.to) /\ MaxEndDate(new) = MaxEndDate(last)
    BY <2>5, <2>8 DEF MaxEndDate
  <2> HIDE DEF n, end, from
  <2>10. Ordered'
    <3>1. ASSUME NEW i \in 1..n
          PROVE  /\ archives'[i].start = archives[i].start
                 /\ archives'[i].end = IF i = n THEN end ELSE archives[i].end
                 /\ archives'[i].start < archives'[i].end
                 /\ archives'[i].end <= MaxEndDate(archives'[i])
                 /\ archives'[i].start <= Today' - 1
                 /\ i < n => IsFull(archives'[i]) = IsFull(archives[i])
      BY <1>3, <1>7, <1>9, <2>5, <2>6, <2>8, <2>9 DEF Ordered
    <3>2. \A i, j \in 1..n : i < j => archives'[i].end <= archives'[j].start
      <4>1. ASSUME NEW i \in 1..n, NEW j \in 1..n, i < j
            PROVE  i # n /\ archives[i].end <= archives[j].start
        <5>1. i # n
          BY <1>7, <4>1
        <5> QED BY <1>7, <4>1, <5>1 DEF Ordered
      <4> QED BY <3>1, <4>1
    <3>3. ASSUME NEW i \in 1..n, i + 1 \in 1..n
          PROVE  IsFull(archives'[i]) /\ archives'[i].end = archives'[i + 1].start
      <4>1. i < n /\ i # n
        BY <1>7, <3>3
      <4>2. IsFull(archives[i]) /\ archives[i].end = archives[i + 1].start
        BY <1>7, <3>3 DEF Ordered
      <4> QED BY <3>1, <3>3, <4>1, <4>2
    <3> QED BY <2>6, <3>1, <3>2, <3>3 DEF Ordered
  <2>11. NoGap'
    <3> SUFFICES ASSUME NEW d \in Int, archives'[1].start <= d, d < end
                 PROVE  \E i \in 1..n : Covers(archives'[i], d)
      BY <2>1, <2>5, <2>6 DEF NoGap, Archive
    <3>1. archives[1].start <= d
      BY <1>7, <2>1, <2>5, <2>6
    <3>2. CASE d < last.end
      <4>1. PICK i \in 1..n : Covers(archives[i], d)
        BY <1>3, <1>7, <1>11, <3>1, <3>2 DEF NoGap, Archive, n
      <4>2. archives'[i].start <= d /\ d < archives'[i].end
        BY <1>2, <1>7, <2>1, <2>5, <2>6, <2>8, <3>2, <4>1 DEF Covers
      <4> QED BY <4>1, <4>2 DEF Covers
    <3>3. CASE ~(d < last.end)
      <4>1. last.start <= d
        BY <1>7, <2>1, <2>8, <3>3
      <4> QED BY <2>1, <2>5, <2>6, <4>1 DEF Covers
    <3> QED BY <3>2, <3>3
  <2>12. Later'
    <3> SUFFICES ASSUME NEW d \in Dates, current'[d] > 0 PROVE d >= end
      BY <2>1, <2>5, <2>6 DEF Later
    <3>1. ~InRange(d) /\ current[d] > 0
      BY <1>4
    <3>2. d >= last.end
      BY <1>3, <1>11, <3>1 DEF Later, n
    <3> QED BY <1>2, <1>4, <1>6, <1>7, <2>1, <2>8, <3>1, <3>2
  <2>13. Placed'
    <3>1. ASSUME NEW d \in Dates
          PROVE  /\ Covers(new, d) <=> InRange(d)
                 /\ Covers(last, d) => InRange(d)
      BY <1>2, <1>4, <1>6, <1>7, <2>1, <2>5, <2>8 DEF Covers
    <3>2. ASSUME NEW d \in Dates, NEW i \in 1..n
          PROVE  archives'[i].rows[d] = IF Covers(archives'[i], d) THEN truth'[d] ELSE 0
      <4>1. CASE i # n
        BY <1>1, <1>7, <2>6, <4>1 DEF Placed
      <4>2. CASE i = n
        <5>1. archives'[i] = new /\ new.rows[d] = last.rows[d] + mover.rows[d]
          BY <2>4, <2>5, <2>6, <4>2
        <5>2. last.rows[d] = IF Covers(last, d) THEN truth[d] ELSE 0
          BY <1>7, <2>1 DEF Placed
        <5>3. current[d] = IF Archive(d) = {} THEN truth[d] ELSE 0
          BY DEF Placed
        <5>4. Covers(last, d) => Archive(d) # {}
          BY <1>7, <2>1 DEF Archive
        <5>5. InRange(d) /\ ~Covers(last, d) => Archive(d) = {}
          BY <1>7, <1>10 DEF Archive, n
        <5> HIDE DEF last
        <5> QED BY <1>1, <1>4, <3>1, <5>1, <5>2, <5>3, <5>4, <5>5
      <4> QED BY <4>1, <4>2
    <3>3. ASSUME NEW d \in Dates
          PROVE  current'[d] = IF Archive(d)' = {} THEN truth'[d] ELSE 0
      <4>1. CASE InRange(d)
        <5>1. n \in Archive(d)'
          BY <2>1, <2>6, <3>1, <4>1 DEF Archive
        <5> QED BY <1>4, <4>1, <5>1
      <4>2. CASE ~InRange(d)
        <5>1. \A i \in 1..n : Covers(archives'[i], d) <=> Covers(archives[i], d)
          BY <2>6, <3>1, <4>2
        <5>2. Archive(d)' = Archive(d)
          BY <1>7, <2>6, <5>1 DEF Archive
        <5> QED BY <1>1, <1>4, <4>2, <5>2 DEF Placed
      <4> QED BY <4>1, <4>2
    <3> QED BY <2>6, <3>2, <3>3 DEF Placed
  <2> QED BY <1>8, <2>7, <2>10, <2>11, <2>12, <2>13
<1>12. CASE ~mover.to.attached
  <2> DEFINE new == [start |-> from, end |-> end, rows |-> mover.rows]
  <2>1. archives' = Append(archives, new)
    BY <1>12 DEF DeleteAndAttach
  <2>2. new \in A /\ new.start = from /\ new.end = end /\ new.rows = mover.rows
    BY <1>2
  <2> HIDE DEF new, A
  <2>3. /\ archives' \in Seq(A) /\ Len(archives') = n + 1 /\ DOMAIN archives' = 1..(n + 1)
        /\ archives' # <<>> /\ archives'[n + 1] = new
        /\ \A i \in 1..n : archives'[i] = archives[i]
    BY <1>7, <2>1, <2>2
  <2>4. PartShape'
    BY <1>1, <1>5, <2>3 DEF PartShape, A
  <2>5. MaxEndDate(new) = MaxEndDate(mover.to)
    BY <2>2 DEF MaxEndDate
  <2>6. /\ archives # <<>> => n \in 1..n /\ IsFull(last) /\ from = last.end
        /\ archives = <<>> => n = 0
    BY <1>3, <1>7, <1>12
  <2>a. ASSUME NEW i \in 1..n PROVE archives[i].end <= from
    <3>1. archives # <<>> /\ n \in 1..n
      BY <1>7, <2>6
    <3>2. last.start < last.end /\ last.end = from
      BY <1>7, <2>6, <3>1 DEF Ordered
    <3>3. i < n => archives[i].end <= last.start
      BY <1>7, <3>1 DEF Ordered
    <3>4. last.start \in Int /\ last.end \in Int /\ archives[i].end \in Int /\ i \in Int
      BY <1>7, <3>1
    <3>5. i = n => archives[i].end = last.end
      OBVIOUS
    <3> HIDE DEF last, n
    <3> QED BY <1>7, <3>2, <3>3, <3>4, <3>5
  <2> HIDE DEF n, end, from
  <2>7. Ordered'
    <3>1. ASSUME NEW i \in 1..(n + 1)
          PROVE  /\ archives'[i].start < archives'[i].end
                 /\ archives'[i].end <= MaxEndDate(archives'[i])
                 /\ archives'[i].start <= Today' - 1
      <4>1. CASE i = n + 1
        BY <1>3, <1>9, <2>2, <2>3, <2>5, <4>1
      <4>2. CASE i # n + 1
        <5>1. i \in 1..n
          BY <1>7, <4>2
        <5> QED BY <1>7, <1>9, <2>3, <5>1 DEF Ordered
      <4> QED BY <4>1, <4>2
    <3>2. ASSUME NEW i \in 1..(n + 1), NEW j \in 1..(n + 1), i < j
          PROVE  archives'[i].end <= archives'[j].start
      <4>1. i \in 1..n
        BY <1>7, <3>2
      <4>2. CASE j = n + 1
        BY <2>2, <2>3, <2>a, <4>1, <4>2
      <4>3. CASE j # n + 1
        <5>1. j \in 1..n
          BY <1>7, <4>3
        <5> QED BY <1>7, <2>3, <3>2, <4>1, <5>1 DEF Ordered
      <4> QED BY <4>2, <4>3
    <3>3. ASSUME NEW i \in 1..(n + 1), i + 1 \in 1..(n + 1)
          PROVE  IsFull(archives'[i]) /\ archives'[i].end = archives'[i + 1].start
      <4>1. i \in 1..n
        BY <1>7, <3>3
      <4>2. CASE i = n
        BY <1>7, <2>2, <2>3, <2>6, <4>1, <4>2
      <4>3. CASE i # n
        <5>1. i + 1 \in 1..n
          BY <1>7, <4>1, <4>3
        <5> QED BY <1>7, <2>3, <4>1, <5>1 DEF Ordered
      <4> QED BY <4>2, <4>3
    <3> QED BY <2>3, <3>1, <3>2, <3>3 DEF Ordered
  <2>8. NoGap'
    <3> SUFFICES ASSUME NEW d \in Int, archives'[1].start <= d, d < end
                 PROVE  \E i \in 1..(n + 1) : Covers(archives'[i], d)
      BY <2>2, <2>3 DEF NoGap, Archive
    <3>1. CASE from <= d
      <4>1. Covers(archives'[n + 1], d) /\ n + 1 \in 1..(n + 1)
        BY <1>7, <2>2, <2>3, <3>1 DEF Covers
      <4> QED BY <4>1
    <3>2. CASE ~(from <= d)
      <4>1. archives # <<>>
        <5> SUFFICES ASSUME archives = <<>> PROVE FALSE
          OBVIOUS
        <5>1. n = 0
          BY <2>6
        <5>2. archives'[1] = new
          BY <2>3, <5>1
        <5> QED BY <2>2, <3>2, <5>2
      <4>2. 1 \in 1..n /\ archives[1].start <= d /\ d < last.end
        BY <1>2, <1>7, <2>3, <2>6, <3>2, <4>1
      <4>3. PICK i \in 1..n : Covers(archives[i], d)
        BY <1>7, <4>1, <4>2 DEF NoGap, Archive, n
      <4> QED BY <1>7, <2>3, <4>3
    <3> QED BY <3>1, <3>2
  <2>9. Later'
    <3> SUFFICES ASSUME NEW d \in Dates, current'[d] > 0 PROVE d >= end
      BY <2>2, <2>3 DEF Later
    <3>1. ~InRange(d) /\ current[d] > 0
      BY <1>4
    <3>2. d >= from
      BY <1>3, <1>12, <2>6, <3>1 DEF Later, n
    <3> QED BY <1>2, <1>4, <1>6, <3>1, <3>2
  <2>10. Placed'
    <3>1. \A d \in Dates : Covers(new, d) <=> InRange(d)
      BY <1>6, <2>2 DEF Covers
    <3>2. ASSUME NEW d \in Dates, InRange(d) PROVE Archive(d) = {}
      BY <1>7, <1>10, <1>12, <3>2 DEF Archive
    <3>3. ASSUME NEW d \in Dates, NEW i \in 1..(n + 1)
          PROVE  archives'[i].rows[d] = IF Covers(archives'[i], d) THEN truth'[d] ELSE 0
      <4>1. CASE i # n + 1
        <5>1. i \in 1..n
          BY <1>7, <4>1
        <5> QED BY <1>1, <1>7, <2>3, <5>1 DEF Placed
      <4>2. CASE i = n + 1
        <5>1. archives'[i] = new /\ new.rows[d] = mover.rows[d]
          BY <2>2, <2>3, <4>2
        <5>2. current[d] = IF Archive(d) = {} THEN truth[d] ELSE 0
          BY DEF Placed
        <5> QED BY <1>1, <1>4, <3>1, <3>2, <5>1, <5>2
      <4> QED BY <4>1, <4>2
    <3>4. ASSUME NEW d \in Dates
          PROVE  current'[d] = IF Archive(d)' = {} THEN truth'[d] ELSE 0
      <4>1. CASE InRange(d)
        <5>1. n + 1 \in Archive(d)'
          BY <1>7, <2>3, <3>1, <4>1 DEF Archive
        <5> QED BY <1>4, <4>1, <5>1
      <4>2. CASE ~InRange(d)
        <5>1. \A i \in 1..(n + 1) : Covers(archives'[i], d) <=>
                 i \in 1..n /\ Covers(archives[i], d)
          BY <1>7, <2>3, <3>1, <4>2
        <5>2. Archive(d)' = Archive(d)
          BY <1>7, <2>3, <5>1 DEF Archive
        <5> QED BY <1>1, <1>4, <4>2, <5>2 DEF Placed
      <4> QED BY <4>1, <4>2
    <3> QED BY <2>3, <3>3, <3>4 DEF Placed
  <2> QED BY <1>8, <2>4, <2>7, <2>8, <2>9, <2>10
<1> QED BY <1>2, <1>11, <1>12

LEMMA PartNextInv == PartInv /\ [PartNext]_partVars => PartInv'
<1> SUFFICES ASSUME PartInv, [PartNext]_partVars PROVE PartInv'
  OBVIOUS
<1>1. CASE UNCHANGED partVars
  BY <1>1 DEF partVars, PartInv, PartShape, SaverInTime, Ordered, NoGap, Later, Placed,
     Fits, CopyIsExact, Copying, Today, Archive, Covers, InRange, IsFull, MaxEndDate
<1>2. CASE PartNext
  <2>1. CASE MoverStep
    BY <2>1, RenameStep, LockStep, CopyStep, AttachStep DEF MoverStep
  <2>2. CASE ~MoverStep
    BY <1>2, <2>2, TickStep, BeginStep, CommitStep, ReaderStep, MoverAbortStep, SaverAbortStep DEF PartNext
  <2> QED BY <2>1, <2>2
<1> QED BY <1>1, <1>2

(* However many nights the optimizer runs beside the saver, and whichever  *)
(* of their transactions fail, a day's rows are all in the one partition   *)
(* that a query for the day reads, and the archives follow each other      *)
(* without gap or overlap (optimizer/db.go 94-200).                        *)
THEOREM PartitionsTileAlways == PartSpec => []PartitionsTile
<1>1. PartSpec => []PartInv
  BY PartInitInv, PartNextInv, PTL DEF PartSpec
<1> QED BY <1>1, PartInvSuffices, PTL

----------------------------------------------------------------------------
(* The commands together.  A behaviour of MCDatabaseJobs is, of the        *)
(* variables of each command, one of that command.                         *)
LEMMA JobsRunThem ==
  JobsSpec => /\ OffersSpec /\ StatSpec /\ TxSpec /\ ProbesSpec
              /\ PartInit /\ [][PartNext]_partVars
<1>1. JobsInit => OffersInit /\ StatInit /\ TxInit /\ ProbesInit /\ PartInit
  BY DEF JobsInit
<1>2. [JobsNext]_jobVars => [OffersNext]_offVars
  BY DEF JobsNext, jobVars, CMDFetchTransactions, CMDOptimizeDB, CMDFetchNodes, CMDProbeNodes,
         CMDStatNodes
<1>3. [JobsNext]_jobVars => [StatNext]_statVars
  BY DEF JobsNext, jobVars, CMDFetchTransactions, CMDOptimizeDB, CMDFetchNodes, CMDProbeNodes,
         CMDStatNodes
<1>4. [JobsNext]_jobVars => [TxNext]_txVars
  BY DEF JobsNext, jobVars, CMDFetchTransactions, CMDOptimizeDB, CMDFetchNodes, CMDProbeNodes,
         CMDStatNodes
<1>5. [JobsNext]_jobVars => [ProbesNext]_probeVars
  BY DEF JobsNext, jobVars, CMDFetchTransactions, CMDOptimizeDB, CMDFetchNodes, CMDProbeNodes,
         CMDStatNodes
<1>6. [JobsNext]_jobVars => [PartNext]_partVars
  BY DEF JobsNext, jobVars, CMDFetchTransactions, CMDOptimizeDB, CMDFetchNodes, CMDProbeNodes,
         CMDStatNodes
<1>7. QED
  BY <1>1, <1>2, <1>3, <1>4, <1>5, <1>6, PTL
     DEF JobsSpec, OffersSpec, StatSpec, TxSpec, ProbesSpec

RunsBounded == statRuns \in 0..MaxStatRuns

LEMMA RunsCounted == StatSpec => []RunsBounded
<1>1. StatInit => RunsBounded
  BY StatAssumption DEF StatInit, RunsBounded
<1>2. ASSUME RunsBounded, [StatNext]_statVars PROVE RunsBounded'
  <2>1. CASE SaveDailyStats
    BY <1>2, <2>1, StatAssumption DEF SaveDailyStats, RunsBounded
  <2>2. CASE MidnightUTC
    BY <1>2, <2>2, StatAssumption DEF MidnightUTC, RunsBounded
  <2>3. CASE StatNodesChange \/ StatOff \/ UNCHANGED statVars
    BY <1>2, <2>3 DEF StatNodesChange, StatOff, statVars, dailyVars, CloseErrors, ReadError,
                      OffStatsEnd, GetJSON, SaveSatDetails, SendError, RunsBounded
  <2>4. QED BY <1>2, <2>1, <2>2, <2>3 DEF StatNext, StatDaily
<1>3. QED BY <1>1, <1>2, PTL DEF StatSpec

(* No more errors are raised than there are satellites in the documents,   *)
(* and no more reported than raised: the counts of the invariant say so.   *)
LEMMA ErrorsBounded ==
  ASSUME OffInv
  PROVE  raised \in 0..(Cardinality(Docs) * SatsInDoc) /\ reported \in 0..raised
<1>1. Cardinality(Senders) \in Nat /\ Cardinality(ToSave) \in Nat /\ Cardinality(Docs) \in Nat
  BY DocCounts DEF OffInv
<1>2. raised \in Nat /\ reported \in Nat /\ errChan \in Nat
  BY StatAssumption DEF OffInv, OffShape
<1>3. Cardinality(Docs) * SatsInDoc \in Nat
  BY <1>1, StatAssumption
<1>4. reported + errChan + Cardinality(Senders) = raised
  BY DEF OffInv, NoErrorLost
<1>5. raised + Cardinality(ToSave) <= Cardinality(Docs) * SatsInDoc
  BY DEF OffInv, OneErrorEach
<1> HIDE DEF Senders, ToSave
<1>6. QED BY <1>1, <1>2, <1>3, <1>4, <1>5

LEMMA OffersShapeIsType == OffersShape => OffersTypeOK
<1> SUFFICES ASSUME OffersShape PROVE OffersTypeOK
  OBVIOUS
<1>1. ASSUME NEW s \in Savers
      PROVE  /\ saver[s].at \in {"off", "lock", "upsert"}
             /\ ToSet(saver[s].list) \subseteq Offered
             /\ ToSet(saver[s].todo) \subseteq saver[s].seen
             /\ saver[s].seen \cup saver[s].saved \subseteq Offered
  <2>1. saver[s] \in SaverState
    BY DEF OffersShape
  <2>2. saver[s].list \in Seq(Offered)
    BY <2>1 DEF SaverState
  <2>3. ToSet(saver[s].list) \subseteq Offered
    BY <2>2 DEF ToSet
  <2>4. QED BY <2>1, <2>3 DEF SaverState, OffersShape
<1>2. QED BY <1>1 DEF OffersShape, OffersTypeOK

(* Type correctness of the savers of offers, of the prober's bookkeeping   *)
(* and of the statistics, with the bounds of their counters.               *)
THEOREM JobsTypeCorrect == JobsSpec => []JobsTypeOK
<1>1. OffersInv => OffersTypeOK
  BY OffersShapeIsType DEF OffersInv
<1>2. ProbesInv => ProbesTypeOK
  BY DEF ProbesInv, ProbesShape, ProbesTypeOK, Stamps, Reply
<1>3. DailyInv /\ OffInv /\ RunsBounded => DailyTypeOK
  BY ErrorsBounded DEF RunsBounded, DailyInv, DailyShape, OffInv, OffShape, DocState, DailyTypeOK
<1>4. OffersSpec => []OffersInv
  BY OffersInitInv, OffersNextInv, PTL DEF OffersSpec
<1>5. ProbesSpec => []ProbesInv
  BY ProbesInitInv, ProbesNextInv, PTL DEF ProbesSpec
<1>6. StatSpec => [](DailyInv /\ OffInv)
  BY StatInitInv, StatNextInv, OffInitInv, OffNextInv, PTL DEF StatSpec
<1>7. QED
  BY <1>1, <1>2, <1>3, <1>4, <1>5, <1>6, RunsCounted, JobsRunThem, PTL DEF JobsTypeOK
=============================================================================
