----------------------------- MODULE DailyStats -----------------------------
(***************************************************************************)
(* The rest of `storjnet-info stat-nodes` (nodes/stats.go), which cron     *)
(* starts every hour.  saveDailyStats upserts today's row of               *)
(* node_daily_stats: which nodes are active, and who came and left since   *)
(* yesterday's row.  saveOffStats fetches three documents about the        *)
(* satellites in goroutines of their own, whose errors arrive over one     *)
(* channel.                                                                *)
(***************************************************************************)
EXTENDS Integers, FiniteSets

CONSTANTS
  StatNodes, LastDay,           \* nodes; days 1..LastDay
  MaxStatRuns,                  \* runs a day
  Docs, SatsInDoc,              \* documents fetched; satellites in each
  ErrCap                        \* capacity of errChan: 3

ASSUME StatAssumption ==
  /\ {LastDay, SatsInDoc} \subseteq Nat \ {0} /\ {MaxStatRuns, ErrCap} \subseteq Nat
  /\ IsFiniteSet(Docs)

VARIABLES
  today, statActive,            \* the date in UTC; nodes seen within 24 hours
  dailyRow,                     \* day -> [saved, ids, come, left]
  statRuns,                     \* runs of today
  offAt,                        \* saveOffStats: "off" if not asked for,
                                \* "reading" the errors, "done"
  doc,                          \* goroutine: [at, left], left being the
                                \* satellites still to save
  errChan, errClosed,           \* queued errors; close(errChan) was called
  raised, reported              \* errors that happened; that SaveStats saw

statVars == <<today, statActive, dailyRow, statRuns, offAt, doc, errChan, errClosed, raised, reported>>
offStatVars == <<offAt, doc, errChan, errClosed, raised, reported>>
dailyVars == <<today, statActive, dailyRow, statRuns>>

StatDay == 1..LastDay
NoDailyRow == [saved |-> FALSE, ids |-> {}, come |-> {}, left |-> {}]

DailyTypeOK ==
  /\ today \in StatDay /\ statActive \subseteq StatNodes /\ statRuns \in 0..MaxStatRuns
  /\ dailyRow \in [StatDay -> [saved : BOOLEAN, ids : SUBSET StatNodes,
                            come : SUBSET StatNodes, left : SUBSET StatNodes]]
  /\ offAt \in {"off", "reading", "done"}
  /\ doc \in [Docs -> [at : {"fetch", "save", "send", "done"}, left : 0..SatsInDoc]]
  /\ errChan \in 0..ErrCap /\ errClosed \in BOOLEAN
  /\ raised \in 0..(Cardinality(Docs) * SatsInDoc) /\ reported \in 0..raised

\* SaveStats(--group): the groups share nothing, and an error of one does not
\* keep the next from running; so a behaviour is the hourly runs of "daily" or
\* one of "official", whose goroutines have just been started.
StatInit ==
  /\ \/ offAt = "off" /\ statActive \in SUBSET StatNodes
     \/ offAt = "reading" /\ statActive = {}
  /\ today = 1 /\ statRuns = 0
  /\ dailyRow = [d \in StatDay |-> NoDailyRow]
  /\ doc = [k \in Docs |-> [at |-> "fetch", left |-> SatsInDoc]]
  /\ errChan = 0 /\ errClosed = FALSE /\ raised = 0 /\ reported = 0

----------------------------------------------------------------------------
Yesterday == IF today = 1 THEN NoDailyRow ELSE dailyRow[today - 1]

\* ON CONFLICT (date, kind) DO UPDATE.
\* Mutant: an earlier run's come_node_ids stay.
Upserted_ComeKept(old, new) == IF old.saved THEN [new EXCEPT !.come = old.come] ELSE new
Upserted(old, new) == new

\* One statement.  Of no active nodes array_agg makes a NULL, which node_ids
\* refuses: the statement fails and the row stays as it was.
SaveDailyStats ==
  /\ offAt = "off" /\ statRuns < MaxStatRuns
  /\ statRuns' = statRuns + 1
  /\ \/ /\ statActive = {}
        /\ UNCHANGED dailyRow
     \/ /\ statActive # {}
        /\ dailyRow' = [dailyRow EXCEPT ![today] =
             Upserted(@, [saved |-> TRUE, ids |-> statActive,
                          come |-> statActive \ Yesterday.ids,
                          left |-> Yesterday.ids \ statActive])]
  /\ UNCHANGED <<today, statActive>> /\ UNCHANGED offStatVars

StatNodesChange ==
  /\ offAt = "off"
  /\ statActive' \in (SUBSET StatNodes) \ {statActive}
  /\ UNCHANGED <<today, dailyRow, statRuns>> /\ UNCHANGED offStatVars

\* No run goes on across midnight: cron starts them at ten past.
MidnightUTC ==
  /\ offAt = "off" /\ today < LastDay
  /\ today' = today + 1 /\ statRuns' = 0
  /\ UNCHANGED <<statActive, dailyRow>> /\ UNCHANGED offStatVars

----------------------------------------------------------------------------
Tell(k, change) == doc' = [doc EXCEPT ![k] = change]
AllDone == \A k \in Docs : doc[k].at = "done"
After(left) == IF left = 0 THEN "done" ELSE "save"

\* getJSON, after up to three attempts: a document, or an error that ends the
\* goroutine once it is sent.
GetJSON(k) ==
  /\ offAt = "reading" /\ doc[k].at = "fetch"
  /\ \/ Tell(k, [doc[k] EXCEPT !.at = After(SatsInDoc)]) /\ UNCHANGED raised
     \/ Tell(k, [at |-> "send", left |-> 0]) /\ raised' = raised + 1
  /\ UNCHANGED <<offAt, errChan, errClosed, reported>> /\ UNCHANGED dailyVars

\* The row of the next satellite is inserted, or its name is malformed or the
\* statement fails: an error, and on to the next one.
SaveSatDetails(k) ==
  /\ doc[k].at = "save"
  /\ LET left == doc[k].left - 1
     IN  \/ Tell(k, [at |-> After(left), left |-> left]) /\ UNCHANGED raised
         \/ Tell(k, [at |-> "send", left |-> left]) /\ raised' = raised + 1
  /\ UNCHANGED <<offAt, errChan, errClosed, reported>> /\ UNCHANGED dailyVars

\* A send waits while the channel is full.
\* Mutant: it does not.
HasRoom_Always == TRUE
HasRoom == errChan < ErrCap

SendError(k) ==
  /\ doc[k].at = "send" /\ HasRoom
  /\ errChan' = errChan + 1
  /\ Tell(k, [doc[k] EXCEPT !.at = After(doc[k].left)])
  /\ UNCHANGED <<offAt, errClosed, raised, reported>> /\ UNCHANGED dailyVars

\* wg.Wait() returns in a goroutine of its own.
CloseErrors ==
  /\ offAt = "reading" /\ AllDone /\ ~errClosed
  /\ errClosed' = TRUE
  /\ UNCHANGED <<offAt, doc, errChan, raised, reported>> /\ UNCHANGED dailyVars

\* for err := range errChan.
\* Mutant: the wait group is waited for before the loop, not beside it.
Reading_AfterWait == offAt = "reading" /\ AllDone
Reading == offAt = "reading"

ReadError ==
  /\ Reading /\ errChan > 0
  /\ errChan' = errChan - 1 /\ reported' = reported + 1
  /\ UNCHANGED <<offAt, doc, errClosed, raised>> /\ UNCHANGED dailyVars

OffStatsEnd ==
  /\ Reading /\ errChan = 0 /\ errClosed
  /\ offAt' = "done"
  /\ UNCHANGED <<doc, errChan, errClosed, raised, reported>> /\ UNCHANGED dailyVars

StatDaily == SaveDailyStats \/ StatNodesChange \/ MidnightUTC
StatOff ==
  \/ CloseErrors \/ ReadError \/ OffStatsEnd
  \/ \E k \in Docs : GetJSON(k) \/ SaveSatDetails(k) \/ SendError(k)
StatNext == StatDaily \/ StatOff

\* Goroutines that can go on do; requests end, with an error if need be.
StatFairness == WF_statVars(StatOff)

----------------------------------------------------------------------------
\* The rows of neighbouring days tile: whoever was active yesterday, less those
\* who left, with those who came, is active today; whatever runs there were,
\* and with everybody coming anew after a day without a row.  The site draws
\* come and left as the day's change (stats.go 199-231).
DaysTile ==
  \A d \in StatDay : dailyRow[d].saved =>
    LET before == IF d = 1 THEN NoDailyRow ELSE dailyRow[d - 1]
        row == dailyRow[d]
    IN  /\ row.ids = (before.ids \ row.left) \cup row.come
        /\ row.left \subseteq before.ids /\ row.come \cap before.ids = {}

\* The fetch of the documents ends whatever fails, also when there are more
\* errors than the channel holds, and only with every error reported
\* (stats.go 352-412).
AllReported == offAt = "done" => reported = raised
OffStatsEndKnowingAll ==
  /\ offAt = "reading" ~> offAt = "done"
  /\ []AllReported
=============================================================================
