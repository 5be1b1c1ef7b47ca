------------------------------ MODULE Partitions ------------------------------
(***************************************************************************)
(* The nightly move of old rows of user_nodes_history from its default     *)
(* partition into archive partitions (optimizer/db.go), beside the saver   *)
(* of the updater and the site, which write and read the same rows through *)
(* the parent table.  PostgreSQL is modelled from how the code uses it: table locks   *)
(* held to the end of a transaction, rows routed by the partitions' ranges,*)
(* a deadlock ended by failing one of the two.                             *)
(***************************************************************************)
EXTENDS Integers, FiniteSets, Sequences, FiniteSetsExt

CONSTANTS Months,       \* partitionDurationMonths, in days of the model
          MaxDay,       \* bound of the model: days 0..MaxDay
          MaxSaves,     \* bound of the model: saves of a day's row
          MaxReads,     \* bound of the model: queries of the site
          MaxAborts     \* bound of the model: failed transactions

ASSUME PartitionsAssumption ==
    Months \in Nat \ {0} /\ {MaxDay, MaxSaves, MaxReads, MaxAborts} \subseteq Nat

Dates == 0..MaxDay

VARIABLES clock,       \* in half days: the hour after midnight, and the rest
          current,     \* the default partition: saves of a day's row, 0: none
          archives,    \* the others, oldest first: [start, end, rows]
          mover,       \* the optimizer
          pingSaver,   \* the updater's transaction
          reader,      \* a query of the site: "rest", or "planned" when it has
                       \* the parent's lock
          reads,
          truth,       \* ghost: saves ever committed
          aborts

readVars == <<reader, reads>>
partVars == <<clock, current, archives, mover, pingSaver, readVars, truth, aborts>>

NoRows == [d \in Dates |-> 0]
Resting == [at |-> "rest"]

PartInit ==
    /\ clock = 0
    /\ current = NoRows /\ archives = <<>>
    /\ mover = Resting /\ pingSaver = Resting
    /\ reader = "rest" /\ reads = 0
    /\ truth = NoRows /\ aborts = 0

Today == clock \div 2

PartTick ==
    /\ clock < 2 * MaxDay + 1
    /\ pingSaver # Resting => (clock + 1) \div 2 <= pingSaver.date + 1
    /\ clock' = clock + 1
    /\ UNCHANGED <<current, archives, mover, pingSaver, truth, aborts, readVars>>

-----------------------------------------------------------------------------
(* The saver: a statement on the parent takes its lock, and then that of   *)
(* the partition the row is routed to.  A ping is saved within a day.      *)

Covers(a, d) == a.start <= d /\ d < a.end
Archive(d) == {i \in DOMAIN archives : Covers(archives[i], d)}

MoverHolds(lock) ==
    \/ lock = "parent" /\ mover.at \in {"locked", "copied"}
    \/ lock = "last" /\ mover.at \in {"renamed", "locked", "copied"}

BeginPings(d) ==
    /\ pingSaver = Resting
    /\ d \in {Today - 1, Today} /\ truth[d] < MaxSaves
    /\ ~MoverHolds("parent")
    /\ pingSaver' = [at |-> "routed", date |-> d]
    /\ UNCHANGED <<clock, current, archives, mover, truth, aborts, readVars>>

WaitsForLast(d) == Len(archives) \in Archive(d) /\ MoverHolds("last")

CommitPings ==
    LET d == pingSaver.date
    IN  /\ pingSaver.at = "routed"
        /\ ~WaitsForLast(d)
        /\ IF Archive(d) = {}
             THEN /\ current' = [current EXCEPT ![d] = @ + 1]
                  /\ UNCHANGED archives
             ELSE \E i \in Archive(d) :
                    /\ archives' = [archives EXCEPT ![i].rows[d] = @ + 1]
                    /\ UNCHANGED current
        /\ truth' = [truth EXCEPT ![d] = @ + 1]
        /\ pingSaver' = Resting
        /\ UNCHANGED <<clock, mover, aborts, readVars>>

-----------------------------------------------------------------------------
(* A query of the history for some days: it takes the parent's lock and    *)
(* then those of the partitions of its days, the last archive among them   *)
(* (others would not meet the mover).                                      *)

LastTaken == MoverHolds("last") /\ mover.to.attached

BeginRead ==
    /\ reader = "rest" /\ reads < MaxReads /\ archives # <<>>
    /\ ~MoverHolds("parent")
    /\ reader' = "planned" /\ reads' = reads + 1
    /\ UNCHANGED <<clock, current, archives, mover, pingSaver, truth, aborts>>

EndRead ==
    /\ reader = "planned" /\ ~LastTaken
    /\ reader' = "rest"
    /\ UNCHANGED <<clock, current, archives, mover, pingSaver, truth, aborts, reads>>

-----------------------------------------------------------------------------
(* The optimizer.                                                          *)

TruncMonthDown(d) == (d \div Months) * Months
MaxEndDate(a) == TruncMonthDown(a.start) + Months
IsFull(a) == a.end >= MaxEndDate(a)
DateMin(a, b) == IF a < b THEN a ELSE b

(* Days that ended more than an hour ago.                                  *)
ArchiveEnd == (clock - 1) \div 2
InCurrent == {d \in Dates : current[d] > 0}

(* Mutant: a full partition is extended.                                   *)
Target_NeverNew ==
    IF archives = <<>>
      THEN [start |-> TruncMonthDown(Min(InCurrent)), attached |-> FALSE]
      ELSE [start |-> archives[Len(archives)].start, attached |-> TRUE]

(* The archive to move rows to: the last one, or a new one after it.       *)
Target ==
    IF archives = <<>>
      THEN [start |-> TruncMonthDown(Min(InCurrent)), attached |-> FALSE]
    ELSE LET last == archives[Len(archives)]
         IN  IF IsFull(last) THEN [start |-> last.end, attached |-> FALSE]
             ELSE [start |-> last.start, attached |-> TRUE]

NewEnd(start) ==
    DateMin(ArchiveEnd, MaxEndDate([start |-> start]))

(* The names of the partitions and the oldest date are read beforehand,    *)
(* without a transaction; nothing else changes partitions.  The archive is *)
(* created or renamed, which locks it, before the parent is locked.        *)
Rename ==
    /\ mover = Resting
    /\ InCurrent # {} /\ Min(InCurrent) < ArchiveEnd
    /\ ~(pingSaver.at = "routed" /\ Len(archives) \in Archive(pingSaver.date)
         /\ Target.attached)
    /\ mover' = [at |-> "renamed", to |-> Target, end |-> NewEnd(Target.start)]
    /\ UNCHANGED <<clock, current, archives, pingSaver, truth, aborts, readVars>>

LockParent ==
    /\ mover.at = "renamed"
    /\ pingSaver = Resting /\ reader = "rest"
    /\ mover' = [mover EXCEPT !.at = "locked"]
    /\ UNCHANGED <<clock, current, archives, pingSaver, truth, aborts, readVars>>

InRange(d) == mover.to.start <= d /\ d < mover.end

(* Mutant: the parent is not locked while rows are copied.                 *)
CopyRows_Unlocked ==
    /\ mover.at = "renamed"
    /\ mover' = [at |-> "copied", to |-> mover.to, end |-> mover.end,
                 rows |-> [d \in Dates |-> IF InRange(d) THEN current[d] ELSE 0]]
    /\ UNCHANGED <<clock, current, archives, pingSaver, truth, aborts, readVars>>

CopyRows ==
    /\ mover.at = "locked"
    /\ mover' = [at |-> "copied", to |-> mover.to, end |-> mover.end,
                 rows |-> [d \in Dates |-> IF InRange(d) THEN current[d] ELSE 0]]
    /\ UNCHANGED <<clock, current, archives, pingSaver, truth, aborts, readVars>>

(* The copied rows are deleted, the archive is attached with its new range,*)
(* and all of it is committed; a row it already had stays.                 *)
DeleteAndAttach ==
    /\ mover.at = "copied"
    /\ current' = [d \in Dates |-> IF InRange(d) THEN 0 ELSE current[d]]
    /\ archives' =
         LET n == Len(archives)
         IN  IF mover.to.attached
             THEN [archives EXCEPT
                     ![n].end = mover.end,
                     ![n].rows = [d \in Dates |-> @[d] + mover.rows[d]]]
             ELSE Append(archives, [start |-> mover.to.start, end |-> mover.end,
                                    rows |-> mover.rows])
    /\ mover' = Resting
    /\ UNCHANGED <<clock, pingSaver, truth, aborts, readVars>>

(* A transaction fails, be it as the victim of a deadlock: the mover has   *)
(* the archive and waits for the parent, which a reader has while it waits *)
(* for the archive.  (A saver is not that late: what it writes is later    *)
(* than the archive that the mover extends.)                               *)
Deadlocked == mover.at = "renamed" /\ mover.to.attached /\ reader = "planned"

MoverAborts ==
    /\ mover # Resting
    /\ aborts < MaxAborts \/ Deadlocked
    /\ aborts' = IF Deadlocked THEN aborts ELSE aborts + 1
    /\ mover' = Resting
    /\ UNCHANGED <<clock, current, archives, pingSaver, truth, readVars>>

ReaderAborts ==
    /\ Deadlocked /\ reader' = "rest"
    /\ UNCHANGED <<clock, current, archives, mover, pingSaver, truth, aborts, reads>>

SaverAborts ==
    /\ pingSaver # Resting
    /\ aborts < MaxAborts
    /\ aborts' = aborts + 1
    /\ pingSaver' = Resting
    /\ UNCHANGED <<clock, current, archives, mover, truth, readVars>>

MoverStep == Rename \/ LockParent \/ CopyRows \/ DeleteAndAttach
BreakDeadlock == Deadlocked /\ (MoverAborts \/ ReaderAborts)

PartNext ==
    \/ PartTick
    \/ \E d \in Dates : BeginPings(d)
    \/ CommitPings
    \/ BeginRead \/ EndRead
    \/ MoverStep
    \/ MoverAborts \/ ReaderAborts \/ SaverAborts

(* cron starts the optimizer every night; the database serves the waiting  *)
(* in turn and ends deadlocks.  The optimizer gets the parent's lock in    *)
(* spite of a saver that asks for it again and again, and is not the victim*)
(* of a deadlock every time (MaxReads).                                    *)
PartFairness ==
    /\ WF_partVars(PartTick)
    /\ SF_partVars(MoverStep)
    /\ WF_partVars(CommitPings)
    /\ SF_partVars(EndRead)
    /\ WF_partVars(BreakDeadlock)
-----------------------------------------------------------------------------
(* Every row is in exactly one partition, the one whose range has its date,*)
(* with all that was ever saved to it: no save is lost or counted twice by *)
(* a move, however it meets the saver.                                     *)
RowsInOnePlace ==
    \A d \in Dates :
      /\ Archive(d) # {} => current[d] = 0
      /\ \A i \in DOMAIN archives \ Archive(d) : archives[i].rows[d] = 0
      /\ truth[d] = IF Archive(d) = {} THEN current[d]
                    ELSE archives[CHOOSE i \in Archive(d) : TRUE].rows[d]

(* The archives follow each other without gap or overlap, none crosses the *)
(* end of its period, and all but the last are full.                       *)
ArchivesTile ==
    \A i \in DOMAIN archives :
      /\ archives[i].start < archives[i].end
      /\ archives[i].end <= MaxEndDate(archives[i])
      /\ i < Len(archives) => /\ IsFull(archives[i])
                              /\ archives[i].end = archives[i + 1].start

(* The two together: a day's rows are all in the one partition that a      *)
(* query for the day reads, after any number of moves (db.go 148-200).     *)
PartitionsTile == RowsInOnePlace /\ ArchivesTile

(* A row of a past day does not stay in the default partition for ever,    *)
(* also when nights were missed and several periods have to be caught up.  *)
OldRowsArchived ==
    \A d \in Dates : (truth[d] > 0 /\ d < MaxDay) ~> current[d] = 0
=============================================================================
