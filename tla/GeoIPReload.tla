----------------------------- MODULE GeoIPReload -----------------------------
(***************************************************************************)
(* A GeoIP database that a running process follows (utils/db.go,           *)
(* GeoIPConn): every minute it looks at the file's modification time and   *)
(* opens the file anew if that is later than the one it remembers.  The    *)
(* file is replaced once a week by a script that downloads beside it and   *)
(* then renames (scripts/geoip_db_load.sh), so a file's modification time  *)
(* is when its download ended.                                             *)
(***************************************************************************)
EXTENDS Integers

CONSTANTS
  MaxDownloads,      \* bound of the model
  MaxOpenFailures    \* bound of the model

ASSUME GeoAssumption == {MaxDownloads, MaxOpenFailures} \subseteq Nat

VARIABLES
  geoClock,
  geoFile,           \* the download that is installed: when it ended
  geoTmp,            \* the one that is not yet, 0 if there is none
  geoServed,         \* the one lookups use: what value holds
  lastModTime,
  geoStat,           \* reopenIfUpdated between os.Stat and Open: the time
                     \* read, 0 when it is not running
  openFailures

geoVars == <<geoClock, geoFile, geoTmp, geoServed, lastModTime, geoStat, openFailures>>

GeoTime == 0..(2 * MaxDownloads + 1)
GeoTypeOK ==
  /\ {geoClock, geoFile, geoTmp, lastModTime, geoStat} \subseteq GeoTime
  /\ geoServed \in GeoTime /\ openFailures \in 0..MaxOpenFailures

\* OpenGeoIPConn: without a database that opens the process does not start.
GeoInit ==
  /\ geoClock = 1 /\ geoFile = 1 /\ geoTmp = 0
  /\ geoServed = 1 /\ lastModTime = 1 /\ geoStat = 0 /\ openFailures = 0

\* The script: a download takes time, and so may the rename after it.
Download ==
  /\ geoTmp = 0 /\ geoClock < 2 * MaxDownloads
  /\ geoClock' = geoClock + 1 /\ geoTmp' = geoClock + 1
  /\ UNCHANGED <<geoFile, geoServed, lastModTime, geoStat, openFailures>>

Install ==
  /\ geoTmp # 0
  /\ geoFile' = geoTmp /\ geoTmp' = 0 /\ geoClock' = geoClock + 1
  /\ UNCHANGED <<geoServed, lastModTime, geoStat, openFailures>>

StatFile ==
  /\ geoStat = 0
  /\ geoStat' = IF geoFile > lastModTime THEN geoFile ELSE 0
  /\ UNCHANGED <<geoClock, geoFile, geoTmp, geoServed, lastModTime, openFailures>>

\* What is remembered of the file just opened, which may be a later one than
\* the one looked at.
\* Mutant: the time of opening it.
Remembered_Now == geoClock
Remembered == geoStat

Reopen ==
  /\ geoStat # 0
  /\ geoServed' = geoFile /\ lastModTime' = Remembered /\ geoStat' = 0
  /\ UNCHANGED <<geoClock, geoFile, geoTmp, openFailures>>

\* The old one stays in use, and the next minute tries again.
ReopenFails ==
  /\ geoStat # 0 /\ openFailures < MaxOpenFailures
  /\ openFailures' = openFailures + 1 /\ geoStat' = 0
  /\ UNCHANGED <<geoClock, geoFile, geoTmp, geoServed, lastModTime>>

GeoNext == Download \/ Install \/ StatFile \/ Reopen \/ ReopenFails

\* The loop goes on every minute; opening does not fail for ever (bounded).
GeoFairness == WF_geoVars(StatFile) /\ WF_geoVars(Reopen)

----------------------------------------------------------------------------
\* The file that is installed is served in the end: once it is no longer
\* replaced, also when it replaced another between the look at the time and the
\* opening and when opening failed for a while (db.go 93-141).
NewestIsServed == []<>(geoServed = geoFile)
=============================================================================
