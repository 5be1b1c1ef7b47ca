------------------------------- MODULE AsInfo -------------------------------
(***************************************************************************)
(* autonomous_systems and autonomous_systems_prefixes (core/ip_types.go):  *)
(* a process that saved nodes asks a public service about each autonomous  *)
(* system whose row is a week old or missing, replaces the system's        *)
(* prefixes in two statements and stamps the row last, without a           *)
(* transaction.                                                            *)
(***************************************************************************)
EXTENDS Integers, Sequences

CONSTANTS
  AsUpdaters,      \* processes: fetch-nodes of the satellites, update-ip-types
  Prefix,
  PrefixLists,     \* the lists of prefixes the service may answer with
  MaxListChanges, MaxAsFailures

ASSUME ListsAreOfPrefixes == PrefixLists \subseteq SUBSET Prefix

VARIABLES
  asPrefixes,      \* rows of autonomous_systems_prefixes of the one system
  asRow,           \* its row of autonomous_systems: [fresh, list], list being
                   \* the answer it was written with
  asService,       \* the list the service has now
  asUpdater,       \* per process: [at, list]
  listChanges, asFailures                       \* bounded by the constants

asVars == <<asPrefixes, asRow, asService, asUpdater, listChanges, asFailures>>

AsResting == [at |-> "idle", list |-> {}]

AsTypeOK ==
  /\ asPrefixes \subseteq Prefix
  /\ asRow \in [fresh : BOOLEAN, list : PrefixLists]
  /\ asService \in PrefixLists
  /\ asUpdater \in [AsUpdaters -> [at : {"idle", "fetch", "insert", "delete", "stamp"},
                                   list : PrefixLists \cup {{}}]]

AsInit ==
  /\ asPrefixes = {}
  /\ asService \in PrefixLists
  /\ asRow = [fresh |-> FALSE, list |-> asService]
  /\ asUpdater = [u \in AsUpdaters |-> AsResting]
  /\ listChanges = 0 /\ asFailures = 0

----------------------------------------------------------------------------
AsAt(u, label) == asUpdater[u].at = label
AsGoto(u, label) == asUpdater' = [asUpdater EXCEPT ![u].at = label]
AsFinish(u) == asUpdater' = [asUpdater EXCEPT ![u] = AsResting]

\* The three statements in the order of the code.
\* Mutant: the row is stamped before the prefixes are replaced.
Statements_StampFirst == <<"stamp", "insert", "delete">>
Statements == <<"insert", "delete", "stamp">>

\* Statement i is executed, and the process goes on to the next one.
Execute(u, i) ==
  /\ AsAt(u, Statements[i])
  /\ IF i = Len(Statements) THEN AsFinish(u) ELSE AsGoto(u, Statements[i + 1])
Executes(u, name) == \E i \in DOMAIN Statements : Statements[i] = name /\ Execute(u, i)

AsOutside == UNCHANGED <<asService, listChanges, asFailures>>

\* The row is missing or older than 7 days.
AsLookUp(u) ==
  /\ AsAt(u, "idle") /\ ~asRow.fresh
  /\ AsGoto(u, "fetch")
  /\ UNCHANGED <<asPrefixes, asRow>> /\ AsOutside

FetchASInfo(u) ==
  /\ AsAt(u, "fetch")
  /\ asUpdater' = [asUpdater EXCEPT ![u] = [at |-> Head(Statements), list |-> asService]]
  /\ UNCHANGED <<asPrefixes, asRow>> /\ AsOutside

\* INSERT .. ON CONFLICT DO UPDATE of all prefixes of the answer.
InsertPrefixes(u) ==
  /\ Executes(u, "insert")
  /\ asPrefixes' = asPrefixes \cup asUpdater[u].list
  /\ UNCHANGED asRow /\ AsOutside

\* DELETE .. prefix NOT IN (the answer's): for an empty answer the list is
\* NULL and nothing is deleted.
DeleteOthers(u) ==
  /\ Executes(u, "delete")
  /\ asPrefixes' = IF asUpdater[u].list = {} THEN asPrefixes
                   ELSE asPrefixes \cap asUpdater[u].list
  /\ UNCHANGED asRow /\ AsOutside

StampAS(u) ==
  /\ Executes(u, "stamp")
  /\ asRow' = [fresh |-> TRUE, list |-> asUpdater[u].list]
  /\ UNCHANGED asPrefixes /\ AsOutside

\* The request or a statement fails, or the process dies between two of them.
AsFails(u) ==
  /\ asFailures < MaxAsFailures /\ ~AsAt(u, "idle")
  /\ AsFinish(u)
  /\ asFailures' = asFailures + 1
  /\ UNCHANGED <<asPrefixes, asRow, asService, listChanges>>

AsGrowsOld ==
  /\ asRow.fresh /\ asRow' = [asRow EXCEPT !.fresh = FALSE]
  /\ UNCHANGED <<asPrefixes, asUpdater>> /\ AsOutside

\* The service's list changes (a matter of months).  It is taken not to change
\* during the seconds of an update: if it did, the statements of two overlapping
\* updates could interleave into the common part of both lists, stamped fresh.
ListChanges ==
  /\ listChanges < MaxListChanges
  /\ \A u \in AsUpdaters : AsAt(u, "idle")
  /\ asService' \in PrefixLists \ {asService}
  /\ listChanges' = listChanges + 1
  /\ UNCHANGED <<asPrefixes, asRow, asUpdater, asFailures>>

AsProceed(u) ==
  \/ AsLookUp(u) \/ FetchASInfo(u) \/ InsertPrefixes(u) \/ DeleteOthers(u) \/ StampAS(u)

AsNext ==
  \/ \E u \in AsUpdaters : AsProceed(u) \/ AsFails(u)
  \/ AsGrowsOld \/ ListChanges

----------------------------------------------------------------------------
\* A system that counts as known for a week has exactly the prefixes of the
\* answer it was stamped with (an empty answer keeps the old ones), although
\* they are replaced in two statements, a process may die after either and
\* another one may be in the middle of its own: the stamp comes last
\* (ip_types.go 38-52).
StampedIsComplete ==
  asRow.fresh /\ asRow.list # {} => asPrefixes = asRow.list
=============================================================================
