# Verification of storjnet-info in TLA+

storjnet-info is a site about the Storj network together with the processes
that fill its database: daemons that ping and dial nodes, minutely and daily
jobs that fetch nodes, transactions and versions, and proxies through which
nodes are reached from other machines. The specifications here are translated
from the Go source (and, where the stored numbers are read, from the frontend).

* [Inventory](#inventory) – the parts of the system, their state, how they
  interact, what is hard about them
* [Modules](#modules) – which module models what, and how it maps to the code
* [Runs](#runs) – what TLC checks, with which bounds and why they suffice
* [Proofs](#proofs) – what TLAPS proves, and along which argument
* [Findings](#findings)
* [What is not modelled](#what-is-not-modelled) and what is [left to do](#plan)

`PROJECT.json` lists the same in machine-readable form: components, runs,
the mutant that shows each property to be falsifiable, the lines behind each
definition, hazards and theorems.

## Inventory

One binary (`src/main.go`) with a subcommand per process. The processes share a
PostgreSQL database and nothing else, except that those that ping may use the
same ping proxy.

| Part | State | Operations | Correct when |
|---|---|---|---|
| **Updater** (`updater/updater.go`, daemon `update`) | rows of `user_nodes`, `user_nodes_history`; four bounded buffers between goroutines | claim due rows, ping, save in chunks of 16, switch off long-dead nodes, exit on any error | no claimed row is forgotten or saved twice; the history tells what was measured, in the minute it was measured; the user's edits win |
| **Prober** (`nodes/prober.go`, daemon `probe-nodes`) | rows of `nodes` (`checked_at`, `tcp_updated_at`, ...); the same four buffers | claim, dial over TCP and QUIC, drop unreachable nodes, save in chunks | as the updater; no due node is starved |
| **SimpleWorker, SaveChunked** (`utils/worker.go`, `utils/db.go`) | an error channel; the slice of collected items | report the first error; write a chunk per transaction | a failure is always seen by the main goroutine |
| **Satellites** (`utils/storjutils/storjutils.go`) | the UDP client's `lastRequestID` | dial and ping locally, through the UDP or the HTTP proxy | a call returns the answer to that call, or an error in finite time |
| **UDP ping proxy** (`utils/storjutils/ping_proxy.go`) | the last 64 request IDs | receive, deduplicate, ping in a goroutine, answer three times | copies are executed once; a request is not taken for another's copy |
| **HTTP ping proxy** (same file) | none | ping for a POST | – |
| **User nodes API** (`server/handlers.go`, `core/nodes.go`) | `user_nodes` | set, delete, list, read history whole or as bytes | see UserPings, PingCodec |
| **Other pages** (`server/`) | none of their own | queries, rendering, charts of counts and of countries | a chart's numbers are those of the rows, in their hours |
| **Users, sessions** (`core/users.go`) | `users` | register, log in | single statements |
| **Version checks** (`versions/`, `core/versions.go`, `core/appconfig.go`, `tgbot/`) | `versions`, `appconfig` (list of Telegram subscribers) | minutely check of two sources (version.storj.io, GitHub), notify, subscribe, unsubscribe | every change is announced to whoever is subscribed; a release once |
| **Transactions** (`transactions/transactions.go`) | `storj_token_transactions`, `..._tx_summaries` | fetch pages from the last known block on, classify, sum per hour of a day | no transfer is skipped where pages or runs meet; sums agree with the transfers |
| **Optimizer** (`optimizer/db.go`) | partitions of `user_nodes_history` | move old rows into sorted partitions of half a year | no save is lost or counted twice by a move; every old row is moved at last |
| **Nodes fetcher** (`nodes/fetcher.go`) | `nodes` | a process per satellite upserts the list of nodes it is offered; three commands of `scripts/update_ip_types` walk over all nodes | a deadlock over nodes they know fails nothing that was written; a walk passes over no node, but for ties |
| **Node statistics** (`nodes/stats.go`) | `node_stats`, `node_daily_stats`, `off_node_stats` | hourly and daily aggregates; concurrent fetch of the official documents | a row's columns agree; days tile; one failing document costs neither the others nor an error |
| **Location snapshots** (`nodes/loc_snap.go`) | append-only file | append a snapshot, read them back | whatever was appended before a torn record is read back |
| **IP companies** (`core/ip_companies.go`, `core/ip_types.go`) | `network_companies`, `network_company_unknown_ips`, `autonomous_systems` and their prefixes | merge the network of an address, replace the prefixes of a system | doubles do not pile up, a known address stays covered; a stamped system has the prefixes of one answer; ranges are the prefix's |
| **GeoIP** (`utils/db.go`) | open database file | reopen when the file changed | the newest file is used at last |
| **Frontend** (`www/src`) | – | draw the pings | what is drawn is what was stored |

### How they interact

* Inside a probing daemon: `loader --inChan--> 32 or 64 workers --outChan-->
  forwarder --chanI--> SaveChunked`. Each goroutine reports its end through the
  `SimpleWorker` of its part; the main goroutine polls these once a second and
  returns the first error, which ends the process; systemd starts it again.
* Between processes: rows. The loader stamps the rows it claims
  (`last_pinged_at`, `checked_at`) in a transaction of its own, so a row is
  claimed *before* the work is done, and the stamp is all that brings a lost
  row back. Users edit and delete rows at the same time.
* Jobs of cron meet in the database only: the optimizer's moves and the
  updater's saves at the locks of partitions; the fetchers, the prober and the
  scripts at rows of `nodes`; any job at its own last run, where that is still
  under way.
* From outside: Etherscan, GitHub, ipinfo, the satellites and the GeoIP download
  give one answer at one time and another one at the next; between asking and
  writing down, another process may have done the same.
* To the network: every UDP packet is sent three times; the proxy deduplicates
  by a counter that each client process starts at 1.

### What is hard

1. Handovers between goroutines with bounded buffers, where one part may fail
   while the others go on (partial failure, everyone waiting on everyone).
2. A claim that commits before the work (what a crash costs, what may be
   skipped, whether a row may starve).
3. Results that are late and out of order when they are saved (around
   midnight, after an edit, after a deletion, next to an older failure).
4. Lossy, reordering, duplicating transport with a deduplication window, port
   reuse and restarts.
5. Small numeric encodings shared by three programs (Go saver, Go handler,
   JavaScript chart), and numbers cut into slots, pages, days and prefixes.
6. Jobs that read, ask and write in several statements without a transaction
   (companies, systems, versions), so that two of them interleave and each may
   die in between; and jobs with one, that wait for each other's locks.
7. Pages cut at a stamp or a block that more rows share than fit.

## Modules

```
ProbeService            what a probing daemon promises (abstract)
  ^ refinement (checked, and proved)
ProbePipeline           the goroutines, channels, failures, restarts
  MCProbePipeline         instances for TLC
  ProbePipeline_proofs    theorems
UserPings               rows and history of users' nodes (EXTENDS PingCodec)
  UserPings_proofs        theorems
UdpPingProxy            pinging through the UDP proxy
  UdpPingProxy_proofs     theorems

MCDatabaseJobs          commands that meet in the database; a behaviour is one
  Transactions            fetch-transactions: pages, daily sums
  Partitions              optimize-db beside the updater's saver and the site
  NodeOffers              fetch-nodes: row locks, beside the prober and scripts
  NodeProbes              probe-nodes: which nodes are due, what a save stamps
  DailyStats              stat-nodes: days, and the official documents
  DatabaseJobs_proofs     theorems about the five, and what the composition
                          keeps of them

MCOutsideWorld          commands that follow an outside source; a behaviour is one
  VersionChecks           check-versions and the bot's subscriptions
  AsInfo                  prefixes of a system, replaced by several processes
  NodeScans               update-ip-types: walks over all nodes
  OutsideWorld_proofs     theorems about the three, and about the composition

MCSharedTables          what processes do to tables and a file behind each
                        other's back; a behaviour is one
  ClaimRotation           which rows a loader claims
  IpCompanies             companies of addresses, merged by several processes
  GeoIPReload             the database file the site's process follows
  SharedTables_proofs     theorems about the three, and about the composition

MCAlgorithms            pure parts; an initial state per input
  PingCodec               the number a ping is stored as
  NodeStats               the fifteen columns of a row of node_stats
  SiteCharts              what two handlers compute from such rows
  IpNetwork               first and last address of a prefix
  LocSnap                 the file of location snapshots
  Algorithms_proofs       theorems about these five

CommonLemmas            channels as sequences, least and greatest elements,
                        induction up to a bound, iteration and sums over sets,
                        for all the proof modules
```

The modules under an `MC...` one share no variable: the commands are programs
of their own, and the composition only chooses which of them a behaviour is
about, so that related questions are one run. The fairness of each module is
restated there for the command that runs.

**ProbePipeline** (`updater.go` and `prober.go`, which are built alike, and
`SaveChunked`). One variable per place a job can be: `held` (the loader's
slice), `inChan`, `hand` (a worker), `outChan`, `fwd` (the goroutine that
converts results to `interface{}`), `chanI`, `items` (SaveChunked's slice); and
the ledger `saved`, `dropped`, `lost`. `errs` is the set of parts whose error
channel is filled. Actions are the blocking operations, in the code's order:
`Claim` (one transaction), `Push` (a send), `Take`, `Probe`, `Deliver`,
`Receive`, `Forward`, `Collect`, `Save`. Failures: `ClaimFails(k)` (k > 0: the
commit went through and its answer was lost), `SaveFails(committed)` likewise,
`Start` with the satellites' set-up failed (`errs = {"pinger"}`), `Kill`.
`Poll` is the main goroutine's loop. The two daemons differ in `DropFailures`:
the prober does not pass unreachable nodes on. A worker that cannot deliver
keeps its job, and so on back to the loader – that is how a failed saver makes
everything block until `Poll` ends the process.

**ProbeService** keeps only the counters of jobs claimed, open, saved, dropped
and lost. Its promise is in what it lacks: `Save` writes whole chunks of open
jobs, and only `Fail` loses any, at the price of `healthy`. The refinement maps
`healthy` to `up /\ errs = {}` and `open` to `InMemory`.

**ClaimRotation** abstracts the table to its set of rows and the order of their
stamps (`stamped`, `older`), and asks what `ORDER BY stamp ASC NULLS FIRST LIMIT
n` does to a due row while others become due over and over, come and go. Rows of
one chunk get equal stamps and new rows have none, so among these any may come
first: `Chunks` are all the sets that the query may return. The ghost `passed`
has, for each due row, the rows claimed since it became due. The module does not
model the process's failures: a lost chunk has new stamps like a finished one.

**PingCodec** is the arithmetic: `hint * 2000 + v` in slot `minute + 1`, the
clamp, the byte form of `HandleAPIUserNodePings`, and what `pings_chart.js`
makes of either. What is to survive the way from the measurement to the chart is
stated here part by part (`FitsTheColumn`, `OutcomeSurvives`, `TimeSurvives`,
`DurationSurvives`): `MCAlgorithms!PingSurvives` checks it, `PingIsKeptAlways`
proves it. The chart's clock counts milliseconds (`SecondLen` to a second), and
`FullTime` is what the code adds to it: the number of seconds, not converted. So
a point is in the minute of its ping and never later than it (`TimeSurvives`),
which is all the code makes true: it is not where `pings_chart.js` 41 has it (see
[Findings](#findings)).

**UserPings** is about *what* is written rather than how it travels: the
pipeline is a log of pings, each at a stage; `PickUp` takes the stamp (the time
of the ping, not of the claim); `Save` writes a chunk in any order of its items
(workers deliver in any order), each first to the row (`SaveOk`, `SaveFailed`
with the automatic switch-off) and then to the history. `SetUserNode` and
`DelUserNode` are the API's upsert and delete. `Restart` loses what was not
saved. The modes 'dial' and 'ping' are one:
the updater probes both, and 'dial' only leaves out the ping after the dial.

**UdpPingProxy** has the clients' counters, the proxy's `lastRequestIDs`, a
log of calls with their outcomes, and the copies on the wire per call and
direction. `Ask` opens a socket on a port no open socket has and sends
`Copies`; the first packet to arrive decides (`Read`), `Expire` is the
deadline. `Accept`/`Discard` are the two ways through the proxy's loop;
`Respond` the goroutine it starts. Packets are lost (`LoseRequest`,
`LoseAnswer`, bounded), arrive in any order and arbitrarily late, and reach
whatever socket has the port by then. Packets that fail to parse are not
modelled: our clients send none. The XOR mask and the endpoint prefix of a
packet are an encoding that nothing here depends on.

**Transactions** (`transactions/transactions.go`). `run` is the process:
`RequestPage`, `InsertPage` (one transaction), then `ChooseStart` and
`UpdateDay` (one transaction per day) until `EndRun`; `RunFails` anywhere.
`List(t)` is Etherscan learning of a transfer, by one block late at most, which
is what the code's "from the last block less one" allows for: a transfer listed
later than that is never fetched. The ghost `counted` is what was stored when a
day was first summed, because a day is summed again until the next one has been:
a transfer of a day that is listed after that is in the table and in no
summary. The hour's rows are a UNION, which drops a row equal to another; a
transfer at midnight sharp is in no withdrawal. All of that is in the model, and
`PayoutsAddUp` states its exceptions.

**Partitions** (`optimizer/db.go`). The default partition and the archives hold
per day a number of saves. `BeginPings` and `CommitPings` are the updater's
transaction, with the locks of the parent and of the partition a row is routed
to; `Rename`, `LockParent`, `CopyRows`, `DeleteAndAttach` are the move, in the
order in which the code takes its locks. `BeginRead` and `EndRead` are a query of
the site (`LoadSatNodes`), which takes the parent's lock first and then those of
the partitions, the other way round than a mover that renames an archive
(`LastTaken`): `Deadlocked` is the two waiting for each other, `MoverAborts` and
`ReaderAborts` end it. The saver takes its locks in the reader's order, but never
meets the archive that is extended: a save happens within a day of its ping (a
later one would need a pipeline that lags for a day), and an archive that is
extended covers only days before yesterday.

**NodeOffers** (`saveLimits` in `nodes/fetcher.go`). Lists of nodes in the
satellite's order; the rows that exist locked first (`LockRow`), in any order,
because the SELECT names none and PostgreSQL locks as the plan comes to the rows
(`Orders`); then all upserted in the list's (`UpsertNode`). `Others` are the transactions of the
prober and of `fill-node-asns`, which lock rows in any order. The stamp of the
last offer is the time of the transaction's start, so it may go back by the time
a lock was waited for; stamps are not in this module.

**NodeProbes** (`nodes/prober.go` without its goroutines). The loader's query by
`checked_at` with NULLs first and its limit (`LoadOldNodes`), dials with an
outcome per transport, and the save of a chunk. Time is the age of three stamps,
as far as the query tells them apart, and `checkedBefore`, the order of the
stamps `checked_at`; the pipeline is taken to lag by less than
the eight minutes between two checks of a node.

**DailyStats** (`nodes/stats.go`). Runs of a day upsert its row against
yesterday's; beside that the goroutines of the official documents, whose errors
go through a channel (`SendError`), closed by a goroutine of its own
(`CloseErrors`) while the loop reads (`ReadError`).

**VersionChecks** (`versions/`, `core/versions.go`, `tgbot/`). A check is a
process that goes through both sources: previous row, current answer,
subscribers, messages one by one, and only then the row. Two may run at once,
and each may fail anywhere. `SendMessage` is one try: the message may be lost, or
arrive and only the answer be lost, and then it is tried again; after the third
try the chat is passed over, and the version will be saved all the same. `owed`
is the ghost that says who must hear of what, `givenUp` who missed all three
tries of it, `unsure` who got one of which the process does not know.

**IpCompanies** (`core/ip_companies.go`) has an action per statement: the two
lookups, the request, and either the removal and the note of an unknown address,
or the read of intersecting rows and one update or delete per row. **AsInfo**
(`core/ip_types.go`) likewise: insert, delete, stamp. The list of a system is
taken not to change during the seconds of an update. **NodeScans**
(`scripts/update_ip_types`) has the three walks over `nodes` by the stamp of the
last offer, while offers renew stamps. The queries also want an `updated_at` of
the last days: `active` are the nodes that have one, and they change under the
walk (`NodeAnswers`, `NodeGrowsOld`). A page is cut after its last stamp, and
what is cut off of the nodes with that stamp is passed over – the whole of an
offer has one stamp. That stamp is the beginning of the offer's transaction, which
may end after others that began later, so `OfferNodes` may set any: `late` are
the nodes whose stamp the walk had passed when it was saved. `fill-node-asns`
locks its rows (`FOR UPDATE`): it sees the nodes (`ReadNodes`), and gets those of
them that still qualify as they are when they are locked (`FillNodeASNs`), so that
the next page starts after a stamp that may be later than some not yet read. **GeoIPReload** (`utils/db.go` and
`scripts/geoip_db_load.sh`): look at the time, open, remember; download, rename.

**NodeStats** is the SQL of `saveNodeStats` as set expressions, column by column.
**SiteCharts** is `FindCountFor`, the quickselect of the largest countries and
the two handlers' loops; it also has what the code does at its edges: `prevStamp`
is never set, so no row is left out; fewer than 15 countries in a row panic the
handler (the inputs have enough); counts are sent modulo 65536. Left out: the
parsing of the column by hand, and the buffer of names, computed for codes of
three letters, though `<unknown>` has nine. **IpNetwork** computes the last
address of a prefix; a prefix of full length indexes past the end, a panic.
**LocSnap** codes longitude and latitude in 16 bits each (180 and 90 degrees
wrap to 0), and its reader searches for the next prefix after a torn record;
one torn at the end of the file makes it panic.

## Runs

Every property has a mutant (a plausible mistake in one definition) under
which the very same run finds it violated; the mutants are next to the
definitions they replace, marked `Mutant:`.

| Run | Question | Bounds | Result |
|---|---|---|---|
| `pipeline` (MCPipeline.cfg) | Is each job at one place, in order, and is the pipeline a ProbeService, whatever fails when? `TypeOK OnePlace PickedUpInOrder ServiceSpec` | 2 workers (interchangeable, hence symmetry), channels of 1, chunks of 2, 6 jobs | holds, ~130,000 states |
| `pipeline_backlog` | How many rows can one failure cost, and is every job settled at last? `LossIsBounded JobsSettle` | 1 worker, channels of 1, chunks of 2, so that one may stay incomplete, 10 jobs: two more than fit in memory, so that backpressure is what keeps the bound | holds, ~32,000 states |
| `shared_tables` (MCSharedTables) | Can a due row starve? `OvertakenOnce NoStarvation`. Do fetchers that merge at once end right? `NoPileUp FetchersCoverAgain`. Is the newest file served? `NewestIsServed` | 4 rows, chunks of 2: a due row, its chunk mate and two that rotate; 2 processes, 2 addresses, 1 failure or changed answer; 3 downloads, 1 failure | holds, ~253,000 states |
| `algorithms` | Do the pure parts agree with their reference definitions? `PingSurvives StatsAgree ChartsTellRows PrefixIsBlock SnapshotsSurvive` | an input per state: every second of the minutes around midnight and every duration to 2100 ms with the code's constants; tables of up to 3 nodes; 2 rows of up to 4 countries, 2 wanted; addresses of 3 bytes of 3 bits with every length; files of 2 snapshots torn anywhere, 16-bit words as 6-bit ones | holds, ~67,000 inputs |
| `user_pings` | Do late results respect history and user? `TypeOK HistoryIsTrue UserHasLastWord RowTellsOnePing` | 1 node, days of 2 minutes of 2 seconds, 5 instants, 3 pings, chunks of 2 | holds, ~1,200,000 states |
| `user_pings_offline` | Is the switch-off as the nodes page says? `OffAfterMonthOffline` | as above | **violated** |
| `udp_one_client` | Loss, delay, reordering, port reuse: is the answer mine, is only a copy discarded, do copies make up for losses? `OwnAnswer OnlyDuplicatesDiscarded CopiesSuffice` | 1 client, 2 calls, 2 ports, 2 copies, 1 loss per direction | holds, ~9,000 states |
| `udp_restarts` | With more calls than the window and a restart, is a call executed once? `OncePerWindow` | window 2, 3 calls on 1 port, 1 restart | holds, ~250,000 states |
| `udp_two_clients` | The same `OnlyDuplicatesDiscarded` with two processes | 2 clients | **violated** |
| `database_jobs` (MCDatabaseJobs) | Do jobs that meet in the database keep it right? Per module: `NothingSkipped PayoutsAddUp FetchEnds`; `PartitionsTile OldRowsArchived`; `DeadlockBeforeWrites`; `ReplyHasTransport OfferedIsProbed`; `DaysTile OffStatsEndKnowingAll`; `JobsTypeOK` | 5 transfers in 4 blocks, pages of 4, days of 2 hours; 6 days in periods of 2, 2 queries of the site, 1 free abort; 2 savers with a fetch each and 1 other transaction over 3 nodes; 2 probed nodes, chunks of 1, 1 crash; 3 days of 2 runs; 3 documents of 2 satellites, a channel of 3 | holds, ~97,000 states |
| `tx_withdrawals` | Is what is shown as withdrawn a sum of transfers? `WithdrawalsAreTransfers` | as above | **violated** |
| `outside_world` (MCOutsideWorld) | Is everybody told of a version, and of a release once? `EveryoneTold AnnouncedOnce`. Are the prefixes of a system those of one answer? `StampedIsComplete`. Which nodes may a walk pass over? `SkipsOnlyTies`; `WorldTypeOK` | 2 checks (interchangeable, hence symmetry), 1 chat, 3 changed answers (new, old, new), failures or overlaps, 3 lost tries: enough to give one chat up; 2 processes, 2 prefixes, 2 changes, 2 failures; 3 nodes in pages of 2, 3 stamps, 3 offers, answers or ageings during the walk | holds, ~5,000,000 states |

**Why the bounds are enough.** The pipeline's guards compare a length with a
capacity or with zero; capacity 1 makes every buffer both full and empty within
a few steps, and six jobs are three chunks: one saved, one in the buffers, one
claimed. Two workers are the least that can swap jobs. `OnePlace`,
`PickedUpInOrder`, the bound on losses and the refinement are also proved for
all values. `UserPings` has two days (so midnight), three pings (so two results
in a chunk and one left behind, in all orders) and an `OffAfter` of 1, so that
it can pass between any two events. In `UdpPingProxy` a window of 2 and three
calls make the proxy forget; two calls on one port make a socket inherit
another's answers. The modulus of the request IDs (2^32) is 16 here, out of
reach of the runs: a wrap takes four thousand million calls of one process.
`Transactions` has a full page (so a second request), two blocks that overlap
the next fetch, two equal payouts, a day's last transfer listed late, and a run
that dies at any point. `Partitions` passes through three periods, one of them
possibly missed as a whole. A circle of savers needs two; a third transaction
holds what both want. Two overlapping processes are what it takes to double or to
interleave the statements of one; three nodes in pages of two make a page cut a
tie, and three events let one node be offered again, late, while another answers.
Three lost tries give one chat up, or repeat a message twice. `OffStatsEndKnowingAll` has six errors, twice what the channel holds. The
algorithms' small words, bytes and tables keep every boundary of the original:
the first and the last of a range, a prefix at and between byte ends, a count
that wraps.

`TypeOK` of UdpPingProxy and those of MCSharedTables' modules are not among the
properties of a run: they are proved (`ProxyTypeCorrect`, `SharedTypeCorrect`).

**Deadlock.** TLC checks for it in the pipeline's, the shared tables', the users'
and the algorithms' runs. The UDP runs and those of the other two compositions
do without: there the bounds on calls, days, downloads and
failures let the system come to its end. That nobody waits for ever is stated
as properties: `OldRowsArchived`, `DeadlockBeforeWrites`,
`OffStatsEndKnowingAll`.

**Fairness.** `ProbePipeline!Fairness`: a goroutine that can take a step takes
it (the Go scheduler); workers that compete for room in `outChan` get strong
fairness, because a channel serves blocked senders first come, first served; a
probe ends because every dial has a deadline – true of the local satellite and
the UDP proxy, not of the HTTP proxy's client, which has no timeout (see the
hazards). `Start` is fair because of systemd's `Restart=on-failure`. No
fairness is assumed of `Claim` (there may be no due row), of failures or of
`Kill`. `JobsSettle` has an exception that is the code's own: `SaveChunked` has
no timer, so an incomplete chunk waits for later results. `ClaimRotation` asks
fairness of the loader's loop only. `UdpPingProxy!FairSpec` lets packets that
arrive be read and pings end; deadlines and restarts are never obliged to
happen, and `CopiesSuffice` speaks of behaviours in which they cease.

The other modules' fairness, restated by the `MC...` modules:
`TxFairness`, requests and statements end (they have no timeout: an assumption).
`PartFairness`: nights come, the database serves who waits for a lock (strongly
for the mover, whose parent lock the savers ask for as well, and for the reader:
locks are queued) and ends deadlocks. Who is failed by a deadlock is left open; the
mover is not the victim every time, as there are `MaxReads` queries at most. `ProbesFairness`: the loader's loop, dials end, minutes pass; no
fairness of saves, offers or crashes. `StatFairness`: goroutines run and
requests end (`getJSON` gives up after three attempts).
`IpFairness`: processes run to their end; strong fairness for the lookup of an
address, because satellites go on offering it every minute and the process that
looked at something else is free again; notes grow old. `GeoFairness`: the loop
of every minute, and opening that does not fail for ever.

## Proofs

Every safety property that TLC checks is also proved, for all values of the
constants. None of the proofs bounds a size; what they do assume of the
constants is named with the theorem: an `ASSUME` that TLC evaluates on every
run, or, for `IDsAreEnough`, `ClientsStay` and `CodeNumbers`, a hypothesis of
the theorem itself.

| Theorem | Statement | For any (and under which assumption) |
|---|---|---|
| `ProbePipeline_proofs` `TypeCorrect`, `OnePlaceAlways`, `PickedUpInOrderAlways`, `LossBounded` | `Spec => []TypeOK`, `[]OnePlace`, `[]PickedUpInOrder`, `LossIsBounded` | workers, capacities, chunks, jobs (`PipelineAssumption`) |
| `ProbePipeline_proofs` `Refinement` | `Spec => ServiceSpec` | the same |
| `SharedTables_proofs` `OvertakenOnceAlways` | `Spec => OvertakenOnce` | rows, chunk (`RotationAssumption`) |
| `UserPings_proofs` `PingsTypeCorrect`, `HistoryIsTrueAlways`, `UserHasLastWordAlways`, `RowTellsOnePingAlways` | `Spec => []TypeOK`, `[]HistoryIsTrue`, `[]UserHasLastWord`, `[]RowTellsOnePing` | nodes, pings, times, chunks, lengths of days and slots (`UserPingsAssumption`, `CodecAssumption`) |
| `UdpPingProxy_proofs` `ProxyTypeCorrect`, `OncePerWindowAlways` | `Spec => []TypeOK`, `[]OncePerWindow` | clients, ports, requests, copies, losses, restarts, window (`ProxyAssumption`) |
| `UdpPingProxy_proofs` `OwnAnswerAlways`, `OnlyDuplicatesAlways` | `Spec /\ [][ClientsStay]_vars => []OwnAnswer`, `=> []OnlyDuplicatesDiscarded` | as above, with one client that is not restarted and fewer requests than IDs (`IDsAreEnough`) |
| `DatabaseJobs_proofs` `PartitionsTileAlways` | `PartSpec => []PartitionsTile` | days, saves, failed transactions, length of periods (`PartitionsAssumption`) |
| `DatabaseJobs_proofs` `NothingSkippedAlways`, `PayoutsAddUpAlways` | `TxSpec => []NothingSkipped`, `[]PayoutsAddUp` | transfers, orders of listing, runs, failures; pages that hold two blocks (`ChainType`, `ChainAssumption`) |
| `DatabaseJobs_proofs` `DeadlocksBeforeWrites` | `OffersSpec => []DeadlockBeforeWrites` | fetchers, other transactions, nodes (`OffersAssumption`, `ListsAreDistinct`) |
| `DatabaseJobs_proofs` `ReplyHasTransportAlways` | `ProbesSpec => []ReplyHasTransport` | nodes, chunks, saves, crashes (`ProbeAssumption`) |
| `DatabaseJobs_proofs` `DaysTileAlways`, `AllReportedAlways` | `StatSpec => []DaysTile`, `[]AllReported` | days, runs, nodes; documents, satellites, capacity (`StatAssumption`) |
| `DatabaseJobs_proofs` `JobsTypeCorrect` | `JobsSpec => []JobsTypeOK` | the same |
| `OutsideWorld_proofs` `EveryoneToldAlways`, `AnnouncedOnceAlways` | `VerSpec => []EveryoneTold`, `[]AnnouncedOnce` | checks, chats, versions, failures, lost tries (`ChecksAssumption`) |
| `OutsideWorld_proofs` `AsTypeCorrect`, `AsStampedIsComplete` | `AsSpec => []AsTypeOK`, `[]StampedIsComplete` | processes, prefixes, lists (`ListsAreOfPrefixes`) |
| `SharedTables_proofs` `NoPileUpAlways` | `IpSpec => []NoPileUp` | processes, addresses, answers (`IpAssumption`, `AnswersCoverTheirAddress`) |
| `OutsideWorld_proofs` `SkipsOnlyTiesAlways` | `ScanSpec => []SkipsOnlyTies` | nodes, pages, stamps, systems, events of a walk (`ScanAssumption`) |
| `SharedTables_proofs` `StalenessShowsAlways` | `GeoSpec => []StalenessShows` | downloads, failures (`GeoAssumption`) |
| `SharedTables_proofs` `SharedTypeCorrect` | `SharedSpec => [](TypeOK /\ IpTypeOK /\ GeoTypeOK)` | the same |
| `OutsideWorld_proofs` `WorldTypeCorrect` | `WorldSpec => []WorldTypeOK` | the same |
| `Algorithms_proofs` `PingIsKeptAlways`, `PingSurvivesAlways` | `PingIsKept(stamp, ok, ms)`, `Spec => []PingSurvives` | time, outcome and duration, with the code's constants (`CodeNumbers`) |
| `Algorithms_proofs` `NetworkIsBlockAlways`, `PrefixIsBlockAlways` | `NetworkIsBlock(addr, bitLen, bits)`, `Spec => []PrefixIsBlock` | address, prefix, bytes and their width (`NetworkAssumption`) |
| `Algorithms_proofs` `SnapshotsReadAlways`, `SnapshotsSurviveAlways` | `SnapshotsRead(snapshots, torn, words)`, `Spec => []SnapshotsSurvive` | snapshots, locations, the torn one and what is left of it, width of the coding (`LocAssumption`) |
| `Algorithms_proofs` `ColumnsAgreeAlways`, `StatsAgreeAlways` | `ColumnsAgree(saveNodeStats(...))`, `Spec => []StatsAgree` | nodes, types of systems, offers, hours and sizes (`StatsAssumption`, `BoundsAssumption`) |
| `Algorithms_proofs` `ChartTellsRowsAlways`, `CountsTellRowsAlways`, `ChartsTellRowsAlways` | `ChartTellsRows(rows)`, `CountsTellRows(counts, offCounts)`, `Spec => []ChartsTellRows` | rows in any order, lists of countries in the order of the codes and of `FilterN` or more, how many are wanted, length of an hour, width of a count (`ChartsAssumption`, `BoundsAssumption`) |

Each proof has one pattern: an invariant of named parts that is inductive, a
lemma or a step per action, and the theorem from it. Why the property alone is
not inductive, and what makes it so:

* **ProbePipeline.** `TypeOK` says nothing of whether a worker with a result
  holds a job, so `Sound` adds `ResultHasJob`, and `AtRest`: a process that is
  down holds nothing. The stages of a job are a family of sets, `At`; three
  lemmas say what moving (`Move`), collecting (`Gather`) and adding (`Enter`) do
  to a family of disjoint sets and to its union, each action is one of them, and
  `CommonLemmas` says what taking the head of a channel and sending to its tail
  do to its set of values. That gives `OnePlace` (`OnePlaceStep`), which
  determines what the workers have taken and what is in memory from the rest
  (`TakenJobs`, `OpenJobs`). So the order is a statement about `held`, `inChan`,
  `claimed` and `lost` only (`Order`); and a step's effect on `open` is read off
  its effect on the ledger, which gives the refinement, one step of `ServiceStep`
  per action. The loss bound sums the capacities in `TypeOK` over the places of
  `InMemory` (`MemoryIsBounded`).
* **ClaimRotation.** The order of a query is by stamp, so a row can be passed
  twice only if the row that passes it is before it. `PassedAreLater` is what
  makes it impossible: a row that passed another has a stamp, and the other has
  none or an earlier one, until that one is claimed.
* **UserPings.** The two tables are told by the set of outcomes saved so far
  (`TablesTell`), whatever their order: that is the invariant, with the shape of
  the log. One save of a chunk is a fold over the items in an order that is
  chosen; its lemma is that one item after another keeps `TablesTell` of the
  outcomes that far (`InductionUpTo`: induction on the number of items, the only
  kind of induction the provers take here), and that every item is in the order
  (`OrderHasAll`). The switch-off keeps the user's last word, because it compares
  with `detailsUpdatedAt`, which `LastWord` says is the time of the request.
* **Sums and iteration** (`CommonLemmas`). `MapThenSumSet` and the recursive
  functions of the algorithms are `CHOOSE`n to satisfy an equation, so nothing can
  be said of them before a solution is shown to exist. `SumsUpExists` does it for
  the sums over the subsets of a finite set, `IterationExists` for what is
  counted from 0; from there a sum can be taken apart at an element, split into
  parts and groups, and compared (`SumTakeOut`, `SumOfUnion`, `SumOfGroups`,
  `SumAtMost`). All of it rests on `InductionUpTo`, by the number of elements.
* **PingCodec.** `PingIsKeptAlways` takes the stored number apart (`ValueParts`),
  and then the byte of the short form (`ByteForm`), by division with remainder.
  It is the one theorem that needs the numbers of the code: with others, a byte
  may be too small.
* **UdpPingProxy.** `OncePerWindow` looks at `accepted` only, but what makes it
  true is in `recentIDs`: `WindowIsRecent` says that the window has the IDs of
  the requests accepted last, in their order. `OwnAnswer` needs that the IDs are
  the numbers of the requests (`Numbered`, `CountedUp`): then a request is known
  by its ID, the check of `RequestID` finds out another's answer, and what is in
  the window was accepted (`WindowIsAccepted`). That is why it is proved of one
  client that keeps running; the proxy may be restarted. With two clients
  `OnlyDuplicatesDiscarded` is false (`udp_two_clients`), and with equal
  IDs a port that is used again could hand over another's answer.
* **Partitions.** `PartitionsTile` says nothing of a move under way. `Fits` adds
  that what the mover decided before its transaction still fits the archives,
  `CopyIsExact` that the copy is still the rows, `SaverInTime` that the saver is
  out while they are copied, and late by a day at most, so that no save is
  earlier than the first archive; `NoGap` and `Later` say where rows without an
  archive can be. That a range is not empty needs the arithmetic of periods
  (`Period`).
* **Transactions.** `NothingSkipped` speaks of the end of a run. `NextReaches`
  holds all the time: what is listed and not stored is not before the block that
  the next page starts at. It is kept because a transfer is listed by one block
  late at most, and because a page that is full reaches beyond the block it
  started at – `ChainAssumption`, without which a run would ask for the same page
  for ever. Between a request and the insertion of its page `PageHeld` says it of
  what was listed when it was asked for. `PayoutsAddUp` compares a row with what
  is stored now, but the row was made of what was stored when its day was last
  summed. `SummedOver(d, S)` names that set: the row is the summary of `S`, which
  is all that was stored when the next day was first summed, and all that is
  stored while the run comes from this day. That a day's payouts are the sum
  over the hours and over equal rows of them is a regrouping of one sum
  (`SumOfGroups`).
* **NodeOffers.** A fetcher that locks still has to lock the rest of what it saw
  and has written nothing (`LockingHoldsRest`); one that writes holds all it saw
  (`WritingHoldsSeen`). So a fetcher that waits for a node it saw is locking and
  has written none (`WaitsBeforeWriting`), and if that is so of all in a circle,
  nothing that was written is lost. There is no order that would exclude such a
  circle: the SELECT locks in the order of its plan.
* **NodeProbes.** A node in flight was checked just now (`InFlightIsNew`), so it
  is not loaded again and a chunk has one result of it (`OneReply`), which has an
  answer by one transport at least (`SomeTransport`); and no stamp is later than
  the next save (`SavedBefore`), so what that writes is the later one.
* **DailyStats.** A row is written on its own day (`NoRowYet`), so the row of
  the day before no longer changes. For the documents: an error that was raised
  is reported, in the channel, or about to be sent (`NoErrorLost`), and the
  channel is closed when all goroutines are done (`InTurn`). Each satellite raises
  one at most (`OneErrorEach`), which bounds the counters in `JobsTypeOK`.
* **VersionChecks.** `EveryoneTold` needs to know of a check under way that it
  has a list of chats with everybody in it who must hear of what it found
  (`Listed`), and that those it has gone past are `Told`: they got a message or
  missed three tries. `AnnouncedOnce` needs, as long as nothing disturbs
  (`OneAtATime`), that lists have no chat twice, that a release that is news is
  newer than what is stored (`Newer`), and that what was heard of is stored, is
  being sent, or was a message whose answer was lost (`HeardIsStored`). What one
  try may do is said once (`Try`, `TryFacts`), for both.
* **AsInfo.** Processes that are under way hold the list of the service
  (`OneList`); `Inserted` and `Replaced` say what the statements they have behind
  them have made of the prefixes, which no other process undoes, as it has the
  same list.
* **IpCompanies.** Several processes may have found no row of a range, and each
  will insert one. `Room` counts them (`Inserters`) together with the rows: a
  process that looks when there is a row does not become one of them, so the two
  together are never more than the processes.
* **NodeScans.** `SkipsOnlyTies` speaks of a finished walk. `Walked` says why a
  node was passed by, if it was: it is served, or its stamp is one that a page
  ended at or went beyond, or its offer was late, or it was not active at some
  time (`Excused`); else it waits in the page as it was read (`Waits`) or has a
  stamp no earlier than any of the page (`Ahead`). An excuse stays one (`ExcuseStays`); an
  offer makes the node late or puts it ahead.
* **GeoIPReload.** `GeoOrder`: what is installed is later than what it replaces,
  and the time remembered is never later than that of the file served. `StatFile`
  before the open is what this needs; `NewestIsServed` adds fairness.
* **IpNetwork.** An address as a number is `Upto` its last byte. The block is
  followed byte by byte: before the byte in which the prefix ends both ends agree
  with the address, in it the block begins (`BlockBegins`: the low bits of one
  byte cleared and set), and each byte after it makes the block `ByteMax + 1`
  times as large (`BlockGoesOn`). That what is left is a power of two of the right
  exponent is `PowerOfSum`.
* **LocSnap.** Three parts: a location read back is within a step
  (`CodedIsClose`, by division with remainder); where in the file the words of the
  k-th snapshot are (`FlattenJoins`: the file is its parts one after the other);
  and what the reader makes of them (`ReaderReads`): its position only grows, so
  that its recursion has a solution, found backwards from the end of the file,
  and a snapshot that is whole at a position is printed and the reading goes on
  after it (`Reads`). The theorem follows the snapshots from the last one that
  counts to the first.
* **NodeStats.** A `GROUP BY` of any rows counts all of them (`GroupsCountAll`),
  and a histogram of such counts all groups, and with their sizes all rows again
  (`SizesCountAll`). Every column that counts active nodes is brought to one of
  the two; the rest is comparing a part with its whole (`SubnetsPerCountry`,
  `TopsAreSome`, `OffersPerSat`). The last needs that a node's offer to a satellite
  is one row, the key of `nodes_sat_offers` (`OfferTable`).
* **SiteCharts.** Each loop is a fold, and a fold is a chosen function: one
  with its equation is built step by step (`FoldExists`), and from its equation
  follows what the loop holds after k rounds (`FoldFollows`). `PartitionSplits`
  is the loop invariant of `partition` (`Splits`): what it leaves is an order
  of the same items, and what is left of the pivot is not smaller, what is
  right of it smaller. `SelectsLargest` goes by the length of what is left to
  order, which shrinks with every call: the n wanted are then not smaller than
  the rest, whichever side holds the pivot. `FindsCount`: a list in the order
  of its codes is searched on the side of the previous hit on which the code
  is, so the search ends with the country's number wherever it starts, also
  where it was lost in the row before. That an hour's number is the last row's,
  or for the official line the greatest, is an invariant of the rows written
  (`LastWrites`, `GreatestWrites`). Fewer than `FilterN` countries in a row are
  a panic of the handler, and are excluded.

The theorems speak of each command by itself and without fairness (`TxSpec`,
`VerSpec`, ...). `JobsRunThem`, `WorldRunsThem` and `SharedRunsThem` carry them
over to the compositions that TLC runs: a step of a composition is a step of each
command or leaves its variables alone. `JobsTypeCorrect`, `WorldTypeCorrect` and
`SharedTypeCorrect` are proved that way.

Only model-checked are the liveness properties – `JobsSettle`, `NoStarvation`,
`CopiesSuffice`, `FetchEnds`, `OldRowsArchived`, `OfferedIsProbed`,
`OffStatsEndKnowingAll` (but for its safety half), `FetchersCoverAgain`,
`NewestIsServed`: liveness under fairness, and with it `ENABLED`, is out of the
prover's reach.

## Findings

* **Request IDs of two processes collide** (`udp_two_clients`). The proxy
  throws a request away as a "duplicate" when its ID is among the last 64, but
  every process counts from 1. Two processes with one proxy (the example
  service files configure the daemons alike), or one process before and after
  its restart, lose requests, all three copies of each, until their counters
  drift apart.
* **The switch-off can hit a node that is back** (`user_pings_offline`). The
  nodes page promises a switch-off "after a month of offline". The saver
  decides with the `last_up_at` saved so far; if a success is in the pipeline
  (or later in the same chunk) when an older failure is saved, the node is
  switched off although it has just answered, and saving the success does not
  turn it on again.
* **Withdrawals count what is left in the wallet** (`tx_withdrawals`). The page
  explains withdrawals as "token transfers from SNO wallets"
  (`storj_tx_summary.js:275`). The summary adds
  `tx.Value + limits[tx.AddrFrom]` (`transactions.go:281`): the transfer and what
  the wallet was paid and still has. A wallet that was paid 3 and withdraws 3
  counts as 6.

Without a run of its own, as one line of arithmetic shows it: the chart adds
seconds to milliseconds. `pings_chart.js:41` says that a stored number has
`seconds_from_start_of_minute` in it, and `charts.js` (228, 265) adds that number
to a time in milliseconds: the point of a ping is up to 56 seconds early. In the
short form, which is the one switched on, all pings are documented at the 30th
second (`pings_chart.js:35`) and drawn 28 milliseconds after the minute's start.
On a chart of days nobody sees it. `FullTime` has it as it is.

## What is not modelled

* Row locks of the updater: its transactions are atomic in UserPings. Loader and
  saver lock rows of `user_nodes` in different orders; a deadlock that Postgres
  resolves appears as `ClaimFails` or `SaveFails` of ProbePipeline. (The locks of
  the optimizer and of the fetchers are modelled.)
* `CloseAndWait` and SaveChunked's flush of the last chunk: no daemon closes
  its channel.
* The HTTP proxy: a call and its answer without state. Its client has no
  timeout, which is in the list of hazards.
* The local satellite (calls of the storj library; an outcome here), users and
  sessions (single statements), `VACUUM` (changes no row), migrations and one-off
  scripts (schema).
* Handlers that are a query and its rendering. The reading of the dates of a
  request (`parseIntervalDate`) is one of them: an end given as a month is to be
  moved to the end of it, but the condition (`isEnd && err != nil`) is only true
  where the result is dropped; no document or test says what it should be.
* The frontend, but for how the chart of pings reads the stored numbers.
* Rows of `nodes_sat_offers` that another fetcher adds between the two SELECTs of
  `saveLimits`: in NodeOffers they go with their node. A node in flight that
  becomes due again, in NodeProbes: the pipeline would have to lag by eight
  minutes. An AS list that changes while processes update it, in AsInfo: two with
  different lists can leave a mix of them. The conversion of a location count to
  `int` in the snapshot reader (`loc_snap.go:127`).
* In Partitions, rows dated before the first archive; in Transactions, transfers
  that Etherscan lists more than a block late. The code takes neither into
  account: such a row would stay in the default partition, such a transfer would
  never be fetched.

## Plan

What is left, most important first:

1. A second client in `OwnAnswer`: what holds of it when processes share the
   proxy but not their ports.
2. An abstract specification of the daemons that share a table (claims, saves,
   the users' edits), which ProbePipeline, ClaimRotation and UserPings implement
   together.
3. The HTTP proxy and its client, with the timeouts of either side; the row locks
   of loader and saver, with the deadlocks of a pipeline that lags for longer than
   it takes a row to be due again.
4. The other handlers' queries as set expressions, as for the charts.
