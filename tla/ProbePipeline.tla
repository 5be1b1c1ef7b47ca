---------------------------- MODULE ProbePipeline ----------------------------
(***************************************************************************)
(* The pipeline both probing daemons are built as: updater.StartUpdater    *)
(* (pings of the users' nodes) and nodes.StartProber (TCP and QUIC dials   *)
(* of every known node).                                                   *)
(*                                                                         *)
(*   loader --inChan--> workers --outChan--> forwarder --chanI--> saver    *)
(*                                                                         *)
(* The loader claims due rows in a transaction and pushes them one by one. *)
(* The saver collects results and writes them SaveChunk at a time.  The    *)
(* loader and the saver stop for good on the first database error; the     *)
(* main goroutine polls their error channels and ends the process, which   *)
(* systemd starts again.                                                   *)
(*                                                                         *)
(* A job is one claim of one row; jobs are numbered as they are claimed.   *)
(* Which rows are due is left to the database: a claim may find any number *)
(* of them.  (UserPings models the rows.)                                  *)
(***************************************************************************)
EXTENDS Integers, Sequences, FiniteSets, SequencesExt

CONSTANTS Worker,        \* the probing goroutines
          InCap,         \* capacity of the channel into them
          OutCap,        \* capacity of the channel out of them
          ChanICap,      \* capacity of the saver's own channel
          ClaimChunk,    \* LIMIT of the loader's query
          SaveChunk,     \* chunkSize of utils.SaveChunked
          DropFailures,  \* TRUE in nodes/prober.go: an unreachable node is
                         \* not sent on to the saver
          MaxJobs        \* bound of the model: jobs ever claimed

ASSUME PipelineAssumption ==
    /\ IsFiniteSet(Worker)
    /\ InCap \in Nat \ {0}
    /\ OutCap \in Nat \ {0}
    /\ ChanICap \in Nat \ {0}
    /\ ClaimChunk \in Nat \ {0}
    /\ SaveChunk \in Nat \ {0}
    /\ DropFailures \in BOOLEAN
    /\ MaxJobs \in Nat

Job == 1..MaxJobs
NoJob == 0

VARIABLES up,        \* the process runs
          errs,      \* the utils.Workers that failed: error channel filled
          claimed,   \* jobs claimed so far, by all runs of the process
          held,      \* loader: claimed rows it has yet to push
          inChan,
          hand,      \* the job each worker goroutine holds
          probed,    \* whether that job has its result
          outChan,
          fwd,       \* the result the forwarding goroutine holds
          chanI,
          items,     \* SaveChunked: results collected for the next chunk
          saved,     \* ghost: jobs whose result is in the database
          dropped,   \* ghost: jobs that ended with no result by design
          lost       \* ghost: jobs that went down with a failure

vars == <<up, errs, claimed, held, inChan, hand, probed, outChan, fwd,
          chanI, items, saved, dropped, lost>>

(* Parts of the state that actions leave alone together.                   *)
loaderVars  == <<claimed, held>>
workerVars  == <<hand, probed>>
saverVars   == <<chanI, items>>
ledgerVars  == <<saved, dropped, lost>>
processVars == <<up, errs>>

Runs(part) == up /\ part \notin errs

-----------------------------------------------------------------------------
Idle == [w \in Worker |-> NoJob]

InHands == {hand[w] : w \in Worker} \ {NoJob}
InForwarder == {fwd} \ {NoJob}

Stage == {"held", "inChan", "hand", "outChan", "fwd", "chanI", "items",
          "saved", "dropped", "lost"}

(* The jobs at each stage of their life.                                   *)
At == [s \in Stage |->
          CASE s = "held"    -> ToSet(held)
            [] s = "inChan"  -> ToSet(inChan)
            [] s = "hand"    -> InHands
            [] s = "outChan" -> ToSet(outChan)
            [] s = "fwd"     -> InForwarder
            [] s = "chanI"   -> ToSet(chanI)
            [] s = "items"   -> ToSet(items)
            [] s = "saved"   -> saved
            [] s = "dropped" -> dropped
            [] s = "lost"    -> lost]

Settled == saved \cup dropped \cup lost

(* Jobs that exist only in the memory of the process.                      *)
InMemory == ToSet(held) \cup ToSet(inChan) \cup InHands \cup ToSet(outChan)
              \cup InForwarder \cup ToSet(chanI) \cup ToSet(items)

Init ==
    /\ up = FALSE
    /\ errs = {}
    /\ claimed = 0
    /\ held = <<>> /\ inChan = <<>>
    /\ hand = Idle /\ probed = [w \in Worker |-> FALSE]
    /\ outChan = <<>> /\ fwd = NoJob /\ chanI = <<>> /\ items = <<>>
    /\ saved = {} /\ dropped = {} /\ lost = {}

-----------------------------------------------------------------------------
(* Loader.                                                                 *)

Fresh(k) == (claimed + 1)..(claimed + k)

(* Mutant: the loader claims the next chunk while it still pushes.         *)
Claim_WhilePushing(k) ==
    /\ Runs("loader")
    /\ claimed + k <= MaxJobs
    /\ held' = held \o [i \in 1..k |-> claimed + i]
    /\ claimed' = claimed + k
    /\ UNCHANGED <<processVars, inChan, workerVars, outChan, fwd, saverVars,
                   ledgerVars>>

(* One claiming transaction.  It runs only when the previous chunk has     *)
(* been pushed to the last row.  (No due row: sleep, and no state change.) *)
Claim(k) ==
    /\ Runs("loader")
    /\ held = <<>>
    /\ claimed + k <= MaxJobs
    /\ held' = [i \in 1..k |-> claimed + i]
    /\ claimed' = claimed + k
    /\ UNCHANGED <<processVars, inChan, workerVars, outChan, fwd, saverVars,
                   ledgerVars>>

(* The transaction returns an error.  k = 0: it was rolled back.  k > 0:   *)
(* it was committed and the answer was lost, so k rows carry a new stamp   *)
(* and nobody will probe them.  The goroutine returns.                     *)
ClaimFails(k) ==
    /\ Runs("loader")
    /\ held = <<>>
    /\ claimed + k <= MaxJobs
    /\ claimed' = claimed + k
    /\ lost' = lost \cup Fresh(k)
    /\ errs' = errs \cup {"loader"}
    /\ UNCHANGED <<up, held, inChan, workerVars, outChan, fwd, saverVars,
                   saved, dropped>>

(* Mutant: the chunk is pushed from its end.                               *)
Push_LastFirst ==
    /\ Runs("loader")
    /\ held # <<>>
    /\ Len(inChan) < InCap
    /\ inChan' = Append(inChan, Last(held))
    /\ held' = Front(held)
    /\ UNCHANGED <<processVars, claimed, workerVars, outChan, fwd, saverVars,
                   ledgerVars>>

(* Mutant: jobs are queued without a limit.                                *)
Push_NoLimit ==
    /\ Runs("loader")
    /\ held # <<>>
    /\ inChan' = Append(inChan, Head(held))
    /\ held' = Tail(held)
    /\ UNCHANGED <<processVars, claimed, workerVars, outChan, fwd, saverVars,
                   ledgerVars>>

Push ==
    /\ Runs("loader")
    /\ held # <<>>
    /\ Len(inChan) < InCap
    /\ inChan' = Append(inChan, Head(held))
    /\ held' = Tail(held)
    /\ UNCHANGED <<processVars, claimed, workerVars, outChan, fwd, saverVars,
                   ledgerVars>>

-----------------------------------------------------------------------------
(* Workers.                                                                *)

Take(w) ==
    /\ Runs("pinger")
    /\ hand[w] = NoJob
    /\ inChan # <<>>
    /\ hand' = [hand EXCEPT ![w] = Head(inChan)]
    /\ inChan' = Tail(inChan)
    /\ UNCHANGED <<processVars, loaderVars, probed, outChan, fwd, saverVars,
                   ledgerVars>>

(* The dials end (each has a timeout) and there is a result to deliver.    *)
Probe(w) ==
    /\ Runs("pinger")
    /\ hand[w] # NoJob
    /\ ~probed[w]
    /\ probed' = [probed EXCEPT ![w] = TRUE]
    /\ UNCHANGED <<processVars, loaderVars, inChan, hand, outChan, fwd,
                   saverVars, ledgerVars>>

(* The prober only: both dials failed, the node is not passed on.          *)
DropUnreachable(w) ==
    /\ DropFailures
    /\ Runs("pinger")
    /\ hand[w] # NoJob
    /\ ~probed[w]
    /\ hand' = [hand EXCEPT ![w] = NoJob]
    /\ dropped' = dropped \cup {hand[w]}
    /\ UNCHANGED <<processVars, loaderVars, inChan, probed, outChan, fwd,
                   saverVars, saved, lost>>

Deliver(w) ==
    /\ Runs("pinger")
    /\ probed[w]
    /\ Len(outChan) < OutCap
    /\ outChan' = Append(outChan, hand[w])
    /\ hand' = [hand EXCEPT ![w] = NoJob]
    /\ probed' = [probed EXCEPT ![w] = FALSE]
    /\ UNCHANGED <<processVars, loaderVars, inChan, fwd, saverVars,
                   ledgerVars>>

-----------------------------------------------------------------------------
(* Forwarder: outChan, of results, to chanI, of interface{} values.        *)

Receive ==
    /\ up
    /\ fwd = NoJob
    /\ outChan # <<>>
    /\ fwd' = Head(outChan)
    /\ outChan' = Tail(outChan)
    /\ UNCHANGED <<processVars, loaderVars, inChan, workerVars, saverVars,
                   ledgerVars>>

Forward ==
    /\ up
    /\ fwd # NoJob
    /\ Len(chanI) < ChanICap
    /\ chanI' = Append(chanI, fwd)
    /\ fwd' = NoJob
    /\ UNCHANGED <<processVars, loaderVars, inChan, workerVars, outChan,
                   items, ledgerVars>>

-----------------------------------------------------------------------------
(* Saver: utils.SaveChunked.                                               *)

Collect ==
    /\ Runs("saver")
    /\ Len(items) < SaveChunk
    /\ chanI # <<>>
    /\ items' = Append(items, Head(chanI))
    /\ chanI' = Tail(chanI)
    /\ UNCHANGED <<processVars, loaderVars, inChan, workerVars, outChan, fwd,
                   ledgerVars>>

(* Mutant: the slice is not emptied after the transaction.                 *)
Save_ItemsKept ==
    /\ Runs("saver")
    /\ Len(items) = SaveChunk
    /\ saved' = saved \cup ToSet(items)
    /\ UNCHANGED <<processVars, loaderVars, inChan, workerVars, outChan, fwd,
                   saverVars, dropped, lost>>

(* A full chunk is written in one transaction.                             *)
Save ==
    /\ Runs("saver")
    /\ Len(items) = SaveChunk
    /\ saved' = saved \cup ToSet(items)
    /\ items' = <<>>
    /\ UNCHANGED <<processVars, loaderVars, inChan, workerVars, outChan, fwd,
                   chanI, dropped, lost>>

(* Mutant: a failed chunk is skipped and the saver goes on.                *)
SaveFails_Skipped(committed) ==
    /\ Runs("saver")
    /\ Len(items) = SaveChunk
    /\ items' = <<>>
    /\ IF committed
         THEN saved' = saved \cup ToSet(items) /\ UNCHANGED lost
         ELSE lost' = lost \cup ToSet(items) /\ UNCHANGED saved
    /\ UNCHANGED <<processVars, loaderVars, inChan, workerVars, outChan, fwd,
                   chanI, dropped>>

(* The transaction returns an error: SaveChunked returns at once, its      *)
(* items with it.  The chunk is not in the database unless only the answer *)
(* to COMMIT was lost.                                                     *)
SaveFails(committed) ==
    /\ Runs("saver")
    /\ Len(items) = SaveChunk
    /\ errs' = errs \cup {"saver"}
    /\ items' = <<>>
    /\ IF committed
         THEN saved' = saved \cup ToSet(items) /\ UNCHANGED lost
         ELSE lost' = lost \cup ToSet(items) /\ UNCHANGED saved
    /\ UNCHANGED <<up, loaderVars, inChan, workerVars, outChan, fwd, chanI,
                   dropped>>

-----------------------------------------------------------------------------
(* The process.                                                            *)

(* All that was in memory is gone.                                         *)
End ==
    /\ up
    /\ up' = FALSE
    /\ errs' = {}
    /\ held' = <<>> /\ inChan' = <<>>
    /\ hand' = Idle /\ probed' = [w \in Worker |-> FALSE]
    /\ outChan' = <<>> /\ fwd' = NoJob /\ chanI' = <<>> /\ items' = <<>>
    /\ lost' = lost \cup InMemory
    /\ UNCHANGED <<claimed, saved, dropped>>

(* Mutant: the saver's error channel is not polled.                        *)
Poll_NotSaver == errs \ {"saver"} # {} /\ End

(* The main goroutine finds an error in one of the error channels and      *)
(* returns it: the program exits.                                          *)
Poll == errs # {} /\ End

(* The process is killed or panics.                                        *)
Kill == End

(* systemd starts the process again.  The set-up of the satellites may     *)
(* fail, and then there are no workers; the loader has been started.       *)
Start ==
    /\ ~up
    /\ up' = TRUE
    /\ errs' \in {{}, {"pinger"}}
    /\ UNCHANGED <<loaderVars, inChan, workerVars, outChan, fwd, saverVars,
                   ledgerVars>>

-----------------------------------------------------------------------------
Next ==
    \/ \E k \in 1..ClaimChunk : Claim(k)
    \/ \E k \in 0..ClaimChunk : ClaimFails(k)
    \/ Push
    \/ \E w \in Worker : Take(w)
    \/ \E w \in Worker : Probe(w)
    \/ \E w \in Worker : DropUnreachable(w)
    \/ \E w \in Worker : Deliver(w)
    \/ Receive
    \/ Forward
    \/ Collect
    \/ Save
    \/ \E committed \in BOOLEAN : SaveFails(committed)
    \/ Poll
    \/ Kill
    \/ Start

Spec == Init /\ [][Next]_vars

(* A goroutine that can go on does so.  A probe ends because every dial    *)
(* has a deadline; whether it drops or delivers its job is not up to us.   *)
(* Deliver needs strong fairness: workers compete for the room in outChan, *)
(* and a Go channel serves blocked senders in the order of their arrival.  *)
(* Nothing obliges the database to fail or the process to be killed.       *)
Fairness ==
    /\ WF_vars(Push)
    /\ WF_vars(\E w \in Worker : Take(w))
    /\ \A w \in Worker : WF_vars(Probe(w) \/ DropUnreachable(w))
    /\ \A w \in Worker : SF_vars(Deliver(w))
    /\ WF_vars(Receive) /\ WF_vars(Forward)
    /\ WF_vars(Collect)
    /\ WF_vars(Save \/ \E committed \in BOOLEAN : SaveFails(committed))
    /\ WF_vars(Poll)
    /\ WF_vars(Start)

FairSpec == Spec /\ Fairness
-----------------------------------------------------------------------------
(* Properties.                                                             *)

TypeOK ==
    /\ up \in BOOLEAN
    /\ errs \subseteq {"loader", "pinger", "saver"}
    /\ claimed \in 0..MaxJobs
    /\ held \in Seq(Job) /\ Len(held) <= ClaimChunk
    /\ inChan \in Seq(Job) /\ Len(inChan) <= InCap
    /\ hand \in [Worker -> Job \cup {NoJob}]
    /\ probed \in [Worker -> BOOLEAN]
    /\ outChan \in Seq(Job) /\ Len(outChan) <= OutCap
    /\ fwd \in Job \cup {NoJob}
    /\ chanI \in Seq(Job) /\ Len(chanI) <= ChanICap
    /\ items \in Seq(Job) /\ Len(items) <= SaveChunk
    /\ saved \subseteq Job /\ dropped \subseteq Job /\ lost \subseteq Job

(* No stage holds a job twice and no two workers hold the same job.        *)
NoTwins ==
    /\ IsInjective(held)
    /\ IsInjective(inChan)
    /\ IsInjective(outChan)
    /\ IsInjective(chanI)
    /\ IsInjective(items)
    /\ \A v, w \in Worker : v # w /\ hand[v] = hand[w] => hand[v] = NoJob

(* Every claimed job is at exactly one place: at one stage of the          *)
(* pipeline, or saved, or dropped, or lost with a failure.  So a result is *)
(* written at most once, and no claimed row is forgotten by a handover     *)
(* between goroutines, whatever the interleaving, the failures and the     *)
(* restarts (loader, workers, forwarder and SaveChunked).                  *)
OnePlace ==
    /\ NoTwins
    /\ \A s, t \in Stage : s # t => At[s] \cap At[t] = {}
    /\ UNION {At[s] : s \in Stage} = 1..claimed

(* Rows are picked up in the order in which they were claimed: whatever is *)
(* still on its way to the workers was claimed after every job that a      *)
(* worker has taken.  A row can be overtaken only between two workers, and *)
(* never waits behind rows claimed after it.                               *)
PickedUpInOrder ==
    /\ \A j \in At["held"] \cup At["inChan"] :
         \A s \in Stage \ {"held", "inChan", "lost"} :
            \A i \in At[s] : i < j
    /\ \A i \in At["inChan"], j \in At["held"] : i < j
    /\ \A a, b \in DOMAIN inChan : a < b => inChan[a] < inChan[b]
    /\ \A a, b \in DOMAIN held : a < b => held[a] < held[b]

(* The rows a failure can cost: what the loader holds, the channels, the   *)
(* hands and the collected items together.                                 *)
MaxLoss == ClaimChunk + InCap + Cardinality(Worker) + OutCap + 1 + ChanICap
             + SaveChunk

(* No single step loses more than that many claimed rows (they miss one    *)
(* probe and are due again when their stamp has aged): the channels'       *)
(* capacities hold the loader back.                                        *)
LossIsBounded == [][Cardinality(lost' \ lost) <= MaxLoss]_vars

(* Nothing is left in memory but an incomplete chunk.                      *)
WaitsForMore == InMemory = ToSet(items) /\ Len(items) < SaveChunk

(* Every claimed job is settled at last, unless it waits in an incomplete  *)
(* chunk with no other job behind it: SaveChunked has no timer, so the     *)
(* last results are written only when enough others follow.  In particular *)
(* a failed saver, which makes every goroutine block on a full channel in  *)
(* turn, never leaves the process hanging.                                 *)
JobsSettle ==
    \A j \in Job : (j \in InMemory) ~> (j \in Settled \/ WaitsForMore)

(* The pipeline is a ProbeService, which says only what is claimed, open   *)
(* and settled.                                                            *)
Service == INSTANCE ProbeService
             WITH healthy <- up /\ errs = {}, open <- InMemory
ServiceSpec == Service!Spec
=============================================================================
