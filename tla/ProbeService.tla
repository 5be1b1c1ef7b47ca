---------------------------- MODULE ProbeService ----------------------------
(***************************************************************************)
(* What a probing daemon of this repository promises about the rows it     *)
(* claims, without saying how it is built: a row is claimed once, leaves   *)
(* in one way only, results are saved in whole chunks, and as long as the  *)
(* process is healthy nothing that was claimed is lost.                    *)
(*                                                                         *)
(* A job is one claim of one row (one UPDATE of last_pinged_at or          *)
(* checked_at); jobs are numbered in the order in which they are claimed.  *)
(***************************************************************************)
EXTENDS Naturals, FiniteSets

CONSTANTS ClaimChunk,   \* rows one claiming transaction may take
          SaveChunk     \* results one saving transaction writes

VARIABLES healthy,   \* the process runs and none of its goroutines has failed
          claimed,   \* how many jobs were ever claimed
          open,      \* jobs claimed and not settled
          saved,     \* jobs whose result a committed transaction wrote
          dropped,   \* jobs given up by design (an unreachable node)
          lost       \* jobs that went down with a failure

vars == <<healthy, claimed, open, saved, dropped, lost>>

Fresh(k) == (claimed + 1)..(claimed + k)

Init ==
    /\ healthy = FALSE
    /\ claimed = 0
    /\ open = {} /\ saved = {} /\ dropped = {} /\ lost = {}

Claim(k) ==
    /\ claimed' = claimed + k
    /\ open' = open \cup Fresh(k)
    /\ UNCHANGED <<healthy, saved, dropped, lost>>

Drop(j) ==
    /\ j \in open
    /\ open' = open \ {j}
    /\ dropped' = dropped \cup {j}
    /\ UNCHANGED <<healthy, claimed, saved, lost>>

(* One transaction writes one whole chunk of open jobs.  When its outcome  *)
(* is not known to the client the process is no longer healthy.            *)
Save(S) ==
    /\ S \subseteq open
    /\ Cardinality(S) = SaveChunk
    /\ open' = open \ S
    /\ saved' = saved \cup S
    /\ healthy' \in {healthy, FALSE}
    /\ UNCHANGED <<claimed, dropped, lost>>

(* A failure may lose claimed jobs, the ones of the very transaction that  *)
(* failed included, and always leaves the process unhealthy.               *)
Fail(k, S) ==
    /\ S \subseteq open
    /\ healthy' = FALSE
    /\ claimed' = claimed + k
    /\ open' = open \ S
    /\ lost' = lost \cup S \cup Fresh(k)
    /\ UNCHANGED <<saved, dropped>>

(* A new process starts with no job of the old one.                        *)
Recover ==
    /\ ~healthy
    /\ open = {}
    /\ healthy' = TRUE
    /\ UNCHANGED <<claimed, open, saved, dropped, lost>>

Next ==
    \/ \E k \in 1..ClaimChunk : Claim(k)
    \/ \E j \in open : Drop(j)
    \/ \E S \in SUBSET open : Save(S)
    \/ \E k \in 0..ClaimChunk, S \in SUBSET open : Fail(k, S)
    \/ Recover

Spec == Init /\ [][Next]_vars
=============================================================================
