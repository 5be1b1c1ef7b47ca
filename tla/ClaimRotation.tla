---------------------------- MODULE ClaimRotation ----------------------------
(***************************************************************************)
(* Which rows the loaders of updater/updater.go and nodes/prober.go claim: *)
(*                                                                         *)
(*   SELECT ... WHERE <due> ORDER BY <stamp> ASC NULLS FIRST LIMIT chunk   *)
(*   FOR UPDATE;  UPDATE ... SET <stamp> = NOW() WHERE id IN (...)         *)
(*                                                                         *)
(* Only the order of the stamps matters: which rows have one, and which of *)
(* them have an earlier one than which.  Rows come, go and become due at   *)
(* any moment; the loader may lag behind for as long as the pipeline is    *)
(* full.                                                                   *)
(***************************************************************************)
EXTENDS Naturals, FiniteSets

CONSTANTS Node,        \* rows that may exist
          ClaimChunk   \* the LIMIT

ASSUME RotationAssumption == ClaimChunk \in Nat \ {0}

VARIABLES rows,    \* the table
          stamped, \* rows that were claimed since they were inserted
          older,   \* <<n, m>> of them where the stamp of n is before that of m
          due,     \* rows for which the WHERE holds
          pushing, \* the loader is busy pushing its last chunk
          passed   \* ghost: <<n, m>> where m was claimed since n became due

vars == <<rows, stamped, older, due, pushing, passed>>

Init ==
    /\ rows = {} /\ stamped = {} /\ older = {}
    /\ due = {}
    /\ pushing = FALSE
    /\ passed = {}

Forget(P, S) == {nm \in P : nm[1] \notin S /\ nm[2] \notin S}

-----------------------------------------------------------------------------
(* What others do to the table.                                            *)

(* A new row has no stamp, and is due unless its pings are off.            *)
Insert(n) ==
    /\ n \notin rows
    /\ rows' = rows \cup {n}
    /\ due' \in {due, due \cup {n}}
    /\ UNCHANGED <<stamped, older, pushing, passed>>

Delete(n) ==
    /\ n \in rows
    /\ rows' = rows \ {n} /\ stamped' = stamped \ {n}
    /\ older' = Forget(older, {n})
    /\ due' = due \ {n}
    /\ passed' = Forget(passed, {n})
    /\ UNCHANGED pushing

(* The stamp has aged, or a user has turned the pings on.                  *)
BecomeDue(n) ==
    /\ n \in rows \ due
    /\ due' = due \cup {n}
    /\ passed' = {nm \in passed : nm[1] # n}
    /\ UNCHANGED <<rows, stamped, older, pushing>>

(* The pings are turned off, or the node was not seen for seven days.      *)
Withdraw(n) ==
    /\ n \in due
    /\ due' = due \ {n}
    /\ UNCHANGED <<rows, stamped, older, pushing, passed>>

-----------------------------------------------------------------------------
(* The loader.                                                             *)

(* ORDER BY stamp ASC NULLS FIRST: n is before m whatever the rows that    *)
(* have equal stamps, or none, are sorted by.                              *)
Before(n, m) == m \in stamped /\ (n \notin stamped \/ <<n, m>> \in older)

(* Mutant: the rows with the latest stamps first (DESC).                   *)
Chunks_LatestFirst ==
    {S \in SUBSET due :
        /\ Cardinality(S) <= ClaimChunk
        /\ Cardinality(S) < ClaimChunk => S = due
        /\ \A m \in S, n \in due \ S : ~Before(m, n)}

(* What the query may return: LIMIT rows, or all.                          *)
Chunks ==
    {S \in SUBSET due :
        /\ Cardinality(S) <= ClaimChunk
        /\ Cardinality(S) < ClaimChunk => S = due
        /\ \A m \in S, n \in due \ S : ~Before(n, m)}

(* Mutant: the claimed rows keep their old stamps.                         *)
Claim_StampKept ==
    /\ ~pushing
    /\ due # {}
    /\ \E S \in Chunks :
        /\ stamped' = stamped \cup S
        /\ due' = due \ S
        /\ passed' = passed \cup ((due \ S) \X S)
    /\ pushing' = TRUE
    /\ UNCHANGED <<rows, older>>

(* The rows of the chunk get one and the same stamp, the latest.           *)
Claim ==
    /\ ~pushing
    /\ due # {}
    /\ \E S \in Chunks :
        /\ stamped' = stamped \cup S
        /\ older' = Forget(older, S) \cup ((stamped \ S) \X S)
        /\ due' = due \ S
        /\ passed' = passed \cup ((due \ S) \X S)
    /\ pushing' = TRUE
    /\ UNCHANGED rows

(* The workers have taken the whole chunk.                                 *)
Pushed ==
    /\ pushing
    /\ pushing' = FALSE
    /\ UNCHANGED <<rows, stamped, older, due, passed>>

-----------------------------------------------------------------------------
Next ==
    \/ \E n \in Node : Insert(n)
    \/ \E n \in Node : Delete(n)
    \/ \E n \in Node : BecomeDue(n)
    \/ \E n \in Node : Withdraw(n)
    \/ Claim
    \/ Pushed

(* The loader's loop goes on as long as the process is up, and the         *)
(* pipeline takes every job in at last (JobsSettle of ProbePipeline).      *)
Spec == Init /\ [][Next]_vars /\ WF_vars(Claim) /\ WF_vars(Pushed)

-----------------------------------------------------------------------------
TypeOK ==
    /\ rows \subseteq Node /\ stamped \subseteq rows /\ due \subseteq rows
    /\ older \subseteq stamped \X stamped
    /\ pushing \in BOOLEAN
    /\ passed \subseteq Node \X Node

(* A due row is overtaken by another row at most once: as long as a row    *)
(* waits, no other row is claimed a second time, unless it was removed and *)
(* added again in between (ORDER BY stamp against rows that become due     *)
(* over and over).                                                         *)
OvertakenOnce ==
    [][Claim => \A n \in due', m \in due \ due' : <<n, m>> \notin passed]_vars

(* Every due row is claimed at last, or is no longer due; provided that    *)
(* rows are not added for ever, since a new row goes before all others.    *)
NoStarvation ==
    <>[][\A n \in Node : ~Insert(n)]_vars =>
        \A n \in Node : n \in due ~> n \notin due
=============================================================================
