------------------------------ MODULE UserPings ------------------------------
(***************************************************************************)
(* What the pings of the users' nodes do to the database: the rows of      *)
(* user_nodes, shared by the updater (updater/updater.go) and by the       *)
(* users' requests (core.SetUserNode, core.DelUserNode), and the rows of   *)
(* user_nodes_history, which outlive them.                                 *)
(*                                                                         *)
(* ProbePipeline says how a claimed row travels through the updater; here  *)
(* the pipeline is a log of pings, each at one of its stages, and the      *)
(* point is what is written, for which time, and in which order: time      *)
(* passes between a claim, the ping and the save of its result, users edit *)
(* and delete the row meanwhile, and results are saved out of order.       *)
(***************************************************************************)
EXTENDS PingCodec, Sequences, FiniteSets, SequencesExt, FiniteSetsExt

CONSTANTS Node,           \* rows: a user's nodes
          Durations,      \* ping durations a satellite may measure
          ClaimInterval,  \* '0.9 minute': a row is due when its stamp is older
          OffAfter,       \* '30 days' of the automatic switch-off
          ClaimChunk,     \* LIMIT of the loader's query
          SaveChunk,      \* results written by one transaction
          MaxTime,        \* bound of the model: the last instant
          MaxPings        \* bound of the model: claims ever made

ASSUME UserPingsAssumption ==
    /\ IsFiniteSet(Node)
    /\ Durations \subseteq Nat
    /\ ClaimInterval \in Nat /\ OffAfter \in Nat
    /\ ClaimChunk \in Nat \ {0} /\ SaveChunk \in Nat \ {0}
    /\ MaxTime \in Nat /\ MaxPings \in Nat

Mode == {"off", "ping"}    \* 'dial' is pinged just like 'ping'
Null == -1                 \* NULL, in the columns that may hold it
Time == 0..MaxTime
NoRow == [mode |-> "none"]

VARIABLES now,
          row,       \* user_nodes
          history,   \* user_nodes_history: history[n][day][slot]
          pings,     \* log of all claims and what became of them
          asked      \* ghost: what the user asked for last, and when

vars == <<now, row, history, pings, asked>>

Exists(n) == row[n] # NoRow

Days == 0..Day(MaxTime)
NoPings == [slot \in 1..DayMinutes |-> 0]

Init ==
    /\ now = 0
    /\ row = [n \in Node |-> NoRow]
    /\ history = [n \in Node |-> [d \in Days |-> NoPings]]
    /\ pings = <<>>
    /\ asked = [n \in Node |-> NoRow]

Tick ==
    /\ now < MaxTime
    /\ now' = now + 1
    /\ UNCHANGED <<row, history, pings, asked>>

-----------------------------------------------------------------------------
(* The users' requests.                                                    *)

(* Mutant: editing a node does not renew details_updated_at.               *)
SetUserNode_DetailsKept(n, mode) ==
    /\ row' = [row EXCEPT ![n] =
                 IF Exists(n)
                   THEN [@ EXCEPT !.mode = mode]
                   ELSE [mode |-> mode, lastPingedAt |-> Null,
                         lastPing |-> Null, lastPingWasOk |-> "null",
                         lastUpAt |-> Null, createdAt |-> now,
                         detailsUpdatedAt |-> now]]
    /\ asked' = [asked EXCEPT ![n] = [mode |-> mode, at |-> now]]
    /\ UNCHANGED <<now, history, pings>>

(* INSERT ... ON CONFLICT DO UPDATE: a known row keeps its ping columns.   *)
SetUserNode(n, mode) ==
    /\ row' = [row EXCEPT ![n] =
                 IF Exists(n)
                   THEN [@ EXCEPT !.mode = mode, !.detailsUpdatedAt = now]
                   ELSE [mode |-> mode, lastPingedAt |-> Null,
                         lastPing |-> Null, lastPingWasOk |-> "null",
                         lastUpAt |-> Null, createdAt |-> now,
                         detailsUpdatedAt |-> now]]
    /\ asked' = [asked EXCEPT ![n] = [mode |-> mode, at |-> now]]
    /\ UNCHANGED <<now, history, pings>>

DelUserNode(n) ==
    /\ Exists(n)
    /\ row' = [row EXCEPT ![n] = NoRow]
    /\ asked' = [asked EXCEPT ![n] = NoRow]
    /\ UNCHANGED <<now, history, pings>>

-----------------------------------------------------------------------------
(* Loader.                                                                 *)

Due == {n \in Node : /\ Exists(n)
                     /\ row[n].mode # "off"
                     /\ \/ row[n].lastPingedAt = Null
                        \/ row[n].lastPingedAt < now - ClaimInterval}

(* ORDER BY last_pinged_at ASC NULLS FIRST LIMIT ClaimChunk; Null is less  *)
(* than every instant, and ties go either way.                             *)
FirstDue(S) ==
    /\ S \subseteq Due
    /\ \/ Cardinality(S) = ClaimChunk
       \/ S = Due /\ Cardinality(S) < ClaimChunk
    /\ \A n \in S, m \in Due \ S : row[n].lastPingedAt <= row[m].lastPingedAt

Claimed(n) == [node |-> n, stage |-> "claimed", at |-> Null, ok |-> FALSE,
               ms |-> 0]

Claim(S) ==
    /\ S # {}
    /\ FirstDue(S)
    /\ Len(pings) + Cardinality(S) <= MaxPings
    /\ row' = [n \in Node |-> IF n \in S
                                THEN [row[n] EXCEPT !.lastPingedAt = now]
                                ELSE row[n]]
    /\ \E order \in SetToSeqs(S) :
         pings' = pings \o [i \in DOMAIN order |-> Claimed(order[i])]
    /\ UNCHANGED <<now, history, asked>>

-----------------------------------------------------------------------------
(* Workers.                                                                *)

(* Claims are picked up in their order (PickedUpInOrder of ProbePipeline); *)
(* the stamp of the ping is the time of the pick-up.                       *)
PickUp(i) ==
    /\ pings[i].stage = "claimed"
    /\ \A h \in 1..(i - 1) : pings[h].stage # "claimed"
    /\ pings' = [pings EXCEPT ![i].stage = "pinging", ![i].at = now]
    /\ UNCHANGED <<now, row, history, asked>>

(* A satellite got through, or none did within its timeout.                *)
Answer(i, ms) ==
    /\ pings[i].stage = "pinging"
    /\ pings' = [pings EXCEPT ![i].stage = "done", ![i].ok = TRUE, ![i].ms = ms]
    /\ UNCHANGED <<now, row, history, asked>>

NoAnswer(i) ==
    /\ pings[i].stage = "pinging"
    /\ pings' = [pings EXCEPT ![i].stage = "done"]
    /\ UNCHANGED <<now, row, history, asked>>

-----------------------------------------------------------------------------
(* Saver.                                                                  *)

LongAgo(stamp) == stamp < now - OffAfter

(* Mutant: the time of the save is taken for the time of the ping.         *)
SaveOk_AtSave(r, p) ==
    [r EXCEPT !.lastPing = p.ms, !.lastPingWasOk = "ok", !.lastUpAt = now]

(* A successful ping updates the row; a failed one clears a flag and may   *)
(* switch the pings of a long dead node off.  A deleted row stays deleted. *)
SaveOk(r, p) ==
    [r EXCEPT !.lastPing = p.ms, !.lastPingWasOk = "ok", !.lastUpAt = p.at]

UpSince(r) == IF r.lastUpAt = Null THEN r.createdAt ELSE r.lastUpAt

(* Mutant: a failed ping sets the duration, which it does not have.        *)
SaveFailed_WithPing(r) ==
    LET off == /\ r.mode # "off"
               /\ LongAgo(UpSince(r))
               /\ LongAgo(r.detailsUpdatedAt)
    IN  [r EXCEPT !.lastPing = 0,
                  !.lastPingWasOk = "fail",
                  !.mode = IF off THEN "off" ELSE @]

SaveFailed(r) ==
    LET off == /\ r.mode # "off"
               /\ LongAgo(UpSince(r))
               /\ LongAgo(r.detailsUpdatedAt)
    IN  [r EXCEPT !.lastPingWasOk = "fail",
                  !.mode = IF off THEN "off" ELSE @]

(* Mutant: the day is the day of the save.                                 *)
SaveItem_Today(db, p) ==
    [row |-> [db.row EXCEPT ![p.node] =
                IF @ = NoRow THEN @
                ELSE IF p.ok THEN SaveOk(@, p)
                ELSE SaveFailed(@)],
     history |-> [db.history EXCEPT ![p.node][Day(now)][Slot(p.at)] =
                    PingValue(p.at, p.ok, p.ms)]]

(* One item of a chunk: first the row, then the slot of the history, whose *)
(* row for the day is inserted if need be, and whether or not user_nodes   *)
(* still has the node.                                                     *)
SaveItem(db, p) ==
    [row |-> [db.row EXCEPT ![p.node] =
                IF @ = NoRow THEN @
                ELSE IF p.ok THEN SaveOk(@, p)
                ELSE SaveFailed(@)],
     history |-> [db.history EXCEPT ![p.node][Day(p.at)][Slot(p.at)] =
                    PingValue(p.at, p.ok, p.ms)]]

Done == {i \in DOMAIN pings : pings[i].stage = "done"}

(* The database after the items of a chunk, one after the other.           *)
SaveAll(order) ==
    LET db[k \in 0..Len(order)] ==
          IF k = 0 THEN [row |-> row, history |-> history]
                   ELSE SaveItem(db[k - 1], pings[order[k]])
    IN  db[Len(order)]

(* A chunk: its items were sent by different workers, in any order.        *)
Save(C) ==
    /\ \E order \in SetToSeqs(C) : /\ row' = SaveAll(order).row
                                   /\ history' = SaveAll(order).history
    /\ pings' = [i \in DOMAIN pings |->
                    IF i \in C THEN [pings[i] EXCEPT !.stage = "saved"]
                               ELSE pings[i]]
    /\ UNCHANGED <<now, asked>>

(* The process ends, for any reason, and is started again.                 *)
Restart ==
    /\ pings' = [i \in DOMAIN pings |->
                    IF pings[i].stage = "saved" THEN pings[i]
                    ELSE [pings[i] EXCEPT !.stage = "lost"]]
    /\ UNCHANGED <<now, row, history, asked>>

-----------------------------------------------------------------------------
Next ==
    \/ Tick
    \/ \E n \in Node, mode \in Mode : SetUserNode(n, mode)
    \/ \E n \in Node : DelUserNode(n)
    \/ \E S \in SUBSET Node : Claim(S)
    \/ \E i \in DOMAIN pings : PickUp(i)
    \/ \E i \in DOMAIN pings, ms \in Durations : Answer(i, ms)
    \/ \E i \in DOMAIN pings : NoAnswer(i)
    \/ \E C \in kSubset(SaveChunk, Done) : Save(C)
    \/ Restart

Spec == Init /\ [][Next]_vars

-----------------------------------------------------------------------------
(* Properties.                                                             *)

Ping == [node : Node, stage : {"claimed", "pinging", "done", "saved", "lost"},
         at : Time \cup {Null}, ok : BOOLEAN, ms : Durations \cup {0}]

Row == [mode : Mode, lastPingedAt : Time \cup {Null},
        lastPing : Durations \cup {Null}, lastPingWasOk : {"null", "ok", "fail"},
        lastUpAt : Time \cup {Null}, createdAt : Time, detailsUpdatedAt : Time]

TypeOK ==
    /\ now \in Time
    /\ row \in [Node -> Row \cup {NoRow}]
    /\ \A n \in Node, d \in Days, s \in 1..DayMinutes : history[n][d][s] \in Nat
    /\ pings \in Seq(Ping)
    /\ asked \in [Node -> [mode : Mode, at : Time] \cup {NoRow}]

Saved(p) == p.stage = "saved"

SavedValues(n, d, s) ==
    {PingValue(p.at, p.ok, p.ms) :
        p \in {q \in ToSet(pings) : /\ Saved(q) /\ q.node = n
                                    /\ Day(q.at) = d /\ Slot(q.at) = s}}

(* Every slot of the history tells the outcome of a ping made in that very *)
(* minute of that very day, and a minute with a saved ping is never blank: *)
(* results saved after midnight, saved out of order, or saved after the    *)
(* user deleted the node included (the saver's history queries; the table  *)
(* has no reference to user_nodes so that nothing of it is lost).          *)
HistoryIsTrue ==
    \A n \in Node, d \in Days, s \in 1..DayMinutes :
        LET values == SavedValues(n, d, s)
        IN  IF values = {} THEN history[n][d][s] = 0
            ELSE history[n][d][s] \in values

(* The user has the last word on a row, whatever results are still under   *)
(* way: a row exists if and only if the user's last request was to have    *)
(* it, and its mode is the one asked for, except that pings asked for may  *)
(* be off once OffAfter has passed since the request (the switch-off of    *)
(* the saver against SetUserNode and DelUserNode).                         *)
UserHasLastWord ==
    \A n \in Node :
        /\ Exists(n) <=> asked[n] # NoRow
        /\ Exists(n) =>
             \/ row[n].mode = asked[n].mode
             \/ row[n].mode = "off" /\ asked[n].at < now - OffAfter

(* The three columns the saver sets on success agree: the last duration    *)
(* and the last time up are of one successful saved ping of this node, and *)
(* the "was ok" flag is set only if there is such a ping; the flag is a    *)
(* saved result's.                                                         *)
RowTellsOnePing ==
    \A n \in Node : Exists(n) =>
        LET mine == {p \in ToSet(pings) : Saved(p) /\ p.node = n}
            r == row[n]
        IN  /\ \/ r.lastUpAt = Null /\ r.lastPing = Null /\ r.lastPingWasOk # "ok"
               \/ \E p \in mine : p.ok /\ p.at = r.lastUpAt /\ p.ms = r.lastPing
            /\ r.lastPingWasOk = "fail" => \E p \in mine : ~p.ok

(* What the help text of the nodes page says of the switch-off (user_nodes.js:
   "Updates will turn off automatically after a month of offline"): when the
   pings of a node are turned off and not by its user, the node has not
   answered for OffAfter.                                                  *)
Answered(n) == {p \in ToSet(pings) : p.node = n /\ p.ok /\ ~LongAgo(p.at)}

OffAfterMonthOffline ==
    [][\A n \in Node :
         /\ Exists(n) /\ row[n].mode # "off"
         /\ row'[n] # NoRow /\ row'[n].mode = "off"
         /\ UNCHANGED asked
         => Answered(n) = {}]_vars
=============================================================================
