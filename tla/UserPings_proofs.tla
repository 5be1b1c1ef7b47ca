--------------------------- MODULE UserPings_proofs ---------------------------
(***************************************************************************)
(* Proofs about UserPings, for all sets of nodes and durations, all        *)
(* lengths of days, minutes and intervals, all sizes of chunks, any number *)
(* of pings and any end of time.                                           *)
(***************************************************************************)
EXTENDS UserPings, CommonLemmas

Slots == 1..DayMinutes
Rows == [Node -> Row \cup {NoRow}]
Histories == [Node -> [Days -> [Slots -> Nat]]]
Asks == [Node -> [mode : Mode, at : Time] \cup {NoRow}]

(* What a ping leaves behind once it is saved.                             *)
Outcome(p) == [node |-> p.node, at |-> p.at, ok |-> p.ok, ms |-> p.ms]
Outcomes == {Outcome(pings[i]) : i \in {j \in DOMAIN pings : Saved(pings[j])}}

OutcomeOf(n, d, s, o) == o.node = n /\ Day(o.at) = d /\ Slot(o.at) = s
ValueOf(o) == PingValue(o.at, o.ok, o.ms)

(* HistoryIsTrue, for one value v and the outcomes in O.                   *)
SlotTells(n, d, s, v, O) ==
  \/ v = 0 /\ \A o \in O : ~OutcomeOf(n, d, s, o)
  \/ \E o \in O : OutcomeOf(n, d, s, o) /\ v = ValueOf(o)

(* RowTellsOnePing, for one row r and the outcomes in O.                   *)
RowTells(n, r, O) ==
  r # NoRow =>
    /\ \/ r.lastUpAt = Null /\ r.lastPing = Null /\ r.lastPingWasOk # "ok"
       \/ \E o \in O : o.node = n /\ o.ok /\ o.at = r.lastUpAt /\ o.ms = r.lastPing
    /\ r.lastPingWasOk = "fail" => \E o \in O : o.node = n /\ ~o.ok

(* UserHasLastWord, for one row r: details_updated_at is the time of the   *)
(* request, and that is what makes the switch-off wait.                    *)
LastWord(n, r) ==
  /\ r # NoRow <=> asked[n] # NoRow
  /\ r # NoRow =>
       /\ r.detailsUpdatedAt = asked[n].at
       /\ \/ r.mode = asked[n].mode
          \/ r.mode = "off" /\ asked[n].at < now - OffAfter

(* A state of the two tables, of which O are the outcomes saved so far.    *)
TablesTell(rows, hist, O) ==
  /\ rows \in Rows
  /\ hist \in Histories
  /\ \A n \in Node : LastWord(n, rows[n]) /\ RowTells(n, rows[n], O)
  /\ \A n \in Node, d \in Days, s \in Slots : SlotTells(n, d, s, hist[n][d][s], O)

Measured(p) ==
  /\ p.stage \in {"pinging", "done", "saved"} => p.at \in Time
  /\ p.ok => p.ms \in Durations

LogShape ==
  /\ now \in Time
  /\ pings \in Seq(Ping)
  /\ asked \in Asks
  /\ \A i \in DOMAIN pings : Measured(pings[i])

(* The inductive invariant.                                                *)
UserPingsInv == LogShape /\ TablesTell(row, history, Outcomes)

-----------------------------------------------------------------------------
(* Time and the codec.                                                     *)

(* A ping has a slot of a day, and its value is a number.                  *)
LEMMA CodecRange ==
  ASSUME NEW t \in Time
  PROVE  /\ Day(t) \in Days
         /\ Slot(t) \in Slots
         /\ \A ok \in BOOLEAN, ms \in Durations \cup {0} : PingValue(t, ok, ms) \in Nat
<1> USE CodecAssumption, UserPingsAssumption
<1>1. t \in Nat /\ t <= MaxTime /\ MaxTime \in Nat
  BY DEF Time
<1>2. DayLen \in Nat \ {0}
  BY DEF DayLen
<1>3. Day(t) \in Days
  BY <1>1, <1>2, QuotientMonotone DEF Day, Days
<1>4. Slot(t) \in Slots
  <2>1. t % DayLen \in Nat /\ t % DayLen < DayMinutes * MinuteLen
    BY <1>1, <1>2 DEF DayLen
  <2>2. (t % DayLen) \div MinuteLen \in 0..(DayMinutes - 1)
    BY <2>1, QuotientBound
  <2> QED BY <2>2 DEF Slot, Slots
<1>5. ASSUME NEW ok \in BOOLEAN, NEW ms \in Durations \cup {0}
      PROVE  PingValue(t, ok, ms) \in Nat
  <2>1. TimeHint(t) \in Nat
    <3>1. t % MinuteLen \in Nat /\ HintLen \in Nat \ {0}
      BY <1>1
    <3> QED BY <3>1 DEF TimeHint
  <2>2. Clamped(ms) \in Nat
    BY DEF Clamped
  <2>3. TimeHint(t) * Scale \in Nat
    BY <2>1
  <2> QED BY <2>2, <2>3 DEF PingValue
<1> QED BY <1>3, <1>4, <1>5

-----------------------------------------------------------------------------
(* Saving one item.                                                        *)

NewOutcomes == [node : Node, at : Time, ok : BOOLEAN, ms : Durations \cup {0}]

LEMMA OutcomeType ==
  ASSUME NEW p \in Ping, p.at \in Time
  PROVE  /\ Outcome(p) \in NewOutcomes
         /\ Outcome(p).node = p.node /\ Outcome(p).at = p.at
         /\ Outcome(p).ok = p.ok /\ Outcome(p).ms = p.ms
BY DEF Outcome, NewOutcomes, Ping

LEMMA RowFields ==
  ASSUME NEW r \in Row
  PROVE  /\ r # NoRow /\ r.mode \in Mode /\ r.lastPingedAt \in Time \cup {Null}
         /\ r.lastPing \in Durations \cup {Null}
         /\ r.lastPingWasOk \in {"null", "ok", "fail"}
         /\ r.lastUpAt \in Time \cup {Null} /\ r.createdAt \in Time
         /\ r.detailsUpdatedAt \in Time
BY DEF Row, NoRow, Mode

LEMMA SavedRow ==
  ASSUME now \in Time, NEW p \in Ping, p.at \in Time, p.ok => p.ms \in Durations,
         NEW r \in Row, NEW O, LastWord(p.node, r), RowTells(p.node, r, O),
         NEW q, q = IF p.ok THEN SaveOk(r, p) ELSE SaveFailed(r)
  PROVE  /\ q \in Row
         /\ LastWord(p.node, q)
         /\ RowTells(p.node, q, O \cup {Outcome(p)})
<1>1. /\ Outcome(p).node = p.node /\ Outcome(p).at = p.at
      /\ Outcome(p).ok = p.ok /\ Outcome(p).ms = p.ms /\ p.ok \in BOOLEAN
  BY OutcomeType DEF Ping
<1>2. CASE p.ok
  <2>1. /\ q \in Row /\ q.mode = r.mode /\ q.detailsUpdatedAt = r.detailsUpdatedAt
        /\ q.lastPing = p.ms /\ q.lastPingWasOk = "ok" /\ q.lastUpAt = p.at
    BY <1>2 DEF SaveOk, Row
  <2>2. q # NoRow /\ r # NoRow
    BY <2>1, RowFields
  <2>3. LastWord(p.node, q)
    BY <2>1, <2>2 DEF LastWord
  <2>4. RowTells(p.node, q, O \cup {Outcome(p)})
    BY <1>1, <1>2, <2>1 DEF RowTells
  <2> QED BY <2>1, <2>3, <2>4
<1>3. CASE ~p.ok
  <2>1. /\ q \in Row /\ q.detailsUpdatedAt = r.detailsUpdatedAt
        /\ q.lastPing = r.lastPing /\ q.lastPingWasOk = "fail" /\ q.lastUpAt = r.lastUpAt
        /\ q.mode = r.mode \/ (q.mode = "off" /\ LongAgo(r.detailsUpdatedAt))
    <3> DEFINE off == /\ r.mode # "off" /\ LongAgo(UpSince(r))
                      /\ LongAgo(r.detailsUpdatedAt)
               mode == IF off THEN "off" ELSE r.mode
    <3>1. q = [r EXCEPT !.lastPingWasOk = "fail", !.mode = mode]
      BY <1>3 DEF SaveFailed
    <3>2. mode \in Mode /\ (mode = r.mode \/ (mode = "off" /\ LongAgo(r.detailsUpdatedAt)))
      <4>1. r.mode \in Mode
        BY RowFields
      <4> QED BY <4>1 DEF Mode
    <3> HIDE DEF mode
    <3> QED BY <3>1, <3>2 DEF Row
  <2>2. q # NoRow /\ r # NoRow
    BY <2>1, RowFields
  <2>3. LastWord(p.node, q)
    BY <2>1, <2>2 DEF LastWord, LongAgo
  <2>4. RowTells(p.node, q, O \cup {Outcome(p)})
    BY <1>1, <1>3, <2>1, <2>2 DEF RowTells
  <2> QED BY <2>1, <2>3, <2>4
<1> QED BY <1>1, <1>2, <1>3

(* The tables still tell the truth after one more item, of whatever day    *)
(* and whether or not its row is still there.                              *)
LEMMA SavedItem ==
  ASSUME now \in Time, NEW p \in Ping, p.at \in Time, p.ok => p.ms \in Durations,
         NEW prev, NEW O, TablesTell(prev.row, prev.history, O),
         NEW db, db = SaveItem(prev, p)
  PROVE  TablesTell(db.row, db.history, O \cup {Outcome(p)})
<1> DEFINE rows == prev.row
           hist == prev.history
           P == O \cup {Outcome(p)}
           m == p.node
           day == Day(p.at)
           slot == Slot(p.at)
           v == PingValue(p.at, p.ok, p.ms)
<1>1. /\ m \in Node /\ day \in Days /\ slot \in Slots /\ v \in Nat
      /\ p.ok \in BOOLEAN /\ p.ms \in Durations \cup {0}
  BY CodecRange DEF Ping
<1>2. /\ Outcome(p).node = m /\ Outcome(p).at = p.at
      /\ Outcome(p).ok = p.ok /\ Outcome(p).ms = p.ms
  BY OutcomeType
<1>3. rows \in Rows /\ hist \in Histories /\ TablesTell(rows, hist, O)
  BY DEF TablesTell
<1>4. /\ db.row = [rows EXCEPT ![m] = IF @ = NoRow THEN @
                                      ELSE IF p.ok THEN SaveOk(@, p) ELSE SaveFailed(@)]
      /\ db.history = [hist EXCEPT ![m][day][slot] = v]
  BY DEF SaveItem
<1> HIDE DEF rows, hist
<1>5. \A n \in Node : n # m => db.row[n] = rows[n]
  BY <1>1, <1>3, <1>4 DEF Rows
<1>6. /\ db.row[m] \in Row \cup {NoRow}
      /\ LastWord(m, db.row[m]) /\ RowTells(m, db.row[m], P)
  <2>1. LastWord(m, rows[m]) /\ RowTells(m, rows[m], O)
    BY <1>1, <1>3 DEF TablesTell
  <2>2. CASE rows[m] = NoRow
    <3>1. db.row[m] = NoRow
      BY <1>1, <1>3, <1>4, <2>2 DEF Rows
    <3> QED BY <2>1, <2>2, <3>1 DEF RowTells
  <2>3. CASE rows[m] # NoRow
    <3>1. rows[m] \in Row
      BY <1>1, <1>3, <2>3 DEF Rows
    <3>2. db.row[m] = IF p.ok THEN SaveOk(rows[m], p) ELSE SaveFailed(rows[m])
      BY <1>1, <1>3, <1>4, <2>3 DEF Rows
    <3> QED BY <2>1, <3>1, <3>2, SavedRow
  <2> QED BY <2>2, <2>3
<1>7. db.row \in Rows
  BY <1>1, <1>3, <1>4, <1>5, <1>6 DEF Rows
<1>8. /\ db.history \in Histories
      /\ \A n \in Node, d \in Days, s \in Slots :
           db.history[n][d][s] = IF n = m /\ d = day /\ s = slot THEN v
                                 ELSE hist[n][d][s]
  <2> HIDE DEF m, day, slot, v
  <2> DEFINE ofDay == [hist[m][day] EXCEPT ![slot] = v]
             ofNode == [hist[m] EXCEPT ![day] = ofDay]
  <2>1. hist[m] \in [Days -> [Slots -> Nat]] /\ hist[m][day] \in [Slots -> Nat]
    BY <1>1, <1>3 DEF Histories
  <2>2. ofDay \in [Slots -> Nat]
        /\ \A s \in Slots : ofDay[s] = IF s = slot THEN v ELSE hist[m][day][s]
    BY <1>1, <2>1
  <2>3. ofNode \in [Days -> [Slots -> Nat]]
        /\ \A d \in Days : ofNode[d] = IF d = day THEN ofDay ELSE hist[m][d]
    <3> HIDE DEF ofDay
    <3> QED BY <1>1, <2>1, <2>2
  <2>4. db.history = [hist EXCEPT ![m] = ofNode]
    BY <1>4
  <2> HIDE DEF ofDay, ofNode
  <2>5. db.history \in Histories
    BY <1>3, <2>3, <2>4 DEF Histories
  <2>6. \A n \in Node : db.history[n] = IF n = m THEN ofNode ELSE hist[n]
    BY <1>3, <2>4 DEF Histories
  <2> QED BY <2>2, <2>3, <2>5, <2>6
<1>9. ASSUME NEW n \in Node
      PROVE  LastWord(n, db.row[n]) /\ RowTells(n, db.row[n], P)
  <2>1. CASE n = m
    BY <1>6, <2>1
  <2>2. CASE n # m
    <3>1. LastWord(n, rows[n]) /\ RowTells(n, rows[n], O)
      BY <1>3 DEF TablesTell
    <3>2. RowTells(n, rows[n], P)
      BY <3>1 DEF RowTells
    <3> QED BY <1>5, <2>2, <3>1, <3>2
  <2> QED BY <2>1, <2>2
<1>10. ASSUME NEW n \in Node, NEW d \in Days, NEW s \in Slots
       PROVE  SlotTells(n, d, s, db.history[n][d][s], P)
  <2>1. CASE n = m /\ d = day /\ s = slot
    <3>1. db.history[n][d][s] = v
      BY <1>8, <2>1
    <3>2. OutcomeOf(n, d, s, Outcome(p)) /\ ValueOf(Outcome(p)) = v
      BY <1>2, <2>1 DEF OutcomeOf, ValueOf
    <3> QED BY <3>1, <3>2 DEF SlotTells
  <2>2. CASE ~(n = m /\ d = day /\ s = slot)
    <3>1. db.history[n][d][s] = hist[n][d][s]
      BY <1>8, <2>2
    <3>2. ~OutcomeOf(n, d, s, Outcome(p))
      BY <1>2, <2>2 DEF OutcomeOf
    <3>3. SlotTells(n, d, s, hist[n][d][s], O)
      BY <1>3 DEF TablesTell
    <3> QED BY <3>1, <3>2, <3>3 DEF SlotTells
  <2> QED BY <2>1, <2>2
<1> QED BY <1>7, <1>8, <1>9, <1>10 DEF TablesTell

-----------------------------------------------------------------------------
(* Saving a chunk, in the order of its items: induction over the items.    *)

StartOfSave == [row |-> row, history |-> history]

(* SaveAll is what its recursion says.                                     *)
LEMMA SavesInTurn ==
  ASSUME NEW order, Len(order) \in Nat
  PROVE  \E db : /\ db[0] = StartOfSave
                 /\ \A k \in 1..Len(order) : db[k] = SaveItem(db[k - 1], pings[order[k]])
                 /\ SaveAll(order) = db[Len(order)]
<1> DEFINE n == Len(order)
           Step(f, k) == IF k = 0 THEN StartOfSave
                         ELSE SaveItem(f[k - 1], pings[order[k]])
           Unfolds(f, m) == f = [k \in 0..m |-> Step(f, k)]
           Done0 == {m \in 0..n : \E f : Unfolds(f, m)}
<1>1. 0 \in Done0
  <2>1. Unfolds([k \in 0..0 |-> StartOfSave], 0)
    OBVIOUS
  <2>2. 0 \in 0..n
    OBVIOUS
  <2> HIDE DEF Unfolds
  <2> QED BY <2>1, <2>2
<1>2. \A m \in 0..(n - 1) : m \in Done0 => m + 1 \in Done0
  <2> SUFFICES ASSUME NEW m \in 0..(n - 1), m \in Done0 PROVE m + 1 \in Done0
    OBVIOUS
  <2>1. PICK f : Unfolds(f, m)
    OBVIOUS
  <2> DEFINE g == [k \in 0..(m + 1) |->
                     IF k = m + 1 THEN SaveItem(f[m], pings[order[m + 1]]) ELSE f[k]]
  <2>2. ASSUME NEW k \in 0..(m + 1) PROVE g[k] = Step(g, k)
    <3>1. CASE k = m + 1
      <4>1. g[k - 1] = f[m] /\ k # 0
        BY <3>1
      <4> QED BY <3>1, <4>1
    <3>2. CASE k \in 0..m
      <4>1. g[k] = f[k] /\ (k # 0 => g[k - 1] = f[k - 1])
        BY <3>2
      <4>2. f[k] = Step(f, k)
        BY <2>1, <3>2
      <4> QED BY <4>1, <4>2
    <3> QED BY <3>1, <3>2
  <2>3. Unfolds(g, m + 1)
    <3> HIDE DEF Step
    <3> QED BY <2>2
  <2>4. m + 1 \in 0..n
    OBVIOUS
  <2> QED BY <2>3, <2>4
<1>3. n \in Done0
  <2> HIDE DEF Done0
  <2>1. 0..n \subseteq Done0
    BY <1>1, <1>2, InductionUpTo
  <2> QED BY <2>1
<1>4. \E f : Unfolds(f, n)
  BY <1>3
<1> DEFINE db == CHOOSE f : Unfolds(f, n)
<1>5. Unfolds(db, n)
  <2> HIDE DEF Unfolds
  <2> QED BY <1>4
<1>6. SaveAll(order) = db[n]
  BY DEF SaveAll, StartOfSave
<1> HIDE DEF db
<1>7. /\ db[0] = StartOfSave
      /\ \A k \in 1..n : db[k] = SaveItem(db[k - 1], pings[order[k]])
  <2>1. \A k \in 0..n : db[k] = Step(db, k)
    <3> HIDE DEF Step
    <3> QED BY <1>5
  <2> QED BY <2>1
<1> QED BY <1>6, <1>7

(* After the chunk the tables tell of its pings too.                       *)
LEMMA SavedChunk ==
  ASSUME UserPingsInv, NEW C \in SUBSET Done, NEW order \in SetToSeqs(C)
  PROVE  TablesTell(SaveAll(order).row, SaveAll(order).history,
                    Outcomes \cup {Outcome(pings[i]) : i \in C})
<1>1. IsFiniteSet(C)
  <2>1. DOMAIN pings = 1..Len(pings) /\ Len(pings) \in Nat
    BY DEF UserPingsInv, LogShape
  <2>2. IsFiniteSet(DOMAIN pings)
    BY <2>1, FS_Interval
  <2>3. C \in SUBSET DOMAIN pings
    BY DEF Done
  <2> QED BY <2>2, <2>3, FS_Subset
<1> DEFINE n == Cardinality(C)
           Upto(k) == Outcomes \cup {Outcome(pings[order[i]]) : i \in 1..k}
<1>2. /\ n \in Nat /\ Len(order) = n /\ order \in [1..n -> C]
      /\ \A x \in C : \E i \in 1..n : order[i] = x
  BY <1>1, OrderHasAll
<1> HIDE DEF n
<1>3. PICK db : /\ db[0] = StartOfSave
                /\ \A k \in 1..n : db[k] = SaveItem(db[k - 1], pings[order[k]])
                /\ SaveAll(order) = db[n]
  BY <1>2, SavesInTurn
<1> DEFINE Good == {k \in 0..n : TablesTell(db[k].row, db[k].history, Upto(k))}
<1>4. 0 \in Good
  <2>1. Upto(0) = Outcomes
    OBVIOUS
  <2>2. db[0].row = row /\ db[0].history = history
    BY <1>3 DEF StartOfSave
  <2>3. 0 \in 0..n
    BY <1>2
  <2> HIDE DEF Upto
  <2> QED BY <2>1, <2>2, <2>3 DEF UserPingsInv
<1>5. \A k \in 0..(n - 1) : k \in Good => k + 1 \in Good
  <2> SUFFICES ASSUME NEW k \in 0..(n - 1), k \in Good PROVE k + 1 \in Good
    OBVIOUS
  <2> DEFINE p == pings[order[k + 1]]
  <2>1. k + 1 \in 1..n /\ (k + 1) - 1 = k /\ k + 1 \in 0..n
    BY <1>2
  <2>2. order[k + 1] \in DOMAIN pings /\ pings[order[k + 1]].stage = "done"
    BY <1>2, <2>1 DEF Done
  <2>3. p \in Ping /\ Measured(p)
    BY <2>2 DEF UserPingsInv, LogShape
  <2>4. p.at \in Time /\ (p.ok => p.ms \in Durations)
    BY <2>2, <2>3 DEF Measured
  <2>5. now \in Time
    BY DEF UserPingsInv, LogShape
  <2>6. db[k + 1] = SaveItem(db[k], p)
    BY <1>3, <2>1
  <2>7. Upto(k + 1) = Upto(k) \cup {Outcome(p)}
    <3>1. 1..(k + 1) = (1..k) \cup {k + 1}
      BY <2>1
    <3> QED BY <3>1
  <2>8. TablesTell(db[k].row, db[k].history, Upto(k))
    OBVIOUS
  <2> HIDE DEF p, Upto
  <2>9. TablesTell(db[k + 1].row, db[k + 1].history, Upto(k) \cup {Outcome(p)})
    BY <2>3, <2>4, <2>5, <2>6, <2>8, SavedItem
  <2> QED BY <2>1, <2>7, <2>9
<1>6. n \in Good
  <2> HIDE DEF Good
  <2>1. 0..n \subseteq Good
    BY <1>2, <1>4, <1>5, InductionUpTo
  <2> QED BY <1>2, <2>1
<1>7. Upto(n) = Outcomes \cup {Outcome(pings[i]) : i \in C}
  BY <1>2
<1> HIDE DEF Upto
<1> QED BY <1>3, <1>6, <1>7

-----------------------------------------------------------------------------
(* The steps.                                                              *)

LEMMA PingFields ==
  ASSUME NEW p \in Ping
  PROVE  /\ p.node \in Node /\ p.at \in Time \cup {Null} /\ p.ok \in BOOLEAN
         /\ p.ms \in Durations \cup {0}
         /\ p.stage \in {"claimed", "pinging", "done", "saved", "lost"}
BY DEF Ping

LEMMA StageChange ==
  ASSUME NEW p \in Ping, NEW stage \in {"saved", "lost"},
         NEW q, q = [p EXCEPT !.stage = stage]
  PROVE  /\ q \in Ping /\ q.stage = stage /\ q.node = p.node /\ q.at = p.at
         /\ q.ok = p.ok /\ q.ms = p.ms
BY DEF Ping

(* Saving nothing: what happens to a ping on its way leaves no trace.      *)
LEMMA NothingSaved ==
  ASSUME UserPingsInv, pings' \in Seq(Ping), \A i \in DOMAIN pings' : Measured(pings'[i]),
         \A i \in DOMAIN pings : Saved(pings[i]) => i \in DOMAIN pings' /\ pings'[i] = pings[i],
         \A i \in DOMAIN pings' : Saved(pings'[i]) => i \in DOMAIN pings /\ pings'[i] = pings[i]
  PROVE  Outcomes' = Outcomes
<1>1. ASSUME NEW o \in Outcomes PROVE o \in Outcomes'
  <2>1. PICK i \in DOMAIN pings : Saved(pings[i]) /\ o = Outcome(pings[i])
    BY <1>1 DEF Outcomes
  <2>2. i \in DOMAIN pings' /\ pings'[i] = pings[i]
    BY <2>1
  <2> QED BY <2>1, <2>2 DEF Outcomes, Saved, Outcome
<1>2. ASSUME NEW o \in Outcomes' PROVE o \in Outcomes
  <2>1. PICK i \in DOMAIN pings' : Saved(pings'[i]) /\ o = Outcome(pings'[i])
    BY <1>2 DEF Outcomes, Saved, Outcome
  <2>2. i \in DOMAIN pings /\ pings'[i] = pings[i]
    BY <2>1
  <2> QED BY <2>1, <2>2 DEF Outcomes, Saved, Outcome
<1> QED BY <1>1, <1>2

(* The tables are as they were, and so is what the user asked for.         *)
LEMMA TablesUntouched ==
  ASSUME UserPingsInv, LogShape', Outcomes' = Outcomes,
         UNCHANGED <<row, history, asked>>, now <= now'
  PROVE  UserPingsInv'
<1>1. ASSUME NEW n \in Node PROVE LastWord(n, row[n])'
  <2>1. LastWord(n, row[n])
    BY DEF UserPingsInv, TablesTell
  <2>2. asked[n] # NoRow => asked[n].at \in Time
    BY DEF UserPingsInv, LogShape, Asks
  <2>3. now \in Int /\ now' \in Int /\ OffAfter \in Int
    BY UserPingsAssumption DEF UserPingsInv, LogShape, Time
  <2>4. asked[n] # NoRow /\ asked[n].at < now - OffAfter => asked[n].at < now' - OffAfter
    BY <2>2, <2>3 DEF Time
  <2> QED BY <2>1, <2>4 DEF LastWord
<1>2. /\ row' \in Rows /\ history' \in Histories
      /\ \A n \in Node : RowTells(n, row'[n], Outcomes')
      /\ \A n \in Node, d \in Days, s \in Slots : SlotTells(n, d, s, history'[n][d][s], Outcomes')
  BY DEF UserPingsInv, TablesTell
<1> QED BY <1>1, <1>2 DEF UserPingsInv, TablesTell, LastWord, NoRow

LEMMA NoRowIsNoRow ==
  /\ NoRow \notin Row
  /\ \A r \in Row \cup {NoRow} : r # NoRow <=> r \in Row
BY DEF Row, NoRow, Mode

LEMMA PingsInit == Init => UserPingsInv
<1> SUFFICES ASSUME Init PROVE UserPingsInv
  OBVIOUS
<1> USE DEF Init
<1>1. 0 \in Time
  BY UserPingsAssumption DEF Time
<1>2. pings = <<>> /\ pings \in Seq(Ping) /\ DOMAIN pings = {} /\ Outcomes = {}
  BY DEF Outcomes
<1>3. LogShape
  BY <1>1, <1>2 DEF LogShape, Asks
<1>4. history \in Histories
        /\ \A n \in Node, d \in Days, s \in Slots : history[n][d][s] = 0
  BY DEF Histories, NoPings, Slots
<1>5. row \in Rows /\ \A n \in Node : row[n] = NoRow /\ asked[n] = NoRow
  BY DEF Rows
<1>6. TablesTell(row, history, Outcomes)
  BY <1>2, <1>4, <1>5 DEF TablesTell, LastWord, RowTells, SlotTells
<1> QED BY <1>3, <1>6 DEF UserPingsInv

(* A user's request: it touches one row, and pings nobody.                 *)
LEMMA RequestKeeps ==
  ASSUME UserPingsInv, NEW m \in Node, NEW r \in Row \cup {NoRow},
         NEW ask \in [mode : Mode, at : Time] \cup {NoRow},
         row' = [row EXCEPT ![m] = r], asked' = [asked EXCEPT ![m] = ask],
         UNCHANGED <<now, history, pings>>,
         r # NoRow <=> ask # NoRow,
         r # NoRow => r.mode = ask.mode /\ r.detailsUpdatedAt = ask.at,
         RowTells(m, r, Outcomes)
  PROVE  UserPingsInv'
<1>1. row \in Rows /\ asked \in Asks
  BY DEF UserPingsInv, TablesTell, LogShape
<1>2. LogShape'
  BY <1>1 DEF UserPingsInv, LogShape, Asks, Measured
<1>3. Outcomes' = Outcomes
  BY DEF Outcomes, Saved, Outcome
<1>4. row' \in Rows /\ row'[m] = r /\ \A n \in Node : n # m => row'[n] = row[n]
  BY <1>1 DEF Rows
<1>5. asked'[m] = ask /\ \A n \in Node : n # m => asked'[n] = asked[n]
  BY <1>1 DEF Asks
<1>6. ASSUME NEW n \in Node PROVE LastWord(n, row[n])' /\ RowTells(n, row'[n], Outcomes')
  <2>1. CASE n = m
    BY <1>3, <1>4, <1>5, <2>1 DEF LastWord
  <2>2. CASE n # m
    <3>1. LastWord(n, row[n]) /\ RowTells(n, row[n], Outcomes)
      BY DEF UserPingsInv, TablesTell
    <3> QED BY <1>3, <1>4, <1>5, <2>2, <3>1 DEF LastWord
  <2> QED BY <2>1, <2>2
<1>7. /\ history' \in Histories
      /\ \A n \in Node, d \in Days, s \in Slots : SlotTells(n, d, s, history'[n][d][s], Outcomes')
  BY <1>3 DEF UserPingsInv, TablesTell
<1> QED BY <1>2, <1>4, <1>6, <1>7 DEF UserPingsInv, TablesTell, LastWord

LEMMA SetUserNodeKeeps ==
  ASSUME UserPingsInv, NEW n \in Node, NEW mode \in Mode, SetUserNode(n, mode)
  PROVE  UserPingsInv'
<1> DEFINE ask == [mode |-> mode, at |-> now]
           fresh == [mode |-> mode, lastPingedAt |-> Null,
                     lastPing |-> Null, lastPingWasOk |-> "null",
                     lastUpAt |-> Null, createdAt |-> now, detailsUpdatedAt |-> now]
           edited == [row[n] EXCEPT !.mode = mode, !.detailsUpdatedAt = now]
           r == IF Exists(n) THEN edited ELSE fresh
<1>1. row \in Rows /\ now \in Time /\ RowTells(n, row[n], Outcomes)
  BY DEF UserPingsInv, TablesTell, LogShape
<1>2. ask \in [mode : Mode, at : Time] /\ ask # NoRow /\ ask.mode = mode /\ ask.at = now
  <2>1. ask.mode # "none"
    BY DEF Mode
  <2> QED BY <1>1, <2>1 DEF NoRow
<1>3. r \in Row /\ r.mode = mode /\ r.detailsUpdatedAt = now /\ RowTells(n, r, Outcomes)
  <2>1. CASE Exists(n)
    <3>1. row[n] \in Row /\ row[n] # NoRow
      BY <1>1, <2>1 DEF Exists, Rows
    <3>2. /\ edited \in Row /\ edited.mode = mode /\ edited.detailsUpdatedAt = now
          /\ edited.lastUpAt = row[n].lastUpAt /\ edited.lastPing = row[n].lastPing
          /\ edited.lastPingWasOk = row[n].lastPingWasOk
      BY <1>1, <3>1 DEF Row
    <3> HIDE DEF edited
    <3>3. RowTells(n, edited, Outcomes)
      BY <1>1, <3>1, <3>2 DEF RowTells
    <3> QED BY <2>1, <3>2, <3>3
  <2>2. CASE ~Exists(n)
    <3>1. /\ fresh \in Row /\ fresh.mode = mode /\ fresh.detailsUpdatedAt = now
          /\ fresh.lastUpAt = Null /\ fresh.lastPing = Null /\ fresh.lastPingWasOk = "null"
      BY <1>1 DEF Row
    <3> HIDE DEF fresh
    <3>2. RowTells(n, fresh, Outcomes)
      BY <3>1 DEF RowTells
    <3> QED BY <2>2, <3>1, <3>2
  <2> QED BY <2>1, <2>2
<1>4. r # NoRow
  BY <1>3, NoRowIsNoRow
<1>5. /\ row' = [row EXCEPT ![n] = r] /\ asked' = [asked EXCEPT ![n] = ask]
      /\ UNCHANGED <<now, history, pings>>
  BY <1>1 DEF SetUserNode, Rows
<1> HIDE DEF r, ask
<1> QED BY <1>2, <1>3, <1>4, <1>5, RequestKeeps

LEMMA DelUserNodeKeeps ==
  ASSUME UserPingsInv, NEW n \in Node, DelUserNode(n)
  PROVE  UserPingsInv'
<1>1. RowTells(n, NoRow, Outcomes)
  BY DEF RowTells
<1> QED BY <1>1, RequestKeeps DEF DelUserNode

LEMMA ClaimKeeps ==
  ASSUME UserPingsInv, NEW S \in SUBSET Node, Claim(S)
  PROVE  UserPingsInv'
<1>1. row \in Rows /\ now \in Time /\ pings \in Seq(Ping)
  BY DEF UserPingsInv, TablesTell, LogShape
<1>2. \A n \in S : row[n] \in Row /\ row[n] # NoRow
  BY <1>1 DEF Claim, FirstDue, Due, Exists, Rows
<1>3. PICK order \in SetToSeqs(S) :
        pings' = pings \o [i \in DOMAIN order |-> Claimed(order[i])]
  BY DEF Claim
<1> DEFINE n == Cardinality(S)
           new == [i \in DOMAIN order |-> Claimed(order[i])]
<1>4. n \in Nat /\ order \in [1..n -> S]
  BY <1>3, UserPingsAssumption, FS_Subset, OrderHasAll
<1>5. \A m \in Node : Claimed(m) \in Ping /\ Measured(Claimed(m)) /\ ~Saved(Claimed(m))
  BY DEF Claimed, Ping, Measured, Saved
<1>6. new \in Seq(Ping) /\ Len(new) = n
      /\ \A i \in 1..n : Measured(new[i]) /\ ~Saved(new[i])
  BY <1>4, <1>5
<1> HIDE DEF n, new
<1>7. /\ pings' \in Seq(Ping) /\ DOMAIN pings' = 1..(Len(pings) + n)
      /\ \A i \in DOMAIN pings : i \in DOMAIN pings' /\ pings'[i] = pings[i]
      /\ \A i \in DOMAIN pings' : i \notin DOMAIN pings =>
           pings'[i] = new[i - Len(pings)] /\ i - Len(pings) \in 1..n
  <2>1. pings' = pings \o new
    BY <1>3 DEF new
  <2>2. pings' \in Seq(Ping) /\ Len(pings') = Len(pings) + n
    BY <1>1, <1>4, <1>6, <2>1, ConcatProperties
  <2>3. /\ \A i \in 1..Len(pings) : pings'[i] = pings[i]
        /\ \A i \in 1..(Len(pings) + n) : i > Len(pings) => pings'[i] = new[i - Len(pings)]
    BY <1>1, <1>6, <2>1, ConcatProperties
  <2>4. Len(pings) \in Nat /\ DOMAIN pings = 1..Len(pings) /\ DOMAIN pings' = 1..Len(pings')
    BY <1>1, <2>2
  <2> QED BY <1>4, <2>2, <2>3, <2>4
<1>8. \A i \in DOMAIN pings' : Measured(pings'[i])
  BY <1>6, <1>7 DEF UserPingsInv, LogShape
<1>9. Outcomes' = Outcomes
  BY <1>6, <1>7, <1>8, NothingSaved
<1>10. LogShape'
  BY <1>7, <1>8 DEF UserPingsInv, LogShape, Claim, Measured
<1>11. ASSUME NEW m \in Node
       PROVE  /\ row'[m] \in Row \cup {NoRow}
              /\ LastWord(m, row[m])' /\ RowTells(m, row'[m], Outcomes')
  <2>1. LastWord(m, row[m]) /\ RowTells(m, row[m], Outcomes)
    BY DEF UserPingsInv, TablesTell
  <2>2. CASE m \notin S
    <3>1. row'[m] = row[m]
      BY <2>2 DEF Claim
    <3> QED BY <1>1, <1>9, <2>1, <3>1 DEF Rows, LastWord, Claim
  <2>3. CASE m \in S
    <3>1. row'[m] = [row[m] EXCEPT !.lastPingedAt = now] /\ row[m] \in Row
      BY <1>2, <2>3 DEF Claim
    <3>2. /\ row'[m] \in Row /\ row'[m].mode = row[m].mode
          /\ row'[m].detailsUpdatedAt = row[m].detailsUpdatedAt
          /\ row'[m].lastUpAt = row[m].lastUpAt /\ row'[m].lastPing = row[m].lastPing
          /\ row'[m].lastPingWasOk = row[m].lastPingWasOk
      BY <1>1, <3>1 DEF Row
    <3>3. row'[m] # NoRow /\ row[m] # NoRow
      BY <3>1, <3>2, NoRowIsNoRow
    <3>4. UNCHANGED <<now, asked>>
      BY DEF Claim
    <3>5. RowTells(m, row'[m], Outcomes')
      BY <1>9, <2>1, <3>2, <3>3 DEF RowTells
    <3> QED BY <2>1, <3>2, <3>3, <3>4, <3>5 DEF LastWord
  <2> QED BY <2>2, <2>3
<1>12. row' \in Rows
  BY <1>11 DEF Claim, Rows
<1>13. /\ history' \in Histories
       /\ \A m \in Node, d \in Days, s \in Slots : SlotTells(m, d, s, history'[m][d][s], Outcomes')
  BY <1>9 DEF UserPingsInv, TablesTell, Claim
<1> QED BY <1>10, <1>11, <1>12, <1>13 DEF UserPingsInv, TablesTell, LastWord

(* One ping that is not saved moves on to a stage that is not "saved".     *)
LEMMA PingMovesOn ==
  ASSUME UserPingsInv, NEW i \in DOMAIN pings, NEW p \in Ping, Measured(p), ~Saved(p),
         ~Saved(pings[i]), pings' = [pings EXCEPT ![i] = p],
         UNCHANGED <<now, row, history, asked>>
  PROVE  UserPingsInv'
<1>1. pings \in Seq(Ping) /\ \A j \in DOMAIN pings : Measured(pings[j])
  BY DEF UserPingsInv, LogShape
<1>2. /\ pings' \in Seq(Ping) /\ DOMAIN pings' = DOMAIN pings
      /\ pings'[i] = p /\ \A j \in DOMAIN pings : j # i => pings'[j] = pings[j]
  BY <1>1
<1>3. \A j \in DOMAIN pings' : Measured(pings'[j])
  BY <1>1, <1>2
<1>4. Outcomes' = Outcomes
  BY <1>2, <1>3, NothingSaved
<1>5. LogShape'
  BY <1>2, <1>3 DEF UserPingsInv, LogShape, Measured
<1>6. now <= now'
  BY UserPingsAssumption DEF UserPingsInv, LogShape, Time
<1> QED BY <1>4, <1>5, <1>6, TablesUntouched

LEMMA PingSteps ==
  ASSUME UserPingsInv, NEW i \in DOMAIN pings,
         PickUp(i) \/ (\E ms \in Durations : Answer(i, ms)) \/ NoAnswer(i)
  PROVE  UserPingsInv'
<1> DEFINE p == pings[i]
<1>1. p \in Ping /\ Measured(p) /\ now \in Time
  BY DEF UserPingsInv, LogShape
<1>2. CASE PickUp(i)
  <2> DEFINE q == [p EXCEPT !.stage = "pinging", !.at = now]
  <2>1. p.stage = "claimed" /\ pings' = [pings EXCEPT ![i] = q]
        /\ UNCHANGED <<now, row, history, asked>>
    BY <1>2 DEF PickUp
  <2>2. q \in Ping /\ q.stage = "pinging" /\ q.at = now /\ q.ok = p.ok /\ q.ms = p.ms
    BY <1>1 DEF Ping
  <2> HIDE DEF p, q
  <2>3. Measured(q) /\ ~Saved(q) /\ ~Saved(p)
    BY <1>1, <2>1, <2>2 DEF Measured, Saved
  <2> QED BY <2>1, <2>2, <2>3, PingMovesOn DEF p
<1>3. ASSUME NEW ms \in Durations, Answer(i, ms) PROVE UserPingsInv'
  <2> DEFINE q == [p EXCEPT !.stage = "done", !.ok = TRUE, !.ms = ms]
  <2>1. p.stage = "pinging" /\ pings' = [pings EXCEPT ![i] = q]
        /\ UNCHANGED <<now, row, history, asked>>
    BY <1>3 DEF Answer
  <2>2. q \in Ping /\ q.stage = "done" /\ q.at = p.at /\ q.ms = ms
    BY <1>1 DEF Ping
  <2> HIDE DEF p, q
  <2>3. Measured(q) /\ ~Saved(q) /\ ~Saved(p)
    BY <1>1, <2>1, <2>2 DEF Measured, Saved
  <2> QED BY <2>1, <2>2, <2>3, PingMovesOn DEF p
<1>4. CASE NoAnswer(i)
  <2> DEFINE q == [p EXCEPT !.stage = "done"]
  <2>1. p.stage = "pinging" /\ pings' = [pings EXCEPT ![i] = q]
        /\ UNCHANGED <<now, row, history, asked>>
    BY <1>4 DEF NoAnswer
  <2>2. q \in Ping /\ q.stage = "done" /\ q.at = p.at /\ q.ok = p.ok /\ q.ms = p.ms
    BY <1>1 DEF Ping
  <2> HIDE DEF p, q
  <2>3. Measured(q) /\ ~Saved(q) /\ ~Saved(p)
    BY <1>1, <2>1, <2>2 DEF Measured, Saved
  <2> QED BY <2>1, <2>2, <2>3, PingMovesOn DEF p
<1> QED BY <1>2, <1>3, <1>4

LEMMA SaveKeeps ==
  ASSUME UserPingsInv, NEW C \in SUBSET Done, Save(C)
  PROVE  UserPingsInv'
<1> DEFINE Fresh == {Outcome(pings[i]) : i \in C}
<1>1. TablesTell(row', history', Outcomes \cup Fresh)
  <2>1. PICK order \in SetToSeqs(C) : row' = SaveAll(order).row /\ history' = SaveAll(order).history
    BY DEF Save
  <2> HIDE DEF Fresh
  <2> QED BY <2>1, SavedChunk DEF Fresh
<1>2. pings \in Seq(Ping) /\ now \in Time /\ asked \in Asks
      /\ \A i \in DOMAIN pings : Measured(pings[i])
  BY DEF UserPingsInv, LogShape
<1>3. /\ pings' \in Seq(Ping) /\ DOMAIN pings' = DOMAIN pings
      /\ \A i \in DOMAIN pings :
           pings'[i] = IF i \in C THEN [pings[i] EXCEPT !.stage = "saved"] ELSE pings[i]
  <2>1. pings' = [i \in 1..Len(pings) |->
                    IF i \in C THEN [pings[i] EXCEPT !.stage = "saved"] ELSE pings[i]]
    BY <1>2 DEF Save
  <2>2. \A i \in 1..Len(pings) : [pings[i] EXCEPT !.stage = "saved"] \in Ping
    <3> SUFFICES ASSUME NEW i \in 1..Len(pings)
                 PROVE  [pings[i] EXCEPT !.stage = "saved"] \in Ping
      OBVIOUS
    <3>1. pings[i] \in Ping
      BY <1>2
    <3> QED BY <3>1, StageChange
  <2> QED BY <1>2, <2>1, <2>2
<1>4. ASSUME NEW i \in DOMAIN pings
      PROVE  /\ Measured(pings'[i]) /\ Outcome(pings'[i]) = Outcome(pings[i])
             /\ Saved(pings'[i]) <=> Saved(pings[i]) \/ i \in C
  <2>1. CASE i \in C
    <3>1. /\ pings'[i].stage = "saved" /\ pings'[i].node = pings[i].node
          /\ pings'[i].at = pings[i].at /\ pings'[i].ok = pings[i].ok
          /\ pings'[i].ms = pings[i].ms
      <4>1. pings[i] \in Ping
        BY <1>2
      <4> QED BY <1>3, <2>1, <4>1, StageChange
    <3>2. pings[i].stage = "done"
      BY <2>1 DEF Done
    <3> QED BY <1>2, <2>1, <3>1, <3>2 DEF Measured, Outcome, Saved
  <2>2. CASE i \notin C
    BY <1>2, <1>3, <2>2
  <2> QED BY <2>1, <2>2
<1>5. Outcomes' = Outcomes \cup Fresh
  <2>1. ASSUME NEW o \in Outcomes' PROVE o \in Outcomes \cup Fresh
    <3>1. PICK i \in DOMAIN pings' : Saved(pings'[i]) /\ o = Outcome(pings'[i])
      BY <2>1 DEF Outcomes, Saved, Outcome
    <3> QED BY <1>3, <1>4, <3>1 DEF Outcomes
  <2>2. ASSUME NEW o \in Outcomes \cup Fresh PROVE o \in Outcomes'
    <3>1. PICK i \in DOMAIN pings : (Saved(pings[i]) \/ i \in C) /\ o = Outcome(pings[i])
      BY <2>2 DEF Outcomes, Done
    <3>2. i \in DOMAIN pings' /\ Saved(pings'[i]) /\ o = Outcome(pings'[i])
      BY <1>3, <1>4, <3>1
    <3> QED BY <3>2 DEF Outcomes, Saved, Outcome
  <2> QED BY <2>1, <2>2
<1>6. LogShape'
  BY <1>2, <1>3, <1>4 DEF Save, LogShape, Measured
<1>7. UNCHANGED <<now, asked>>
  BY DEF Save
<1> HIDE DEF Fresh
<1> QED BY <1>1, <1>5, <1>6, <1>7 DEF UserPingsInv, TablesTell, LastWord

LEMMA RestartKeeps ==
  ASSUME UserPingsInv, Restart
  PROVE  UserPingsInv'
<1>1. pings \in Seq(Ping) /\ now \in Time /\ asked \in Asks
      /\ \A i \in DOMAIN pings : Measured(pings[i])
  BY DEF UserPingsInv, LogShape
<1>2. /\ pings' \in Seq(Ping) /\ DOMAIN pings' = DOMAIN pings
      /\ \A i \in DOMAIN pings :
           pings'[i] = IF Saved(pings[i]) THEN pings[i] ELSE [pings[i] EXCEPT !.stage = "lost"]
  <2>1. pings' = [i \in 1..Len(pings) |->
                    IF pings[i].stage = "saved" THEN pings[i]
                    ELSE [pings[i] EXCEPT !.stage = "lost"]]
    BY <1>1 DEF Restart
  <2>2. \A i \in 1..Len(pings) : [pings[i] EXCEPT !.stage = "lost"] \in Ping
    <3> SUFFICES ASSUME NEW i \in 1..Len(pings)
                 PROVE  [pings[i] EXCEPT !.stage = "lost"] \in Ping
      OBVIOUS
    <3>1. pings[i] \in Ping
      BY <1>1
    <3> QED BY <3>1, StageChange
  <2> QED BY <1>1, <2>1, <2>2 DEF Saved
<1>3. ASSUME NEW i \in DOMAIN pings
      PROVE  /\ Measured(pings'[i])
             /\ Saved(pings'[i]) => pings'[i] = pings[i]
  <2>1. CASE Saved(pings[i])
    BY <1>1, <1>2, <2>1
  <2>2. CASE ~Saved(pings[i])
    <3>1. pings'[i].stage = "lost" /\ pings'[i].ok = pings[i].ok /\ pings'[i].ms = pings[i].ms
      <4>1. pings[i] \in Ping
        BY <1>1
      <4> QED BY <1>2, <2>2, <4>1, StageChange
    <3> QED BY <1>1, <3>1 DEF Measured, Saved
  <2> QED BY <2>1, <2>2
<1>4. Outcomes' = Outcomes
  BY <1>2, <1>3, NothingSaved
<1>5. LogShape'
  BY <1>1, <1>2, <1>3 DEF Restart, LogShape, Measured
<1>6. now <= now'
  BY <1>1, UserPingsAssumption DEF Restart, Time
<1> QED BY <1>4, <1>5, <1>6, TablesUntouched DEF Restart

LEMMA PingsStep == UserPingsInv /\ [Next]_vars => UserPingsInv'
<1> SUFFICES ASSUME UserPingsInv, [Next]_vars PROVE UserPingsInv'
  OBVIOUS
<1>1. CASE Tick
  <2>1. now' \in Time /\ now <= now'
    BY <1>1, UserPingsAssumption DEF Tick, UserPingsInv, LogShape, Time
  <2>2. Outcomes' = Outcomes
    BY <1>1 DEF Tick, Outcomes, Saved, Outcome
  <2>3. LogShape'
    BY <1>1, <2>1 DEF Tick, UserPingsInv, LogShape, Measured
  <2> QED BY <1>1, <2>1, <2>2, <2>3, TablesUntouched DEF Tick
<1>2. ASSUME NEW n \in Node, NEW mode \in Mode, SetUserNode(n, mode) PROVE UserPingsInv'
  BY <1>2, SetUserNodeKeeps
<1>3. ASSUME NEW n \in Node, DelUserNode(n) PROVE UserPingsInv'
  BY <1>3, DelUserNodeKeeps
<1>4. ASSUME NEW S \in SUBSET Node, Claim(S) PROVE UserPingsInv'
  BY <1>4, ClaimKeeps
<1>5. ASSUME NEW i \in DOMAIN pings,
             PickUp(i) \/ (\E ms \in Durations : Answer(i, ms)) \/ NoAnswer(i)
      PROVE  UserPingsInv'
  BY <1>5, PingSteps
<1>6. ASSUME NEW C \in kSubset(SaveChunk, Done), Save(C) PROVE UserPingsInv'
  BY <1>6, SaveKeeps DEF kSubset
<1>7. CASE Restart
  BY <1>7, RestartKeeps
<1>8. CASE UNCHANGED vars
  <2>1. UNCHANGED <<now, row, history, pings, asked>>
    BY <1>8 DEF vars
  <2>2. Outcomes' = Outcomes
    BY <2>1 DEF Outcomes, Saved, Outcome
  <2> QED BY <2>1, <2>2 DEF UserPingsInv, LogShape, Measured, TablesTell, LastWord
<1> QED BY <1>1, <1>2, <1>3, <1>4, <1>5, <1>6, <1>7, <1>8 DEF Next

LEMMA PingsInvariant == Spec => []UserPingsInv
BY PingsInit, PingsStep, PTL DEF Spec

-----------------------------------------------------------------------------
(* The theorems.                                                           *)

(* What is written in the two tables and in the log has its type: the day  *)
(* and the slot a result is written to exist, the duration is the one that *)
(* was measured (the columns of user_nodes and user_nodes_history).        *)
THEOREM PingsTypeCorrect == Spec => []TypeOK
<1>1. UserPingsInv => TypeOK
  <2> SUFFICES ASSUME UserPingsInv PROVE TypeOK
    OBVIOUS
  <2>1. \A n \in Node, d \in Days, s \in Slots : history[n][d][s] \in Nat
    BY DEF UserPingsInv, TablesTell, Histories
  <2> QED BY <2>1 DEF UserPingsInv, LogShape, TablesTell, TypeOK, Rows, Asks, Slots
<1> QED BY <1>1, PingsInvariant, PTL

(* The saved pings as RowTellsOnePing and HistoryIsTrue speak of them.     *)
LEMMA OutcomesAreSaved ==
  ASSUME UserPingsInv
  PROVE  /\ \A o \in Outcomes : \E p \in ToSet(pings) : Saved(p) /\ o = Outcome(p)
         /\ \A p \in ToSet(pings) : Saved(p) => Outcome(p) \in Outcomes
         /\ \A p : /\ Outcome(p).node = p.node /\ Outcome(p).at = p.at
                  /\ Outcome(p).ok = p.ok /\ Outcome(p).ms = p.ms
BY DEF Outcomes, Outcome, ToSet

(* Every slot of the history tells the outcome of a ping of that very      *)
(* minute, and no saved ping's minute is blank, whenever the results were  *)
(* saved and in whatever order, for every length of day and every chunk.   *)
THEOREM HistoryIsTrueAlways == Spec => []HistoryIsTrue
<1>1. UserPingsInv => HistoryIsTrue
  <2> SUFFICES ASSUME UserPingsInv, NEW n \in Node, NEW d \in Days, NEW s \in 1..DayMinutes
               PROVE  IF SavedValues(n, d, s) = {} THEN history[n][d][s] = 0
                      ELSE history[n][d][s] \in SavedValues(n, d, s)
    BY DEF HistoryIsTrue
  <2> DEFINE Mine == {q \in ToSet(pings) : /\ Saved(q) /\ q.node = n
                                           /\ Day(q.at) = d /\ Slot(q.at) = s}
  <2>1. SlotTells(n, d, s, history[n][d][s], Outcomes)
    BY DEF UserPingsInv, TablesTell, Slots
  <2>2. CASE history[n][d][s] = 0 /\ \A o \in Outcomes : ~OutcomeOf(n, d, s, o)
    <3>1. Mine = {}
      BY <2>2, OutcomesAreSaved DEF OutcomeOf
    <3>2. SavedValues(n, d, s) = {}
      BY <3>1 DEF SavedValues
    <3> QED BY <2>2, <3>2
  <2>3. ASSUME NEW o \in Outcomes, OutcomeOf(n, d, s, o), history[n][d][s] = ValueOf(o)
        PROVE  history[n][d][s] \in SavedValues(n, d, s)
    <3>1. PICK p \in ToSet(pings) : Saved(p) /\ o = Outcome(p)
      BY OutcomesAreSaved
    <3>2. p \in Mine /\ ValueOf(o) = PingValue(p.at, p.ok, p.ms)
      BY <2>3, <3>1, OutcomesAreSaved DEF OutcomeOf, ValueOf
    <3> QED BY <2>3, <3>2 DEF SavedValues
  <2> QED BY <2>1, <2>2, <2>3 DEF SlotTells
<1> QED BY <1>1, PingsInvariant, PTL

(* Whatever results are still under way and in whatever order they are     *)
(* saved: a row exists if and only if its user's last request was to have  *)
(* it, and its mode is the one asked for unless it is switched off, which  *)
(* never happens within OffAfter of the request.                           *)
THEOREM UserHasLastWordAlways == Spec => []UserHasLastWord
<1>1. UserPingsInv => UserHasLastWord
  BY DEF UserPingsInv, TablesTell, LastWord, UserHasLastWord, Exists
<1> QED BY <1>1, PingsInvariant, PTL

(* The columns a successful ping sets agree with one saved ping of this    *)
(* node, and the flag with a saved result, also after chunks in which      *)
(* several results of a node are saved in any order.                       *)
THEOREM RowTellsOnePingAlways == Spec => []RowTellsOnePing
<1>1. UserPingsInv => RowTellsOnePing
  <2> SUFFICES ASSUME UserPingsInv, NEW n \in Node, row[n] # NoRow
               PROVE  LET mine == {p \in ToSet(pings) : Saved(p) /\ p.node = n}
                          r == row[n]
                      IN  /\ \/ /\ r.lastUpAt = Null /\ r.lastPing = Null
                                /\ r.lastPingWasOk # "ok"
                             \/ \E p \in mine : /\ p.ok /\ p.at = r.lastUpAt
                                                /\ p.ms = r.lastPing
                          /\ r.lastPingWasOk = "fail" => \E p \in mine : ~p.ok
    BY DEF RowTellsOnePing, Exists
  <2>1. RowTells(n, row[n], Outcomes)
    BY DEF UserPingsInv, TablesTell
  <2>2. ASSUME NEW o \in Outcomes, o.node = n
        PROVE  \E p \in {q \in ToSet(pings) : Saved(q) /\ q.node = n} :
                 p.ok = o.ok /\ p.at = o.at /\ p.ms = o.ms
    BY <2>2, OutcomesAreSaved
  <2> QED BY <2>1, <2>2 DEF RowTells
<1> QED BY <1>1, PingsInvariant, PTL

=============================================================================
