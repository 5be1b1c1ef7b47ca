----------------------------- MODULE Transactions -----------------------------
(***************************************************************************)
(* `storjnet fetch-transactions` (transactions/transactions.go): transfers *)
(* of the token are fetched from Etherscan page by page and then summed up *)
(* per day and hour.  Etherscan is modelled from how the code uses it: it  *)
(* answers with the transfers it knows, oldest block first, a page at most,*)
(* and it may learn of a transfer late, but by one block at most.          *)
(***************************************************************************)
EXTENDS Integers, FiniteSets, Sequences, FiniteSetsExt

CONSTANTS Chain,       \* all transfers [block, at, from, to, value], oldest
                       \* first; a position in it stands for the hash
          Payout,      \* storj_token_known_addresses of kind 'payout'
          Page,        \* transfers Etherscan returns at most: 10000
          HourLen, DayHours,
          MaxTime      \* bound of the model: the last instant

DayLen == DayHours * HourLen
Transfers == DOMAIN Chain

ASSUME ChainType ==
    /\ Len(Chain) \in Nat /\ Transfers = 1..Len(Chain)
    /\ \A t \in Transfers : {Chain[t].block, Chain[t].at, Chain[t].value} \subseteq Nat
    /\ {Page, HourLen, DayHours} \subseteq Nat \ {0}

(* Two neighbouring blocks never fill a page.                              *)
ASSUME ChainAssumption ==
    /\ \A t \in Transfers :
         Cardinality({u \in Transfers :
           Chain[u].block \in {Chain[t].block - 1, Chain[t].block}}) < Page
    /\ \A t, u \in Transfers : t < u => /\ Chain[t].block <= Chain[u].block
                                        /\ Chain[t].at <= Chain[u].at

VARIABLES txNow,
          listed,      \* transfers Etherscan knows
          stored,      \* storj_token_transactions
          summary,     \* storj_token_tx_summaries, by date
          run,         \* the process
          counted      \* ghost: what was stored when a day was first summed

txVars == <<txNow, listed, stored, summary, run, counted>>

Idle == [at |-> "idle"]

TxInit ==
    /\ txNow = 0
    /\ listed = {} /\ stored = {}
    /\ summary = <<>>
    /\ run = Idle
    /\ counted = <<>>

MaxBlock(S) == IF S = {} THEN 0 ELSE Max({Chain[t].block : t \in S})
DayOf(t)  == Chain[t].at \div DayLen
HourOf(t) == (Chain[t].at % DayLen) \div HourLen

TxTick ==
    /\ txNow < MaxTime
    /\ txNow' = txNow + 1
    /\ UNCHANGED <<listed, stored, summary, run, counted>>

List(t) ==
    /\ t \notin listed /\ Chain[t].at <= txNow
    /\ Chain[t].block >= MaxBlock(listed) - 1
    /\ listed' = listed \union {t}
    /\ UNCHANGED <<txNow, stored, summary, run, counted>>

-----------------------------------------------------------------------------
(* Fetching.                                                               *)

StartRun ==
    /\ run = Idle
    /\ run' = [at |-> "request"]
    /\ UNCHANGED <<txNow, listed, stored, summary, counted>>

FirstPage(S) == {t \in S : Cardinality({u \in S : u < t}) < Page}

(* Mutant: older blocks are fetched again.                                 *)
StartBlock_Earlier == MaxBlock(stored) - 3

StartBlock == MaxBlock(stored) - 1

(* To an empty answer Etherscan does not say "OK", which ends the run.     *)
Fetched(page) ==
    IF page = {} THEN Idle
    ELSE [at |-> "insert", page |-> page, asked |-> listed]

(* Mutant: only what is newer than the last known block is asked for.      *)
RequestPage_OnlyNew ==
    /\ run.at = "request"
    /\ run' = Fetched(FirstPage({t \in listed :
                                 Chain[t].block > MaxBlock(stored)}))
    /\ UNCHANGED <<txNow, listed, stored, summary, counted>>

RequestPage ==
    /\ run.at = "request"
    /\ LET from == StartBlock
       IN  run' = Fetched(FirstPage({t \in listed : Chain[t].block >= from}))
    /\ UNCHANGED <<txNow, listed, stored, summary, counted>>

(* ON CONFLICT (hash) DO NOTHING, all of the page in one transaction; a    *)
(* full page means that there may be more.                                 *)
InsertPage ==
    /\ run.at = "insert"
    /\ stored' = stored \union run.page
    /\ run' = [at |-> IF Cardinality(run.page) = Page THEN "request" ELSE "start",
               asked |-> run.asked]
    /\ UNCHANGED <<txNow, listed, summary, counted>>

-----------------------------------------------------------------------------
(* Summing up.                                                             *)

(* Mutant: the last summed day is taken to be complete.                    *)
StartDate_Next ==
    IF summary # <<>> THEN Max(DOMAIN summary) + 1
    ELSE Min({DayOf(t) : t \in stored})

StartDate ==
    IF summary # <<>> THEN Max(DOMAIN summary)
    ELSE Min({DayOf(t) : t \in stored})

(* --summary-start-date makes a run redo a day.                              *)
ChooseStart ==
    /\ run.at = "start"
    /\ \E date \in {StartDate} \union DOMAIN summary :
         run' = [at |-> "sum", date |-> date]
    /\ UNCHANGED <<txNow, listed, stored, summary, counted>>

IsPreparing(t) == Chain[t].to \in Payout /\ Chain[t].from \notin Payout
IsPayout(t)    == Chain[t].from \in Payout /\ Chain[t].to \notin Payout
Value(t) == Chain[t].value
SumOf(S) == MapThenSumSet(Value, S)

(* Of the rows of an hour UNION drops those equal to another: transfers of *)
(* one value between the same addresses count once.                        *)
SameRow(t, u) ==
    /\ Chain[t].value = Chain[u].value
    /\ Chain[t].from = Chain[u].from /\ Chain[t].to = Chain[u].to

HourRows(S, day, hour) ==
    LET hourly == {t \in S : DayOf(t) = day /\ HourOf(t) = hour}
    IN  {t \in hourly : ~\E u \in hourly : u < t /\ SameRow(t, u)}

(* All transfers until the end of the day that leave a wallet which was    *)
(* ever paid, or pay it.                                                   *)
WalletTransfers(S, day) ==
    LET past == {t \in S : DayOf(t) <= day}
        paid == {Chain[t].to : t \in {u \in past : IsPayout(u)}}
    IN  {t \in past : /\ Chain[t].to \notin Payout
                      /\ \/ Chain[t].from \in paid
                         \/ Chain[t].to \in paid /\ Chain[t].from \in Payout}

(* limits[a] when the loop over them comes to t: what the wallet was paid  *)
(* and has not withdrawn.                                                  *)
Limit(relevant, a, t) ==
    LET before == {u \in relevant : u < t}
    IN  SumOf({u \in before : Chain[u].from \in Payout /\ Chain[u].to = a})
        - SumOf({u \in before : Chain[u].from \notin Payout /\ Chain[u].from = a})

(* A transfer at the very start of the day is not After(date).             *)
Withdrawals(S, day, hour) ==
    LET relevant == WalletTransfers(S, day)
        delta(t) == Value(t) + Limit(relevant, Chain[t].from, t)
    IN  MapThenSumSet(delta, {t \in relevant : /\ Chain[t].from \notin Payout
                                               /\ Chain[t].at > day * DayLen
                                               /\ DayOf(t) = day /\ HourOf(t) = hour
                                               /\ delta(t) > 0})

DaySummary(S, day) ==
    [h \in 0..(DayHours - 1) |->
       LET rows == HourRows(S, day, h)
           payouts == {t \in rows : IsPayout(t)}
       IN  [preparings  |-> SumOf({t \in rows : IsPreparing(t)}),
            payouts     |-> SumOf(payouts),
            count       |-> Cardinality(payouts),
            withdrawals |-> Withdrawals(S, day, h)]]

WithDay(f, day, v) ==
    [d \in DOMAIN f \union {day} |-> IF d = day THEN v ELSE f[d]]

(* One day, in one transaction; the loop goes on while date is before now. *)
UpdateDay ==
    /\ run.at = "sum"
    /\ run.date * DayLen < txNow
    /\ summary' = WithDay(summary, run.date, DaySummary(stored, run.date))
    /\ counted' = IF run.date \in DOMAIN counted THEN counted
                  ELSE WithDay(counted, run.date, stored)
    /\ run' = [run EXCEPT !.date = @ + 1]
    /\ UNCHANGED <<txNow, listed, stored>>

EndRun ==
    /\ run.at = "sum"
    /\ run.date * DayLen >= txNow
    /\ run' = Idle
    /\ UNCHANGED <<txNow, listed, stored, summary, counted>>

(* An error of Etherscan or of the database ends the process, and so does  *)
(* a kill; cron starts the next one.                                       *)
RunFails ==
    /\ run # Idle
    /\ run' = Idle
    /\ UNCHANGED <<txNow, listed, stored, summary, counted>>

FetchStep == RequestPage \/ InsertPage
RunStep == FetchStep \/ ChooseStart \/ UpdateDay \/ EndRun

(* Requests and statements are taken to end; none of them has a timeout.   *)
TxFairness == WF_txVars(FetchStep)

TxNext ==
    \/ TxTick
    \/ \E t \in Transfers : List(t)
    \/ StartRun
    \/ RunStep
    \/ RunFails
-----------------------------------------------------------------------------
(* Once a run has stopped asking for pages, everything Etherscan knew when *)
(* the last one was asked for is in the table: nothing is lost where pages *)
(* are cut, at a failure between them, or when a transfer is listed late.  *)
NothingSkipped == run.at = "start" => run.asked \subseteq stored

Payouts(S, d) == {t \in S : DayOf(t) = d /\ IsPayout(t)}
DayPayouts(d) ==
    MapThenSumSet(LAMBDA h : summary[d][h].payouts, DOMAIN summary[d])

(* The payouts of a day are never overstated, and once a run has passed    *)
(* the day they are all there, unless two equal ones share an hour or one  *)
(* came after the next day was first summed: until then every run redoes   *)
(* the day, and failures before or between the days are made up for.       *)
PayoutsAddUp ==
    \A d \in DOMAIN summary :
      LET payouts == Payouts(stored, d)
      IN  /\ DayPayouts(d) <= SumOf(payouts)
          /\ /\ ~\E t, u \in payouts : t # u /\ HourOf(t) = HourOf(u) /\ SameRow(t, u)
             /\ IF d + 1 \in DOMAIN summary THEN payouts \subseteq counted[d + 1]
                ELSE run.at = "sum" /\ run.date = d + 1
             => DayPayouts(d) = SumOf(payouts)

(* storj_tx_summary.js calls withdrawals "token transfers from SNO wallets"*)
(* and shows them as coins withdrawn: no hour's exceed what left wallets.  *)
WithdrawalsAreTransfers ==
    \A d \in DOMAIN summary : \A h \in DOMAIN summary[d] :
      summary[d][h].withdrawals <=
        SumOf({t \in stored : /\ DayOf(t) = d /\ HourOf(t) = h
                              /\ Chain[t].from \notin Payout})

(* A run that does not fail comes to the end of its pages: none is asked   *)
(* for again and again.                                                    *)
FetchEnds == run.at \in {"request", "insert"} ~> run.at \in {"idle", "start"}
=============================================================================
