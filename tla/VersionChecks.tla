----------------------------- MODULE VersionChecks -----------------------------
(***************************************************************************)
(* `storjnet check-versions` (versions/checker.go, core/versions.go) and   *)
(* the subscriptions of the Telegram bot (tgbot/tgbot.go).                 *)
(*                                                                         *)
(* cron starts a check every minute, whether or not the one before has     *)
(* ended.  A check goes through two sources, version.storj.io and GitHub:  *)
(* it reads the last row stored, asks the source, reads the subscribers,   *)
(* sends them the news one by one and only then stores it.  A message is   *)
(* tried three times, and then given up; any other error ends the check    *)
(* where it is.  The sites are external: they publish a version, and may   *)
(* go back to an earlier one for a while.  So is Telegram: a request or    *)
(* the answer to it may be lost.                                           *)
(***************************************************************************)
EXTENDS Integers, FiniteSets, Sequences, SequencesExt

CONSTANTS Checks,       \* processes that may run at once
          Chat,
          MaxVersion,   \* bound of the model: last version, of each source
          MaxEvents,    \* bound of the model: times a site changes its answer,
                        \* a check fails or one starts beside another
          MaxLost       \* bound of the model: tries that get no answer

ASSUME ChecksAssumption ==
    /\ MaxVersion \in [{"StorjIo", "GitHub"} -> Nat \ {0}]
    /\ MaxEvents \in Nat /\ MaxLost \in Nat

Kinds == <<"StorjIo", "GitHub">>   \* in the order of MakeVersionCheckers
Kind == ToSet(Kinds)

(* final: the rollout cursor is all 'f'; GitHub has no cursor.             *)
NoVersion == [version |-> 0, final |-> FALSE]
Answers(k) == [version : 1..MaxVersion[k],
               final : IF k = "StorjIo" THEN BOOLEAN ELSE {FALSE}]
News == UNION {{k} \X Answers(k) : k \in Kind}

Tries == 3   \* of a message

VARIABLES published,    \* what each site answers
          known,        \* ghost: all it ever answered
          events,       \* bounded by MaxEvents
          latest,       \* last row of each kind in versions
          saved,        \* all of its rows
          subscribers,  \* appconfig 'tgbot:version_notif_ids'
          check,        \* the processes
          heard,        \* messages to a chat about some news: 0, 1 or more (2)
          givenUp,      \* ghost: news of which a chat missed all three tries
          unsure,       \* ghost: news of which a message to the chat arrived,
                        \* but not the answer
          lost,         \* tries without an answer, bounded by MaxLost
          owed,         \* ghost: news of a site first made while the chat was
                        \* subscribed, as it has been since
          disturbed     \* ghost: two checks have overlapped, or one has failed

verVars == <<published, known, events, latest, saved, subscribers,
             check, heard, givenUp, unsure, lost, owed, disturbed>>
heardVars == <<heard, givenUp, unsure, lost>>

NoCheck == [at |-> "none"]

VerInit ==
    /\ published = [k \in Kind |-> [NoVersion EXCEPT !.version = 1]]
    /\ known = {<<k, published[k]>> : k \in Kind}
    /\ events = 0
    /\ latest = [k \in Kind |-> NoVersion]
    /\ saved = {}
    /\ subscribers = <<>>
    /\ check = [p \in Checks |-> NoCheck]
    /\ heard = [c \in Chat |-> [n \in News |-> 0]]
    /\ givenUp = [c \in Chat |-> {}]
    /\ unsure = [c \in Chat |-> {}]
    /\ lost = 0
    /\ owed = [c \in Chat |-> {}]
    /\ disturbed = FALSE

Publish(k, answer) ==
    /\ events < MaxEvents
    /\ answer # published[k]
    /\ published' = [published EXCEPT ![k] = answer]
    /\ events' = events + 1
    /\ known' = known \union {<<k, answer>>}
    /\ owed' = [c \in Chat |->
                  IF c \in ToSet(subscribers) /\ <<k, answer>> \notin known
                    THEN owed[c] \union {<<k, answer>>} ELSE owed[c]]
    /\ UNCHANGED <<latest, saved, subscribers, check, heardVars, disturbed>>

-----------------------------------------------------------------------------
(* The bot: one process, one command at a time, each in one transaction.   *)

Subscribe(c) ==
    /\ c \notin ToSet(subscribers)
    /\ subscribers' = Append(subscribers, c)
    /\ UNCHANGED <<published, known, events, latest, saved, check,
                   heardVars, owed, disturbed>>

Unsubscribe(c) ==
    /\ \E i \in DOMAIN subscribers :
         subscribers[i] = c /\ subscribers' = RemoveAt(subscribers, i)
    /\ owed' = [owed EXCEPT ![c] = {}]
    /\ UNCHANGED <<published, known, events, latest, saved, check,
                   heardVars, disturbed>>

-----------------------------------------------------------------------------
(* A check.                                                                *)

To(p, state) == check' = [check EXCEPT ![p] = state]

StartCheck(p) ==
    /\ check[p] = NoCheck
    /\ To(p, [at |-> "prev", i |-> 1])
    /\ IF \A q \in Checks : check[q] = NoCheck
         THEN UNCHANGED <<events, disturbed>>
         ELSE events < MaxEvents /\ events' = events + 1 /\ disturbed' = TRUE
    /\ UNCHANGED <<published, known, latest, saved, subscribers, heardVars, owed>>

FetchPrevVersion(p) ==
    /\ check[p].at = "prev"
    /\ To(p, [at |-> "cur", i |-> check[p].i, prev |-> latest[Kinds[check[p].i]]])
    /\ UNCHANGED <<published, known, events, latest, saved,
                   subscribers, heardVars, owed, disturbed>>

(* Mutant: every other version is news, also an earlier one.               *)
VersionHasChanged_AnyOther(k, prev, cur) ==
    cur.version # prev.version \/ (cur.final /\ ~prev.final)

(* GitHub is known to return to an earlier version for a short time.       *)
VersionHasChanged(k, prev, cur) ==
    IF k = "GitHub" THEN cur.version > prev.version
    ELSE cur.version # prev.version \/ (cur.final /\ ~prev.final)

(* The next source, or the end of the check.                               *)
NextKind(i) == IF i < Len(Kinds) THEN [at |-> "prev", i |-> i + 1] ELSE NoCheck

FetchCurVersion(p) ==
    LET i == check[p].i  k == Kinds[i]
    IN  /\ check[p].at = "cur"
        /\ To(p, IF VersionHasChanged(k, check[p].prev, published[k])
                   THEN [at |-> "list", i |-> i, cur |-> published[k]]
                   ELSE NextKind(i))
        /\ UNCHANGED <<published, known, events, latest, saved,
                       subscribers, heardVars, owed, disturbed>>

ReadSubscribers(p) ==
    /\ check[p].at = "list"
    /\ To(p, [at |-> "send", i |-> check[p].i, cur |-> check[p].cur,
              chats |-> subscribers, failed |-> 0])
    /\ UNCHANGED <<published, known, events, latest, saved,
                   subscribers, heardVars, owed, disturbed>>

(* One try: the message arrives or not, and so does the answer.  Without   *)
(* an answer it is tried again; after the third time the chat is passed    *)
(* over, and the version will be stored all the same.                      *)
SendMessage(p) ==
    LET c == Head(check[p].chats)
        news == <<Kinds[check[p].i], check[p].cur>>
        last == check[p].failed = Tries - 1
    IN  /\ check[p].at = "send" /\ check[p].chats # <<>>
        /\ \E arrived, answered \in BOOLEAN :
             /\ answered => arrived
             /\ ~answered => lost < MaxLost
             /\ lost' = IF answered THEN lost ELSE lost + 1
             /\ To(p, IF answered \/ last
                        THEN [check[p] EXCEPT !.chats = Tail(@), !.failed = 0]
                        ELSE [check[p] EXCEPT !.failed = @ + 1])
             /\ heard' = [heard EXCEPT ![c][news] =
                            IF arrived /\ @ < 2 THEN @ + 1 ELSE @]
             /\ unsure' = [unsure EXCEPT ![c] =
                             IF arrived /\ ~answered THEN @ \union {news} ELSE @]
             /\ givenUp' = [givenUp EXCEPT ![c] =
                              IF last /\ ~answered THEN @ \union {news} ELSE @]
        /\ UNCHANGED <<published, known, events, latest, saved,
                       subscribers, owed, disturbed>>

(* Mutant: the version is stored as soon as it is known.                   *)
SaveCurVersion_First(p) ==
    LET i == check[p].i  k == Kinds[i]
    IN  /\ check[p].at = "list"
        /\ latest' = [latest EXCEPT ![k] = check[p].cur]
        /\ saved' = saved \union {<<k, check[p].cur>>}
        /\ To(p, [at |-> "send", i |-> i, cur |-> check[p].cur,
                  chats |-> subscribers, failed |-> 0])
        /\ UNCHANGED <<published, known, events, subscribers,
                       heardVars, owed, disturbed>>

SaveCurVersion(p) ==
    LET i == check[p].i  k == Kinds[i]
    IN  /\ check[p].at = "send" /\ check[p].chats = <<>>
        /\ latest' = [latest EXCEPT ![k] = check[p].cur]
        /\ saved' = saved \union {<<k, check[p].cur>>}
        /\ To(p, NextKind(i))
        /\ UNCHANGED <<published, known, events, subscribers,
                       heardVars, owed, disturbed>>

(* The database or a site fails, or Telegram before the first message      *)
(* (NewBotAPIWithClient asks it who the bot is), or the process is killed. *)
CheckFails(p) ==
    /\ check[p] # NoCheck
    /\ events < MaxEvents
    /\ events' = events + 1
    /\ To(p, NoCheck)
    /\ disturbed' = TRUE
    /\ UNCHANGED <<published, known, latest, saved, subscribers,
                   heardVars, owed>>

CheckStep(p) ==
    \/ StartCheck(p) \/ FetchPrevVersion(p) \/ FetchCurVersion(p)
    \/ ReadSubscribers(p) \/ SendMessage(p) \/ SaveCurVersion(p)

VerNext ==
    \/ \E k \in Kind : \E answer \in Answers(k) : Publish(k, answer)
    \/ \E c \in Chat : Subscribe(c) \/ Unsubscribe(c)
    \/ \E p \in Checks : CheckStep(p) \/ CheckFails(p)
-----------------------------------------------------------------------------
(* Whoever was subscribed when something became news, and is still, has    *)
(* been written to before it counts as announced, however checks overlap   *)
(* and wherever they fail - or has missed three tries in a row.            *)
EveryoneTold ==
    \A c \in Chat : \A n \in owed[c] \intersect saved :
        heard[c][n] > 0 \/ n \in givenUp[c]

(* A GitHub release is announced to a chat once, also when GitHub returns  *)
(* to the previous one in between; only checks that overlap, or fail after *)
(* some messages, can repeat it, or Telegram's answer that was lost.       *)
AnnouncedOnce ==
    ~disturbed => \A c \in Chat, n \in News :
                    n[1] = "GitHub" => heard[c][n] < 2 \/ n \in unsure[c]
=============================================================================
