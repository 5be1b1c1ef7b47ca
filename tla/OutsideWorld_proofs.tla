------------------------ MODULE OutsideWorld_proofs -------------------------
(* Proofs about what comes from other services and the processes that      *)
(* overlap while they ask for it (MCOutsideWorld), for every value of the  *)
(* constants.                                                              *)
EXTENDS MCOutsideWorld, CommonLemmas

(* The commands by themselves, without fairness.                           *)
VerSpec == VerInit /\ [][VerNext]_verVars
AsSpec == AsInit /\ [][AsNext]_asVars
ScanSpec == ScanInit /\ [][ScanNext]_scanVars

----------------------------------------------------------------------------
(* Sequences of chats.                                                     *)
LEMMA RemoveOne ==
  ASSUME NEW S, NEW q \in Seq(S), NEW i \in DOMAIN q
  PROVE  /\ RemoveAt(q, i) \in Seq(S)
         /\ \A x \in ToSet(q) : x # q[i] => x \in ToSet(RemoveAt(q, i))
         /\ IsInjective(q) => IsInjective(RemoveAt(q, i))
<1> DEFINE a == SubSeq(q, 1, i - 1)
           b == SubSeq(q, i + 1, Len(q))
           r == a \o b
<1>1. Len(q) \in Nat /\ DOMAIN q = 1..Len(q) /\ i \in 1..Len(q) /\ \A j \in 1..Len(q) : q[j] \in S
  BY LenProperties, ElementOfSeq
<1>2. a \in Seq(S) /\ Len(a) = i - 1 /\ \A j \in 1..(i - 1) : a[j] = q[j]
  <2>1. 1 \in Int /\ i - 1 \in Int /\ \A j \in 1..(i - 1) : q[j] \in S
    BY <1>1
  <2>2. a \in Seq(S) /\ Len(a) = (IF 1 <= i - 1 THEN (i - 1) - 1 + 1 ELSE 0)
    BY <2>1, SubSeqProperties
  <2>3. \A j \in 1..((i - 1) - 1 + 1) : a[j] = q[1 + j - 1]
    BY <2>1, SubSeqProperties
  <2> HIDE DEF a
  <2>4. Len(a) = i - 1
    BY <1>1, <2>2
  <2>5. ASSUME NEW j \in 1..(i - 1) PROVE a[j] = q[j]
    <3>1. j \in 1..((i - 1) - 1 + 1) /\ 1 + j - 1 = j
      BY <1>1
    <3>2. QED BY <2>3, <3>1
  <2>6. QED BY <2>2, <2>4, <2>5
<1>3. b \in Seq(S) /\ Len(b) = Len(q) - i /\ \A j \in 1..(Len(q) - i) : b[j] = q[i + j]
  <2>1. i + 1 \in Int /\ Len(q) \in Int /\ \A j \in (i + 1)..Len(q) : q[j] \in S
    BY <1>1
  <2>2. b \in Seq(S) /\ Len(b) = (IF i + 1 <= Len(q) THEN Len(q) - (i + 1) + 1 ELSE 0)
    BY <2>1, SubSeqProperties
  <2>3. \A j \in 1..(Len(q) - (i + 1) + 1) : b[j] = q[(i + 1) + j - 1]
    BY <2>1, SubSeqProperties
  <2> HIDE DEF b
  <2>4. Len(b) = Len(q) - i
    BY <1>1, <2>2
  <2>5. ASSUME NEW j \in 1..(Len(q) - i) PROVE b[j] = q[i + j]
    <3>1. j \in 1..(Len(q) - (i + 1) + 1) /\ (i + 1) + j - 1 = i + j
      BY <1>1
    <3>2. QED BY <2>3, <3>1
  <2>6. QED BY <2>2, <2>4, <2>5
<1> HIDE DEF a, b
<1>4. /\ r \in Seq(S) /\ Len(r) = Len(q) - 1 /\ DOMAIN r = 1..(Len(q) - 1)
      /\ \A j \in 1..(Len(q) - 1) : r[j] = IF j < i THEN q[j] ELSE q[j + 1]
  <2>1. /\ r \in Seq(S) /\ Len(r) = (i - 1) + (Len(q) - i)
        /\ \A j \in 1..((i - 1) + (Len(q) - i)) : r[j] = IF j <= i - 1 THEN a[j] ELSE b[j - (i - 1)]
    <3>1. /\ r \in Seq(S) /\ Len(r) = Len(a) + Len(b)
          /\ \A j \in 1..(Len(a) + Len(b)) : r[j] = IF j <= Len(a) THEN a[j] ELSE b[j - Len(a)]
      BY <1>2, <1>3, ConcatProperties, ZenonT(30)
    <3>2. QED BY <1>2, <1>3, <3>1
  <2>2. (i - 1) + (Len(q) - i) = Len(q) - 1
    BY <1>1
  <2>3. ASSUME NEW j \in 1..(Len(q) - 1)
        PROVE  r[j] = IF j < i THEN q[j] ELSE q[j + 1]
    <3>1. CASE j < i
      BY <1>1, <1>2, <2>1, <2>2, <3>1
    <3>2. CASE ~(j < i)
      <4>1. j - (i - 1) \in 1..(Len(q) - i) /\ i + (j - (i - 1)) = j + 1 /\ ~(j <= i - 1)
        BY <1>1, <3>2
      <4>2. r[j] = b[j - (i - 1)]
        BY <2>1, <2>2, <4>1
      <4>3. QED BY <1>3, <3>2, <4>1, <4>2
    <3>3. QED BY <3>1, <3>2
  <2>4. QED BY <2>1, <2>2, <2>3, LenProperties
<1> HIDE DEF r
<1>5. ASSUME NEW x \in ToSet(q), x # q[i] PROVE x \in ToSet(r)
  <2>1. PICK k \in 1..Len(q) : q[k] = x
    BY <1>1 DEF ToSet
  <2>2. CASE k < i
    <3>1. k \in 1..(Len(q) - 1) BY <1>1, <2>2
    <3>2. QED BY <1>4, <2>1, <2>2, <3>1 DEF ToSet
  <2>3. CASE k > i
    <3>1. k - 1 \in 1..(Len(q) - 1) /\ ~(k - 1 < i) /\ (k - 1) + 1 = k BY <1>1, <2>3
    <3>2. r[k - 1] = x BY <1>4, <2>1, <3>1
    <3>3. QED BY <1>4, <3>1, <3>2 DEF ToSet
  <2>4. QED BY <1>1, <1>5, <2>1, <2>2, <2>3
<1>6. ASSUME IsInjective(q) PROVE IsInjective(r)
  <2>1. ASSUME NEW j \in 1..(Len(q) - 1), NEW k \in 1..(Len(q) - 1), r[j] = r[k] PROVE j = k
    <3> DEFINE From(m) == IF m < i THEN m ELSE m + 1
    <3>1. From(j) \in 1..Len(q) /\ From(k) \in 1..Len(q) /\ q[From(j)] = q[From(k)]
      BY <1>1, <1>4, <2>1
    <3>2. From(j) = From(k)
      BY <1>1, <1>6, <3>1 DEF IsInjective
    <3>3. QED BY <1>1, <3>2
  <2>2. QED BY <1>4, <2>1 DEF IsInjective
<1>7. r = RemoveAt(q, i)
  BY DEF r, a, b, RemoveAt
<1>8. QED BY <1>4, <1>5, <1>6, <1>7

----------------------------------------------------------------------------
(* The shape of the state.                                                 *)
Row == [version : Nat, final : BOOLEAN]
CheckState ==
  {NoCheck} \cup [at : {"prev"}, i : 1..2] \cup [at : {"cur"}, i : 1..2, prev : Row]
  \cup [at : {"list"}, i : 1..2, cur : Row] \cup [at : {"send"}, i : 1..2, cur : Row, chats : Seq(Chat), failed : Nat]
About(p) == <<Kinds[check[p].i], check[p].cur>>

VerShape ==
  /\ DOMAIN published = Kind /\ \A k \in Kind : published[k] \in Answers(k) /\ <<k, published[k]>> \in known
  /\ known \subseteq News
  /\ latest \in [Kind -> Row]
  /\ subscribers \in Seq(Chat)
  /\ check \in [Checks -> CheckState]
  /\ heard \in [Chat -> [News -> 0..2]]
  /\ owed \in [Chat -> SUBSET News]
  /\ givenUp \in [Chat -> SUBSET News] /\ unsure \in [Chat -> SUBSET News]
  /\ disturbed \in BOOLEAN

(* What EveryoneTold rests on: news was published before a check knows of  *)
(* it, whoever is owed any has stayed subscribed since, and so is on the   *)
(* list of a check that sends it, or has been written to or given up.      *)
KnownFirst == \A p \in Checks : check[p].at \in {"list", "send"} => About(p) \in known
SavedKnown == saved \subseteq known
OwedKnown == \A c \in Chat : owed[c] \subseteq known
OwedSubscribed == \A c \in Chat : owed[c] # {} => c \in ToSet(subscribers)
Told(c, n) == heard[c][n] > 0 \/ n \in givenUp[c]
Listed ==
  \A p \in Checks : check[p].at = "send" =>
    \A c \in Chat : About(p) \in owed[c] => c \in ToSet(check[p].chats) \/ Told(c, About(p))

VerInv == VerShape /\ KnownFirst /\ SavedKnown /\ OwedKnown /\ OwedSubscribed /\ Listed /\ EveryoneTold

LEMMA KindFacts ==
  /\ Kind = {"StorjIo", "GitHub"} /\ Len(Kinds) = 2
  /\ Kinds[1] = "StorjIo" /\ Kinds[2] = "GitHub"
  /\ \A i \in 1..2 : Kinds[i] \in Kind
<1>1. /\ DOMAIN Kinds = {1, 2} /\ Len(Kinds) = 2
      /\ Kinds[1] = "StorjIo" /\ Kinds[2] = "GitHub"
  BY DEF Kinds
<1>2. Kind = {"StorjIo", "GitHub"}
  BY <1>1 DEF Kind, ToSet
<1>3. QED BY <1>1, <1>2

LEMMA NewsFacts ==
  /\ \A k \in Kind : Answers(k) \subseteq Row /\ \A a \in Answers(k) : <<k, a>> \in News
  /\ \A k \in Kind : [NoVersion EXCEPT !.version = 1] \in Answers(k)
  /\ NoVersion \in Row
  /\ \A n \in News : n[1] \in Kind /\ n[2] \in Row /\ n = <<n[1], n[2]>>
<1>1. \A k \in Kind : MaxVersion[k] \in Nat \ {0}
  BY ChecksAssumption, KindFacts
<1> DEFINE Finals(k) == IF k = "StorjIo" THEN BOOLEAN ELSE {FALSE}
<1>2. ASSUME NEW k \in Kind
      PROVE  /\ Answers(k) = [version : 1..MaxVersion[k], final : Finals(k)]
             /\ Finals(k) \subseteq BOOLEAN /\ FALSE \in Finals(k)
             /\ 1..MaxVersion[k] \subseteq Nat /\ 1 \in 1..MaxVersion[k]
  <2>1. Finals(k) \subseteq BOOLEAN /\ FALSE \in Finals(k)
    BY Zenon
  <2>2. 1..MaxVersion[k] \subseteq Nat /\ 1 \in 1..MaxVersion[k]
    BY <1>1
  <2>3. QED BY <2>1, <2>2 DEF Answers
<1> HIDE DEF Finals
<1>6. ASSUME NEW k \in Kind PROVE Answers(k) \subseteq Row
  <2>1. ASSUME NEW V, NEW F, V \subseteq Nat, F \subseteq BOOLEAN
        PROVE  [version : V, final : F] \subseteq Row
    BY <2>1 DEF Row
  <2>2. QED BY <1>2, <2>1
<1>3. \A k \in Kind : \A a \in Answers(k) : <<k, a>> \in News
  BY DEF News
<1>4. ASSUME NEW k \in Kind PROVE [NoVersion EXCEPT !.version = 1] \in Answers(k)
  <2>1. ASSUME NEW V, NEW F, 1 \in V, FALSE \in F
        PROVE  [NoVersion EXCEPT !.version = 1] \in [version : V, final : F]
    BY <2>1 DEF NoVersion
  <2>2. QED BY <1>2, <2>1
<1>5. ASSUME NEW n \in News PROVE n[1] \in Kind /\ n[2] \in Row /\ n = <<n[1], n[2]>>
  BY <1>6 DEF News
<1>7. QED BY <1>6, <1>3, <1>4, <1>5 DEF NoVersion, Row

(* What a check remembers at each of its steps.                            *)
LEMMA CheckFacts ==
  ASSUME VerShape, NEW p \in Checks
  PROVE  /\ check[p].at \in {"none", "prev", "cur", "list", "send"}
         /\ check[p] # NoCheck => check[p].at # "none" /\ check[p].i \in 1..2
         /\ check[p].at = "none" => check[p] = NoCheck
         /\ check[p].at = "cur" => check[p] \in [at : {"cur"}, i : 1..2, prev : Row]
         /\ check[p].at = "list" => check[p] \in [at : {"list"}, i : 1..2, cur : Row]
         /\ check[p].at = "send" => check[p] \in [at : {"send"}, i : 1..2, cur : Row, chats : Seq(Chat), failed : Nat]
BY DEF VerShape, CheckState, NoCheck

LEMMA NextKindFacts ==
  ASSUME NEW i \in 1..2
  PROVE  NextKind(i) \in {NoCheck} \cup [at : {"prev"}, i : {2}]
BY KindFacts DEF NextKind

LEMMA VerInitInv == VerInit => VerInv
<1> SUFFICES ASSUME VerInit PROVE VerInv
  OBVIOUS
<1>1. VerShape
  <2>1. /\ DOMAIN published = Kind
        /\ \A k \in Kind : published[k] \in Answers(k) /\ <<k, published[k]>> \in known
        /\ known \subseteq News
    BY NewsFacts DEF VerInit
  <2>2. latest \in [Kind -> Row] /\ subscribers \in Seq(Chat) /\ disturbed \in BOOLEAN
    BY NewsFacts, EmptyQueue DEF VerInit
  <2>3. check \in [Checks -> CheckState] /\ heard \in [Chat -> [News -> 0..2]]
        /\ owed \in [Chat -> SUBSET News] /\ givenUp \in [Chat -> SUBSET News] /\ unsure \in [Chat -> SUBSET News]
    BY DEF VerInit, CheckState
  <2>4. QED BY <2>1, <2>2, <2>3 DEF VerShape
<1>2. QED
  BY <1>1, KindFacts, NewsFacts
     DEF VerInit, VerInv, KnownFirst, SavedKnown, OwedKnown, OwedSubscribed, Listed, EveryoneTold, NoCheck

----------------------------------------------------------------------------
(* A step of a check that sends nothing: it leaves what chats have heard   *)
(* and are owed alone, and finds at most its own state changed.            *)
LEMMA QuietStep ==
  ASSUME VerInv, NEW p \in Checks, NEW state \in CheckState, To(p, state),
         UNCHANGED <<published, known, latest, saved, subscribers, heardVars, owed>>,
         disturbed' \in BOOLEAN,
         state.at \notin {"list", "send"}
  PROVE  VerInv'
<1> USE DEF VerInv, heardVars, Told
<1>1. check' = [check EXCEPT ![p] = state]
  BY DEF To
<1>2. VerShape'
  BY <1>1 DEF VerShape
<1>3. \A q \in Checks : check'[q].at \in {"list", "send"} => check'[q] = check[q]
  BY <1>1 DEF VerShape
<1>4. KnownFirst' /\ Listed'
  BY <1>3 DEF KnownFirst, Listed, About
<1>5. SavedKnown' /\ OwedKnown' /\ OwedSubscribed' /\ EveryoneTold'
  BY DEF SavedKnown, OwedKnown, OwedSubscribed, EveryoneTold
<1>6. QED BY <1>2, <1>4, <1>5

LEMMA PublishKeeps ==
  ASSUME VerInv, NEW k \in Kind, NEW answer \in Answers(k), Publish(k, answer)
  PROVE  VerInv'
<1> USE DEF VerInv, heardVars, Told
<1> DEFINE n == <<k, answer>>
<1>1. /\ published' = [published EXCEPT ![k] = answer]
      /\ known' = known \union {n}
      /\ owed' = [c \in Chat |-> IF c \in ToSet(subscribers) /\ n \notin known
                                 THEN owed[c] \union {n} ELSE owed[c]]
      /\ UNCHANGED <<latest, saved, subscribers, check, heardVars, disturbed>>
  BY DEF Publish
<1>2. n \in News
  BY NewsFacts
<1>3. VerShape'
  <2>1. DOMAIN published' = Kind /\ \A j \in Kind : published'[j] = IF j = k THEN answer ELSE published[j]
    BY <1>1 DEF VerShape
  <2>2. \A j \in Kind : published'[j] \in Answers(j) /\ <<j, published'[j]>> \in known'
    BY <1>1, <2>1 DEF VerShape
  <2>3. known' \subseteq News /\ owed' \in [Chat -> SUBSET News]
    BY <1>1, <1>2 DEF VerShape
  <2>4. QED BY <1>1, <2>1, <2>2, <2>3 DEF VerShape
<1> HIDE DEF n
<1>4. \A c \in Chat : owed'[c] = owed[c] \/ (n \notin known /\ c \in ToSet(subscribers) /\ owed'[c] = owed[c] \union {n})
  BY <1>1 DEF VerShape
<1>5. KnownFirst' /\ SavedKnown' /\ OwedKnown' /\ OwedSubscribed'
  BY <1>1, <1>4 DEF VerShape, KnownFirst, SavedKnown, OwedKnown, OwedSubscribed, About
<1>6. Listed'
  BY <1>1, <1>4 DEF VerShape, KnownFirst, Listed, About
<1>7. EveryoneTold'
  BY <1>1, <1>4 DEF VerShape, SavedKnown, EveryoneTold
<1>8. QED BY <1>3, <1>5, <1>6, <1>7

LEMMA SubscriptionKeeps ==
  ASSUME VerInv, NEW c \in Chat, Subscribe(c) \/ Unsubscribe(c)
  PROVE  VerInv'
<1> USE DEF VerInv, heardVars, Told
<1>1. /\ UNCHANGED <<published, known, latest, saved, check, heardVars, disturbed>>
      /\ subscribers' \in Seq(Chat)
      /\ owed' \in [Chat -> SUBSET News]
      /\ \A d \in Chat : owed'[d] \subseteq owed[d]
      /\ \A d \in Chat : owed'[d] # {} => d \in ToSet(subscribers')
  <2>1. CASE Subscribe(c)
    <3>1. subscribers' = Append(subscribers, c) /\ UNCHANGED owed
      BY <2>1 DEF Subscribe
    <3>2. subscribers' \in Seq(Chat) /\ ToSet(subscribers') = ToSet(subscribers) \cup {c}
      BY <3>1, SendLast DEF VerShape
    <3>3. QED BY <2>1, <3>1, <3>2 DEF Subscribe, VerShape, OwedSubscribed
  <2>2. CASE Unsubscribe(c)
    <3>1. PICK i \in DOMAIN subscribers : subscribers[i] = c /\ subscribers' = RemoveAt(subscribers, i)
      BY <2>2 DEF Unsubscribe
    <3>2. owed' = [owed EXCEPT ![c] = {}]
      BY <2>2 DEF Unsubscribe
    <3>3. subscribers' \in Seq(Chat) /\ \A d \in ToSet(subscribers) : d # c => d \in ToSet(subscribers')
      BY <3>1, RemoveOne DEF VerShape
    <3>4. QED BY <2>2, <3>2, <3>3 DEF Unsubscribe, VerShape, OwedSubscribed
  <2>3. QED BY <2>1, <2>2
<1>2. VerShape'
  BY <1>1 DEF VerShape
<1>3. KnownFirst' /\ SavedKnown' /\ OwedKnown' /\ OwedSubscribed'
  BY <1>1 DEF KnownFirst, SavedKnown, OwedKnown, OwedSubscribed, About
<1>4. Listed' /\ EveryoneTold'
  BY <1>1 DEF Listed, EveryoneTold, About
<1>5. QED BY <1>2, <1>3, <1>4

(* The answer of the site is known, so what a check takes from it is.      *)
LEMMA FetchKeeps ==
  ASSUME VerInv, NEW p \in Checks, FetchCurVersion(p)
  PROVE  VerInv'
<1> USE DEF VerInv, heardVars, Told
<1> DEFINE i == check[p].i
           k == Kinds[i]
           news == [at |-> "list", i |-> i, cur |-> published[k]]
<1>1. /\ check[p].at = "cur" /\ i \in 1..2 /\ k \in Kind
      /\ UNCHANGED <<published, known, latest, saved, subscribers, heardVars, owed, disturbed>>
  BY CheckFacts, KindFacts DEF FetchCurVersion
<1>2. CASE To(p, NextKind(i))
  <2>1. NextKind(i) \in CheckState /\ NextKind(i).at \notin {"list", "send"}
    BY <1>1, NextKindFacts DEF CheckState, NoCheck
  <2>2. disturbed' \in BOOLEAN
    BY <1>1 DEF VerShape
  <2> HIDE DEF VerInv, heardVars, Told
  <2>3. QED BY <1>1, <1>2, <2>1, <2>2, QuietStep
<1>3. CASE To(p, news)
  <2>1. check' = [check EXCEPT ![p] = news]
    BY <1>3 DEF To
  <2>2. published[k] \in Row /\ <<k, published[k]>> \in known
    BY <1>1, NewsFacts DEF VerShape
  <2>3. news \in CheckState
    BY <1>1, <2>2 DEF CheckState
  <2>4. VerShape'
    BY <1>1, <2>1, <2>3 DEF VerShape
  <2>5. KnownFirst'
    BY <1>1, <2>1, <2>2 DEF VerShape, KnownFirst, About
  <2>6. Listed'
    BY <1>1, <2>1 DEF VerShape, Listed, About
  <2>7. SavedKnown' /\ OwedKnown' /\ OwedSubscribed' /\ EveryoneTold'
    BY <1>1 DEF SavedKnown, OwedKnown, OwedSubscribed, EveryoneTold
  <2>8. QED BY <2>4, <2>5, <2>6, <2>7
<1>4. QED BY <1>2, <1>3 DEF FetchCurVersion

(* Whoever is owed the news is subscribed when the list is read.           *)
LEMMA ReadKeeps ==
  ASSUME VerInv, NEW p \in Checks, ReadSubscribers(p)
  PROVE  VerInv'
<1> USE DEF VerInv, heardVars, Told
<1> DEFINE sending == [at |-> "send", i |-> check[p].i, cur |-> check[p].cur, chats |-> subscribers, failed |-> 0]
<1>1. /\ check[p].at = "list" /\ check' = [check EXCEPT ![p] = sending]
      /\ UNCHANGED <<published, known, latest, saved, subscribers, heardVars, owed, disturbed>>
  BY DEF ReadSubscribers, To
<1>2. check[p].i \in 1..2 /\ check[p].cur \in Row
  BY <1>1, CheckFacts
<1>3. sending \in CheckState
  BY <1>2 DEF CheckState, VerShape
<1>4. VerShape'
  BY <1>1, <1>3 DEF VerShape
<1>5. check'[p] = sending /\ \A q \in Checks : q # p => check'[q] = check[q]
  BY <1>1 DEF VerShape
<1>6. KnownFirst'
  BY <1>1, <1>5 DEF KnownFirst, About
<1>7. Listed'
  BY <1>1, <1>5 DEF Listed, OwedSubscribed, About
<1>8. SavedKnown' /\ OwedKnown' /\ OwedSubscribed' /\ EveryoneTold'
  BY <1>1 DEF SavedKnown, OwedKnown, OwedSubscribed, EveryoneTold
<1>9. QED BY <1>4, <1>6, <1>7, <1>8

(* A try: the chat leaves the list, having been written to or given up, or *)
(* stays there; a message without an answer is noted.                      *)
Try(p, left) ==
  /\ check[p].at = "send" /\ check[p].chats # <<>> /\ About(p) \in News /\ check[p].chats \in Seq(Chat)
  /\ UNCHANGED <<published, known, latest, saved, subscribers, owed, disturbed>>
  /\ check' \in [Checks -> CheckState] /\ \A q \in Checks : q # p => check'[q] = check[q]
  /\ check'[p].at = "send" /\ check'[p].i = check[p].i /\ check'[p].cur = check[p].cur
  /\ check'[p].chats = IF left THEN Tail(check[p].chats) ELSE check[p].chats
  /\ heard' \in [Chat -> [News -> 0..2]]
  /\ givenUp' \in [Chat -> SUBSET News] /\ unsure' \in [Chat -> SUBSET News]
  /\ \A c \in Chat : givenUp[c] \subseteq givenUp'[c] /\ unsure[c] \subseteq unsure'[c]
  /\ \A c \in Chat, m \in News : c # Head(check[p].chats) \/ m # About(p) =>
       heard'[c][m] = heard[c][m] /\ (m \in unsure'[c] => m \in unsure[c])
  /\ LET c == Head(check[p].chats)  n == About(p)
     IN  /\ c \in Chat
         /\ heard[c][n] > 0 => heard'[c][n] > 0
         /\ left => heard'[c][n] > 0 \/ n \in givenUp'[c]
         /\ \/ heard'[c][n] = heard[c][n]
            \/ heard'[c][n] = heard[c][n] + 1 /\ left
            \/ n \in unsure'[c]

LEMMA TryFacts ==
  ASSUME VerInv, NEW p \in Checks, SendMessage(p)
  PROVE  \E left \in BOOLEAN : Try(p, left)
<1> DEFINE chats == check[p].chats
           c == Head(chats)
           n == About(p)
           last == check[p].failed = Tries - 1
<1>1. PICK arrived \in BOOLEAN, answered \in BOOLEAN :
        /\ answered => arrived
        /\ check' = [check EXCEPT ![p] = IF answered \/ last
                                           THEN [check[p] EXCEPT !.chats = Tail(@), !.failed = 0]
                                           ELSE [check[p] EXCEPT !.failed = @ + 1]]
        /\ heard' = [heard EXCEPT ![c][n] = IF arrived /\ @ < 2 THEN @ + 1 ELSE @]
        /\ unsure' = [unsure EXCEPT ![c] = IF arrived /\ ~answered THEN @ \union {n} ELSE @]
        /\ givenUp' = [givenUp EXCEPT ![c] = IF last /\ ~answered THEN @ \union {n} ELSE @]
  BY DEF SendMessage, To, About
<1>2. /\ check[p].at = "send" /\ chats # <<>>
      /\ UNCHANGED <<published, known, latest, saved, subscribers, owed, disturbed>>
  BY DEF SendMessage
<1> DEFINE Sending == [at : {"send"}, i : 1..2, cur : Row, chats : Seq(Chat), failed : Nat]
<1>3. check[p] \in Sending /\ n \in News
  BY <1>2, CheckFacts DEF KnownFirst, VerShape, VerInv
<1>4. c \in Chat /\ Tail(chats) \in Seq(Chat) /\ chats \in Seq(Chat)
  BY <1>2, <1>3, TakeHead
<1> DEFINE left == answered \/ last
           next == IF left THEN [check[p] EXCEPT !.chats = Tail(@), !.failed = 0]
                   ELSE [check[p] EXCEPT !.failed = @ + 1]
<1> HIDE DEF last
<1>5. /\ next \in Sending /\ next.i = check[p].i /\ next.cur = check[p].cur
      /\ next.chats = IF left THEN Tail(chats) ELSE chats
  <2>1. [check[p] EXCEPT !.chats = Tail(@), !.failed = 0] \in Sending
    BY <1>3, <1>4
  <2>2. [check[p] EXCEPT !.failed = @ + 1] \in Sending
    BY <1>3
  <2>3. QED BY <1>3, <2>1, <2>2
<1>6. /\ check' \in [Checks -> CheckState] /\ check'[p] = next
      /\ \A q \in Checks : q # p => check'[q] = check[q]
  <2>1. check' = [check EXCEPT ![p] = next] /\ check \in [Checks -> CheckState]
    BY <1>1 DEF VerInv, VerShape
  <2>2. next \in CheckState
    BY <1>5 DEF CheckState
  <2> HIDE DEF next
  <2>3. QED BY <2>1, <2>2
<1>7. /\ check'[p].at = "send" /\ check'[p].i = check[p].i /\ check'[p].cur = check[p].cur
      /\ check'[p].chats = IF left THEN Tail(chats) ELSE chats
  <2> HIDE DEF next
  <2> QED BY <1>5, <1>6
<1> HIDE DEF n, c
<1>8. /\ \A d \in Chat, m \in News :
           heard'[d][m] = IF d = c /\ m = n /\ arrived /\ heard[d][m] < 2 THEN heard[d][m] + 1 ELSE heard[d][m]
      /\ heard' \in [Chat -> [News -> 0..2]]
      /\ \A d \in Chat, m \in News : heard[d][m] \in 0..2
  BY <1>1, <1>3, <1>4 DEF VerInv, VerShape
<1>9. /\ givenUp' \in [Chat -> SUBSET News] /\ unsure' \in [Chat -> SUBSET News]
      /\ \A d \in Chat : givenUp'[d] = IF d = c /\ last /\ ~answered THEN givenUp[d] \union {n} ELSE givenUp[d]
      /\ \A d \in Chat : unsure'[d] = IF d = c /\ arrived /\ ~answered THEN unsure[d] \union {n} ELSE unsure[d]
  BY <1>1, <1>3, <1>4 DEF VerInv, VerShape
<1>10. heard[c][n] > 0 => heard'[c][n] > 0
  BY <1>3, <1>4, <1>8
<1>11. left => heard'[c][n] > 0 \/ n \in givenUp'[c]
  <2>1. CASE answered
    BY <1>1, <1>3, <1>4, <1>8, <2>1
  <2>2. CASE ~answered /\ last
    BY <1>4, <1>9, <2>2
  <2>3. QED BY <2>1, <2>2
<1>12. \/ heard'[c][n] = heard[c][n]
       \/ heard'[c][n] = heard[c][n] + 1 /\ left
       \/ n \in unsure'[c]
  <2>1. CASE ~arrived
    BY <1>3, <1>4, <1>8, <2>1
  <2>2. CASE arrived /\ answered
    BY <1>3, <1>4, <1>8, <2>2
  <2>3. CASE arrived /\ ~answered
    BY <1>4, <1>9, <2>3
  <2>4. QED BY <2>1, <2>2, <2>3
<1>13. /\ \A d \in Chat : givenUp[d] \subseteq givenUp'[d] /\ unsure[d] \subseteq unsure'[d]
       /\ \A d \in Chat, m \in News : d # c \/ m # n =>
            heard'[d][m] = heard[d][m] /\ (m \in unsure'[d] => m \in unsure[d])
  BY <1>8, <1>9
<1> HIDE DEF left
<1>14. Try(p, left)
  BY <1>2, <1>3, <1>4, <1>6, <1>7, <1>8, <1>9, <1>10, <1>11, <1>12, <1>13 DEF Try, n, c
<1>15. left \in BOOLEAN
  BY DEF left, last
<1>16. QED BY <1>14, <1>15

(* A chat leaves the list by being written to or given up.                 *)
LEMMA SendKeeps ==
  ASSUME VerInv, NEW p \in Checks, SendMessage(p)
  PROVE  VerInv'
<1> USE DEF VerInv
<1> DEFINE chats == check[p].chats
           n == About(p)
<1>1. PICK left \in BOOLEAN : Try(p, left)
  BY TryFacts
<1>2. VerShape'
  BY <1>1 DEF VerShape, Try
<1>3. \A q \in Checks : About(q)' = About(q) /\ check'[q].at = check[q].at
  BY <1>1 DEF About, Try
<1>4. KnownFirst'
  BY <1>1, <1>3 DEF KnownFirst, Try
<1>5. \A c \in Chat, m \in News : Told(c, m) => Told(c, m)'
  BY <1>1 DEF Told, Try
<1>6. Listed'
  <2>1. ASSUME NEW q \in Checks, check'[q].at = "send", NEW c \in Chat, About(q)' \in owed'[c]
        PROVE  c \in ToSet(check'[q].chats) \/ Told(c, About(q))'
    <3>1. /\ check[q].at = "send" /\ About(q) \in owed[c] /\ About(q) \in News
          /\ c \in ToSet(check[q].chats) \/ Told(c, About(q))
      BY <1>1, <1>3, <2>1 DEF Listed, VerShape, Try
    <3>2. Told(c, About(q)) => Told(c, About(q))'
      <4>1. About(q)' = About(q)
        BY <1>3
      <4>2. QED BY <1>5, <3>1, <4>1 DEF Told
    <3>3. CASE q # p \/ ~left
      BY <1>1, <3>1, <3>2, <3>3 DEF Try
    <3>4. CASE q = p /\ left
      <4>1. ToSet(chats) = {Head(chats)} \cup ToSet(Tail(chats))
        BY <1>1, TakeHead DEF Try
      <4>2. /\ check'[p].chats = Tail(chats) /\ About(p)' = n
            /\ heard'[Head(chats)][n] > 0 \/ n \in givenUp'[Head(chats)]
        BY <1>1, <1>3, <3>4 DEF Try
      <4>3. CASE c = Head(chats)
        BY <3>4, <4>2, <4>3 DEF Told
      <4>4. CASE c # Head(chats)
        BY <3>1, <3>2, <3>4, <4>1, <4>2, <4>4
      <4>5. QED BY <4>3, <4>4
    <3>5. QED BY <3>3, <3>4
  <2>2. QED BY <2>1 DEF Listed
<1>7. SavedKnown' /\ OwedKnown' /\ OwedSubscribed'
  BY <1>1 DEF SavedKnown, OwedKnown, OwedSubscribed, Try
<1>8. EveryoneTold'
  <2>1. \A c \in Chat : owed'[c] = owed[c] /\ owed[c] \subseteq News /\ saved' = saved
    BY <1>1 DEF Try, VerShape
  <2>2. QED BY <1>5, <2>1 DEF EveryoneTold, Told
<1>9. QED BY <1>2, <1>4, <1>6, <1>7, <1>8

(* The version is stored when nobody is left on the list.                  *)
LEMMA SaveKeeps ==
  ASSUME VerInv, NEW p \in Checks, SaveCurVersion(p)
  PROVE  VerInv'
<1> USE DEF VerInv, heardVars, Told
<1>1. /\ check[p].at = "send" /\ check[p].chats = <<>>
      /\ check' = [check EXCEPT ![p] = NextKind(check[p].i)]
      /\ latest' = [latest EXCEPT ![Kinds[check[p].i]] = check[p].cur]
      /\ saved' = saved \union {About(p)}
      /\ UNCHANGED <<published, known, subscribers, heardVars, owed, disturbed>>
  BY DEF SaveCurVersion, To, About
<1>2. check[p].i \in 1..2 /\ check[p].cur \in Row
  BY <1>1, CheckFacts
<1>3. NextKind(check[p].i) \in CheckState /\ NextKind(check[p].i).at \notin {"list", "send"}
  BY <1>2, NextKindFacts DEF CheckState, NoCheck
<1>4. \A q \in Checks : check'[q].at \in {"list", "send"} => check'[q] = check[q]
  BY <1>1, <1>3 DEF VerShape
<1>5. VerShape'
  BY <1>1, <1>2, <1>3, KindFacts DEF VerShape
<1>6. KnownFirst' /\ Listed'
  BY <1>1, <1>4 DEF KnownFirst, Listed, About
<1>7. SavedKnown' /\ OwedKnown' /\ OwedSubscribed'
  BY <1>1 DEF KnownFirst, SavedKnown, OwedKnown, OwedSubscribed
<1>8. EveryoneTold'
  <2>1. ToSet(check[p].chats) = {}
    BY <1>1, EmptyQueue
  <2>2. \A c \in Chat : About(p) \in owed[c] => Told(c, About(p))
    BY <1>1, <2>1 DEF Listed
  <2>3. QED BY <1>1, <2>2 DEF EveryoneTold
<1>9. QED BY <1>5, <1>6, <1>7, <1>8

LEMMA VerNextInv ==
  ASSUME VerInv, [VerNext]_verVars
  PROVE  VerInv'
<1>1. ASSUME NEW p \in Checks, StartCheck(p) PROVE VerInv'
  <2>1. [at |-> "prev", i |-> 1] \in CheckState
    BY DEF CheckState
  <2>2. disturbed' \in BOOLEAN
    <3>1. disturbed' = disturbed \/ disturbed' = TRUE
      BY <1>1 DEF StartCheck
    <3>2. QED BY <3>1 DEF VerInv, VerShape
  <2>3. QED BY <1>1, <2>1, <2>2, QuietStep DEF StartCheck
<1>2. ASSUME NEW p \in Checks, FetchPrevVersion(p) PROVE VerInv'
  <2> DEFINE asking == [at |-> "cur", i |-> check[p].i, prev |-> latest[Kinds[check[p].i]]]
  <2>1. check[p].i \in 1..2 /\ latest[Kinds[check[p].i]] \in Row /\ disturbed' \in BOOLEAN
    BY <1>2, CheckFacts, KindFacts DEF FetchPrevVersion, VerInv, VerShape, NoCheck
  <2>2. asking \in CheckState /\ asking.at \notin {"list", "send"}
    BY <2>1 DEF CheckState
  <2>3. To(p, asking) /\ UNCHANGED <<published, known, latest, saved, subscribers, heardVars, owed>>
    BY <1>2 DEF FetchPrevVersion
  <2> HIDE DEF asking
  <2>4. QED BY <2>1, <2>2, <2>3, QuietStep
<1>3. ASSUME NEW p \in Checks, CheckFails(p) PROVE VerInv'
  <2>1. NoCheck \in CheckState /\ NoCheck.at \notin {"list", "send"}
    BY DEF CheckState, NoCheck
  <2>2. QED BY <1>3, <2>1, QuietStep DEF CheckFails
<1>4. ASSUME UNCHANGED verVars PROVE VerInv'
  BY <1>4 DEF verVars, VerInv, VerShape, KnownFirst, SavedKnown, OwedKnown, OwedSubscribed, Listed,
              EveryoneTold, Told, heardVars, About
<1>5. QED
  BY <1>1, <1>2, <1>3, <1>4, PublishKeeps, SubscriptionKeeps, FetchKeeps, ReadKeeps, SendKeeps, SaveKeeps
     DEF VerNext, CheckStep

(* Whoever was subscribed when something became news, and is still, has    *)
(* been written to, or has missed three tries in a row, before it counts as*)
(* announced (versions/checker.go 22-86), however many checks overlap and  *)
(* wherever they fail.                                                     *)
THEOREM EveryoneToldAlways == VerSpec => []EveryoneTold
<1>1. VerInv => EveryoneTold BY DEF VerInv
<1>2. QED BY VerInitInv, VerNextInv, <1>1, PTL DEF VerSpec

----------------------------------------------------------------------------
(* What AnnouncedOnce rests on: an undisturbed check is alone, sends only  *)
(* what is newer than the last release stored, and to each chat once; what *)
(* a chat has heard of, unless the answer was lost, is stored, or is what  *)
(* that check sends, with the chat no longer on its list.                  *)
OneAtATime == ~disturbed => \A p, q \in Checks : check[p] # NoCheck /\ check[q] # NoCheck => p = q
Distinct ==
  IsInjective(subscribers) /\ \A p \in Checks : check[p].at = "send" => IsInjective(check[p].chats)
LastRelease == latest["GitHub"].version
Newer ==
  ~disturbed => \A p \in Checks :
    /\ check[p].at = "cur" /\ check[p].i = 2 => check[p].prev = latest["GitHub"]
    /\ check[p].at \in {"list", "send"} /\ check[p].i = 2 => check[p].cur.version > LastRelease
Sent(p, c, n) == check[p].at = "send" /\ About(p) = n /\ c \notin ToSet(check[p].chats)
HeardIsStored ==
  ~disturbed => \A c \in Chat, n \in News :
    n[1] = "GitHub" /\ heard[c][n] > 0 /\ n \notin unsure[c] =>
      n[2].version <= LastRelease \/ \E p \in Checks : Sent(p, c, n)

OnceInv == VerInv /\ OneAtATime /\ Distinct /\ Newer /\ HeardIsStored /\ AnnouncedOnce

LEMMA OnceInitInv == VerInit => OnceInv
<1> SUFFICES ASSUME VerInit PROVE OnceInv
  OBVIOUS
<1>1. IsInjective(subscribers)
  BY EmptyQueue DEF VerInit
<1>2. \A c \in Chat, n \in News : heard[c][n] = 0
  BY DEF VerInit
<1>3. \A p \in Checks : check[p] = NoCheck /\ check[p].at = "none"
  BY DEF VerInit, NoCheck
<1>4. OneAtATime /\ Distinct /\ Newer /\ HeardIsStored /\ AnnouncedOnce
  BY <1>1, <1>2, <1>3 DEF OneAtATime, Distinct, Newer, HeardIsStored, AnnouncedOnce
<1>5. QED BY <1>4, VerInitInv DEF OnceInv

(* A step of a check that neither sends nor stores.                        *)
LEMMA AloneStep ==
  ASSUME OnceInv, VerInv', NEW p \in Checks, NEW state \in CheckState, To(p, state),
         UNCHANGED <<latest, subscribers, heardVars>>,
         ~disturbed' => ~disturbed /\ \A q \in Checks : q # p => check[q] = NoCheck,
         check[p].at # "send" \/ disturbed',
         state.at = "send" => IsInjective(state.chats),
         ~disturbed' => /\ state.at = "cur" /\ state.i = 2 => state.prev = latest["GitHub"]
                        /\ state.at \in {"list", "send"} /\ state.i = 2 => state.cur.version > LastRelease
  PROVE  OnceInv'
<1> USE DEF OnceInv, heardVars
<1>1. check' = [check EXCEPT ![p] = state]
  BY DEF To
<1>2. check'[p] = state /\ \A q \in Checks : q # p => check'[q] = check[q]
  BY <1>1 DEF VerInv, VerShape
<1>3. OneAtATime' /\ Distinct'
  BY <1>2 DEF OneAtATime, Distinct
<1>4. Newer'
  BY <1>2, CheckFacts DEF Newer, LastRelease, VerInv, NoCheck
<1>5. HeardIsStored'
  <2>1. ~disturbed' => \A q \in Checks : check[q].at # "send"
    BY DEF NoCheck
  <2>2. QED BY <2>1 DEF HeardIsStored, Sent, LastRelease
<1>6. AnnouncedOnce'
  BY DEF AnnouncedOnce
<1>7. QED BY <1>3, <1>4, <1>5, <1>6

LEMMA OnceFetch ==
  ASSUME OnceInv, VerInv', NEW p \in Checks, FetchCurVersion(p)
  PROVE  OnceInv'
<1> DEFINE i == check[p].i
           k == Kinds[i]
           news == [at |-> "list", i |-> i, cur |-> published[k]]
<1>1. /\ check[p].at = "cur" /\ i \in 1..2 /\ k \in Kind
      /\ UNCHANGED <<latest, subscribers, heardVars, disturbed>>
  BY CheckFacts, KindFacts DEF FetchCurVersion, OnceInv, VerInv
<1>2. ~disturbed => \A q \in Checks : q # p => check[q] = NoCheck
  BY <1>1 DEF OnceInv, OneAtATime, NoCheck
<1>3. CASE To(p, NextKind(i))
  <2>1. NextKind(i) \in CheckState /\ NextKind(i).at \notin {"cur", "list", "send"}
    BY <1>1, NextKindFacts DEF CheckState, NoCheck
  <2>2. QED BY <1>1, <1>2, <1>3, <2>1, AloneStep
<1>4. CASE To(p, news) /\ VersionHasChanged(k, check[p].prev, published[k])
  <2>1. published[k] \in Row
    BY <1>1, NewsFacts DEF OnceInv, VerInv, VerShape
  <2>2. news \in CheckState /\ news.at = "list" /\ news.i = i /\ news.cur = published[k]
    BY <1>1, <2>1 DEF CheckState
  <2>3. ~disturbed /\ i = 2 => published[k].version > LastRelease
    BY <1>1, <1>4, KindFacts DEF VersionHasChanged, OnceInv, Newer, LastRelease
  <2> HIDE DEF news
  <2>4. QED BY <1>1, <1>2, <1>4, <2>2, <2>3, AloneStep
<1>5. QED BY <1>3, <1>4 DEF FetchCurVersion

LEMMA OnceRead ==
  ASSUME OnceInv, VerInv', NEW p \in Checks, ReadSubscribers(p)
  PROVE  OnceInv'
<1> DEFINE sending == [at |-> "send", i |-> check[p].i, cur |-> check[p].cur, chats |-> subscribers, failed |-> 0]
<1>1. /\ check[p].at = "list" /\ To(p, sending)
      /\ UNCHANGED <<latest, subscribers, heardVars, disturbed>>
  BY DEF ReadSubscribers
<1>2. check[p].i \in 1..2 /\ check[p].cur \in Row
  BY <1>1, CheckFacts DEF OnceInv, VerInv
<1>3. sending \in CheckState
  BY <1>2 DEF CheckState, VerShape, VerInv, OnceInv
<1>4. ~disturbed => \A q \in Checks : q # p => check[q] = NoCheck
  BY <1>1 DEF OnceInv, OneAtATime, NoCheck
<1>5. IsInjective(sending.chats) /\ (~disturbed /\ sending.i = 2 => sending.cur.version > LastRelease)
  BY <1>1 DEF OnceInv, Distinct, Newer
<1>6. QED BY <1>1, <1>3, <1>4, <1>5, AloneStep

(* A message goes to a chat that has not heard of what is sent yet, unless *)
(* an answer was lost, and that is then no longer on the list.             *)
LEMMA OnceSend ==
  ASSUME OnceInv, VerInv', NEW p \in Checks, SendMessage(p)
  PROVE  OnceInv'
<1> USE DEF OnceInv
<1> DEFINE chats == check[p].chats
           n == About(p)
           first == Head(chats)
<1>1. PICK left \in BOOLEAN : Try(p, left)
  BY TryFacts
<1>2. /\ check[p].at = "send" /\ chats # <<>> /\ n \in News /\ chats \in Seq(Chat) /\ first \in Chat
      /\ UNCHANGED <<latest, subscribers, disturbed>>
      /\ \A q \in Checks : q # p => check'[q] = check[q]
  BY <1>1 DEF Try
<1>3. /\ ToSet(chats) = {first} \cup ToSet(Tail(chats))
      /\ IsInjective(chats) => IsInjective(Tail(chats)) /\ first \notin ToSet(Tail(chats))
  BY <1>2, TakeHead
<1>4. /\ check'[p].at = "send" /\ check'[p].i = check[p].i /\ check'[p].cur = check[p].cur
      /\ check'[p].chats = (IF left THEN Tail(chats) ELSE chats) /\ About(p)' = n
      /\ check'[p] # NoCheck
  BY <1>1 DEF About, NoCheck, Try
<1>5. ~disturbed => \A q \in Checks : q # p => check[q] = NoCheck /\ check[q].at = "none"
  BY <1>2 DEF OneAtATime, NoCheck
<1>6. OneAtATime'
  BY <1>2, <1>5 DEF OneAtATime
<1>7. IsInjective(chats) /\ Distinct'
  BY <1>2, <1>3, <1>4 DEF Distinct
<1>8. Newer'
  BY <1>2, <1>4 DEF Newer, LastRelease
<1>9. \A c \in Chat, m \in News : heard[c][m] \in 0..2
  BY DEF VerShape, VerInv
<1>10. n[1] = Kinds[check[p].i] /\ n[2] = check[p].cur /\ (n[1] = "GitHub" => check[p].i = 2)
  BY <1>2, KindFacts, CheckFacts DEF About, VerInv
<1>11. ~disturbed /\ n[1] = "GitHub" => heard[first][n] = 0 \/ n \in unsure[first]
  <2>1. SUFFICES ASSUME ~disturbed, n[1] = "GitHub", heard[first][n] > 0, n \notin unsure[first] PROVE FALSE
    BY <1>2, <1>9
  <2>2. n[2].version > LastRelease
    BY <1>2, <1>10, <2>1 DEF Newer
  <2>3. PICK q \in Checks : Sent(q, first, n)
    <3>1. n[2].version \in Nat /\ LastRelease \in Nat
      BY <1>2, <1>10, KindFacts, NewsFacts DEF VerInv, VerShape, Row, LastRelease
    <3>2. n[2].version <= LastRelease \/ \E q \in Checks : Sent(q, first, n)
      BY <1>2, <2>1 DEF HeardIsStored
    <3> HIDE DEF n, first
    <3>3. QED BY <2>2, <3>1, <3>2
  <2>4. q = p
    BY <1>5, <2>1, <2>3 DEF Sent
  <2>5. QED BY <1>3, <2>3, <2>4 DEF Sent
<1>12. /\ \A c \in Chat : unsure[c] \subseteq unsure'[c]
       /\ \A c \in Chat, m \in News : c # first \/ m # n =>
            heard'[c][m] = heard[c][m] /\ (m \in unsure'[c] => m \in unsure[c])
       /\ \/ heard'[first][n] = heard[first][n]
          \/ heard'[first][n] = heard[first][n] + 1 /\ left
          \/ n \in unsure'[first]
  BY <1>1 DEF Try
<1> HIDE DEF n, first
<1>13. HeardIsStored'
  <2>1. SUFFICES ASSUME ~disturbed, NEW c \in Chat, NEW m \in News, m[1] = "GitHub", heard'[c][m] > 0,
                        m \notin unsure'[c]
                 PROVE  m[2].version <= LastRelease \/ Sent(p, c, m)'
    BY <1>2 DEF HeardIsStored, LastRelease
  <2>2. CASE c = first /\ m = n
    <3>1. heard[first][n] = 0
      BY <1>2, <1>11, <1>12, <2>1, <2>2
    <3>2. left
      BY <1>12, <2>1, <2>2, <3>1
    <3>3. first \notin ToSet(check'[p].chats)
      BY <1>3, <1>4, <1>7, <3>2
    <3>4. QED BY <1>4, <2>2, <3>3 DEF Sent
  <2>3. CASE ~(c = first /\ m = n)
    <3>1. heard[c][m] > 0 /\ m \notin unsure[c]
      BY <1>12, <2>1, <2>3
    <3>2. m[2].version <= LastRelease \/ \E q \in Checks : Sent(q, c, m)
      BY <2>1, <3>1 DEF HeardIsStored
    <3>3. ASSUME NEW q \in Checks, Sent(q, c, m) PROVE Sent(p, c, m)'
      <4>1. q = p
        BY <1>5, <2>1, <3>3 DEF Sent
      <4>2. m = n /\ c \notin ToSet(chats)
        BY <3>3, <4>1 DEF Sent, n
      <4>3. c \notin ToSet(check'[p].chats)
        BY <1>3, <1>4, <4>2
      <4>4. QED BY <1>4, <4>2, <4>3 DEF Sent
    <3>4. QED BY <3>2, <3>3
  <2>4. QED BY <2>2, <2>3
<1>14. AnnouncedOnce'
  <2>1. SUFFICES ASSUME ~disturbed, NEW c \in Chat, NEW m \in News, m[1] = "GitHub"
                 PROVE  heard'[c][m] < 2 \/ m \in unsure'[c]
    BY <1>2 DEF AnnouncedOnce
  <2>2. heard[c][m] < 2 \/ m \in unsure[c]
    BY <2>1 DEF AnnouncedOnce
  <2>3. CASE c = first /\ m = n
    BY <1>2, <1>9, <1>11, <1>12, <2>1, <2>2, <2>3
  <2>4. CASE ~(c = first /\ m = n)
    BY <1>12, <2>2, <2>4
  <2>5. QED BY <2>3, <2>4
<1>15. QED BY <1>6, <1>7, <1>8, <1>13, <1>14

LEMMA OnceSave ==
  ASSUME OnceInv, VerInv', NEW p \in Checks, SaveCurVersion(p)
  PROVE  OnceInv'
<1> USE DEF OnceInv, heardVars
<1>1. /\ check[p].at = "send" /\ check[p].chats = <<>>
      /\ check' = [check EXCEPT ![p] = NextKind(check[p].i)]
      /\ latest' = [latest EXCEPT ![Kinds[check[p].i]] = check[p].cur]
      /\ UNCHANGED <<subscribers, heardVars, disturbed>>
  BY DEF SaveCurVersion, To
<1>2. check[p].i \in 1..2 /\ check[p].cur \in Row
  BY <1>1, CheckFacts DEF VerInv
<1>3. NextKind(check[p].i) \in {NoCheck} \cup [at : {"prev"}, i : {2}]
  BY <1>2, NextKindFacts
<1>4. /\ check'[p] = NextKind(check[p].i) /\ check'[p].at \in {"none", "prev"}
      /\ \A q \in Checks : q # p => check'[q] = check[q]
  BY <1>1, <1>3 DEF VerInv, VerShape, NoCheck
<1>5. ~disturbed => \A q \in Checks : q # p => check[q] = NoCheck /\ check[q].at = "none"
  BY <1>1 DEF OneAtATime, NoCheck
<1>6. LastRelease' = IF check[p].i = 2 THEN check[p].cur.version ELSE LastRelease
  BY <1>1, <1>2, KindFacts DEF VerInv, VerShape, LastRelease
<1>7. OneAtATime' /\ Distinct' /\ Newer'
  BY <1>1, <1>4, <1>5 DEF OneAtATime, Distinct, Newer
<1>8. HeardIsStored'
  <2>1. SUFFICES ASSUME ~disturbed, NEW c \in Chat, NEW m \in News, m[1] = "GitHub", heard[c][m] > 0,
                        m \notin unsure[c]
                 PROVE  m[2].version <= LastRelease'
    BY <1>1 DEF HeardIsStored
  <2>2. m[2].version \in Nat /\ LastRelease \in Nat /\ check[p].cur.version \in Nat
    BY <1>2, NewsFacts, KindFacts DEF VerInv, VerShape, Row, LastRelease
  <2>3. check[p].i = 2 => check[p].cur.version > LastRelease
    BY <1>1, <2>1 DEF Newer
  <2>4. CASE m[2].version <= LastRelease
    BY <1>6, <2>2, <2>3, <2>4
  <2>5. CASE \E q \in Checks : Sent(q, c, m)
    <3>1. About(p) = m
      BY <1>5, <2>1, <2>5 DEF Sent
    <3>2. m[2] = check[p].cur /\ check[p].i = 2
      BY <1>2, <2>1, <3>1, KindFacts DEF About
    <3>3. QED BY <1>6, <2>2, <3>2
  <2>6. QED BY <2>1, <2>4, <2>5 DEF HeardIsStored
<1>9. AnnouncedOnce'
  BY <1>1 DEF AnnouncedOnce
<1>10. QED BY <1>7, <1>8, <1>9

LEMMA OnceNextInv ==
  ASSUME OnceInv, [VerNext]_verVars
  PROVE  OnceInv'
<1>1. VerInv'
  BY VerNextInv DEF OnceInv
<1>2. ASSUME NEW p \in Checks, StartCheck(p) PROVE OnceInv'
  <2>1. [at |-> "prev", i |-> 1] \in CheckState
    BY DEF CheckState
  <2>2. /\ check[p] = NoCheck /\ To(p, [at |-> "prev", i |-> 1])
        /\ UNCHANGED <<latest, subscribers, heardVars>>
    BY <1>2 DEF StartCheck
  <2>3. ~disturbed' => ~disturbed /\ \A q \in Checks : check[q] = NoCheck
    BY <1>2 DEF StartCheck
  <2>4. check[p].at # "send"
    BY <2>2 DEF NoCheck
  <2>5. QED BY <1>1, <2>1, <2>2, <2>3, <2>4, AloneStep
<1>3. ASSUME NEW p \in Checks, FetchPrevVersion(p) PROVE OnceInv'
  <2> DEFINE asking == [at |-> "cur", i |-> check[p].i, prev |-> latest[Kinds[check[p].i]]]
  <2>1. check[p].i \in 1..2 /\ latest[Kinds[check[p].i]] \in Row /\ check[p].at = "prev"
    BY <1>3, CheckFacts, KindFacts DEF FetchPrevVersion, OnceInv, VerInv, VerShape, NoCheck
  <2>2. asking \in CheckState /\ asking.at = "cur" /\ (asking.i = 2 => asking.prev = latest["GitHub"])
    BY <2>1, KindFacts DEF CheckState
  <2>3. To(p, asking) /\ UNCHANGED <<latest, subscribers, heardVars, disturbed>>
    BY <1>3 DEF FetchPrevVersion
  <2>4. ~disturbed => \A q \in Checks : q # p => check[q] = NoCheck
    BY <2>1 DEF OnceInv, OneAtATime, NoCheck
  <2> HIDE DEF asking
  <2>5. QED BY <1>1, <2>1, <2>2, <2>3, <2>4, AloneStep
<1>4. ASSUME NEW p \in Checks, CheckFails(p) PROVE OnceInv'
  <2>1. NoCheck \in CheckState /\ NoCheck.at = "none"
    BY DEF CheckState, NoCheck
  <2>2. QED BY <1>1, <1>4, <2>1, AloneStep DEF CheckFails
<1>5. ASSUME NEW k \in Kind, NEW answer \in Answers(k), Publish(k, answer) PROVE OnceInv'
  <2>1. UNCHANGED <<latest, subscribers, check, heardVars, disturbed>>
    BY <1>5 DEF Publish
  <2>2. QED BY <1>1, <2>1 DEF OnceInv, OneAtATime, Distinct, Newer, HeardIsStored, AnnouncedOnce, Sent, About, LastRelease, heardVars
<1>6. ASSUME NEW c \in Chat, Subscribe(c) \/ Unsubscribe(c) PROVE OnceInv'
  <2>1. UNCHANGED <<latest, check, heardVars, disturbed>>
    BY <1>6 DEF Subscribe, Unsubscribe
  <2>2. IsInjective(subscribers) /\ subscribers \in Seq(Chat)
    BY DEF OnceInv, Distinct, VerInv, VerShape
  <2>3. IsInjective(subscribers')
    <3>1. CASE Subscribe(c)
      BY <2>2, <3>1, SendLast DEF Subscribe
    <3>2. CASE Unsubscribe(c)
      BY <2>2, <3>2, RemoveOne DEF Unsubscribe
    <3>3. QED BY <1>6, <3>1, <3>2
  <2>4. QED
    BY <1>1, <2>1, <2>3 DEF OnceInv, OneAtATime, Distinct, Newer, HeardIsStored, AnnouncedOnce, Sent, About, LastRelease, heardVars
<1>7. ASSUME UNCHANGED verVars PROVE OnceInv'
  BY <1>1, <1>7 DEF verVars, OnceInv, OneAtATime, Distinct, Newer, HeardIsStored, AnnouncedOnce, Sent, About, LastRelease, heardVars
<1>8. QED
  BY <1>1, <1>2, <1>3, <1>4, <1>5, <1>6, <1>7, OnceFetch, OnceRead, OnceSend, OnceSave DEF VerNext, CheckStep

(* A GitHub release is announced to a chat once, also when GitHub returns  *)
(* to an earlier one in between (core/versions.go 205-213), as long as no  *)
(* two checks overlap, none fails, and no answer of Telegram's is lost     *)
(* (versions/checker.go 33-41).                                            *)
THEOREM AnnouncedOnceAlways == VerSpec => []AnnouncedOnce
<1>1. OnceInv => AnnouncedOnce BY DEF OnceInv
<1>2. QED BY OnceInitInv, OnceNextInv, <1>1, PTL DEF VerSpec

----------------------------------------------------------------------------
(* The inductive invariant.  Processes that overlap work with the same     *)
(* list, for the service's does not change under them; so none undoes what *)
(* another has done, and what each statement has reached stays reached.    *)
OneList ==
  \A u \in AsUpdaters : asUpdater[u].at \in {"insert", "delete", "stamp"} => asUpdater[u].list = asService
FreshIsService ==
  \A u \in AsUpdaters : asRow.fresh /\ asUpdater[u].at # "idle" => asRow.list = asService
Inserted ==
  \A u \in AsUpdaters : asUpdater[u].at = "delete" => asUpdater[u].list \subseteq asPrefixes
Replaced ==
  \A u \in AsUpdaters :
    asUpdater[u].at = "stamp" /\ asUpdater[u].list # {} => asPrefixes = asUpdater[u].list

AsInv == AsTypeOK /\ OneList /\ FreshIsService /\ Inserted /\ Replaced /\ StampedIsComplete

(* What the order of the statements comes to: each goes on to the next one.*)
LEMMA StatementOrder ==
  ASSUME NEW u \in AsUpdaters
  PROVE  /\ Head(Statements) = "insert"
         /\ Executes(u, "insert") <=> AsAt(u, "insert") /\ AsGoto(u, "delete")
         /\ Executes(u, "delete") <=> AsAt(u, "delete") /\ AsGoto(u, "stamp")
         /\ Executes(u, "stamp") <=> AsAt(u, "stamp") /\ AsFinish(u)
<1>1. /\ DOMAIN Statements = {1, 2, 3} /\ Len(Statements) = 3 /\ Head(Statements) = "insert"
      /\ Statements[1] = "insert" /\ Statements[2] = "delete" /\ Statements[3] = "stamp"
  BY DEF Statements
<1>2. QED
  BY <1>1 DEF Executes, Execute

LEMMA AsInitInv == AsInit => AsInv
BY ListsAreOfPrefixes
   DEF AsInit, AsInv, AsTypeOK, OneList, FreshIsService, Inserted, Replaced, StampedIsComplete, AsResting

(* Each step keeps the invariant.                                          *)
LEMMA AsNextInv ==
  ASSUME AsInv, [AsNext]_asVars
  PROVE  AsInv'
<1> USE DEF AsInv
<1> USE ListsAreOfPrefixes
<1>1. ASSUME NEW u \in AsUpdaters, AsLookUp(u) PROVE AsInv'
  BY <1>1 DEF AsLookUp, AsAt, AsGoto, AsOutside, AsTypeOK, OneList, FreshIsService, Inserted, Replaced,
              StampedIsComplete
<1>2. ASSUME NEW u \in AsUpdaters, FetchASInfo(u) PROVE AsInv'
  BY <1>2, StatementOrder
     DEF FetchASInfo, AsAt, AsOutside, AsTypeOK, OneList, FreshIsService, Inserted, Replaced, StampedIsComplete
<1>3. ASSUME NEW u \in AsUpdaters, InsertPrefixes(u) PROVE AsInv'
  <2>1. /\ AsAt(u, "insert") /\ AsGoto(u, "delete")
        /\ asPrefixes' = asPrefixes \cup asUpdater[u].list
        /\ UNCHANGED asRow /\ AsOutside
    BY <1>3, StatementOrder DEF InsertPrefixes
  <2>2. AsTypeOK' /\ OneList' /\ FreshIsService'
    BY <2>1 DEF AsAt, AsGoto, AsOutside, AsTypeOK, OneList, FreshIsService
  <2>3. Inserted' /\ Replaced'
    BY <2>1 DEF AsAt, AsGoto, AsOutside, AsTypeOK, OneList, Inserted, Replaced
  <2>4. StampedIsComplete'
    BY <2>1 DEF AsAt, AsOutside, AsTypeOK, OneList, FreshIsService, StampedIsComplete
  <2>5. QED BY <2>2, <2>3, <2>4
<1>4. ASSUME NEW u \in AsUpdaters, DeleteOthers(u) PROVE AsInv'
  <2>1. /\ AsAt(u, "delete") /\ AsGoto(u, "stamp")
        /\ asPrefixes' = IF asUpdater[u].list = {} THEN asPrefixes ELSE asPrefixes \cap asUpdater[u].list
        /\ UNCHANGED asRow /\ AsOutside
    BY <1>4, StatementOrder DEF DeleteOthers
  <2>2. AsTypeOK' /\ OneList' /\ FreshIsService'
    BY <2>1 DEF AsAt, AsGoto, AsOutside, AsTypeOK, OneList, FreshIsService
  <2>3. Inserted' /\ Replaced'
    BY <2>1 DEF AsAt, AsGoto, AsOutside, AsTypeOK, OneList, Inserted, Replaced
  <2>4. StampedIsComplete'
    BY <2>1 DEF AsAt, AsOutside, AsTypeOK, OneList, FreshIsService, StampedIsComplete
  <2>5. QED BY <2>2, <2>3, <2>4
<1>5. ASSUME NEW u \in AsUpdaters, StampAS(u) PROVE AsInv'
  <2>1. /\ AsAt(u, "stamp") /\ AsFinish(u)
        /\ asRow' = [fresh |-> TRUE, list |-> asUpdater[u].list]
        /\ UNCHANGED asPrefixes /\ AsOutside
    BY <1>5, StatementOrder DEF StampAS
  <2>2. AsTypeOK' /\ OneList' /\ FreshIsService'
    BY <2>1 DEF AsAt, AsFinish, AsResting, AsOutside, AsTypeOK, OneList, FreshIsService
  <2>3. Inserted' /\ Replaced' /\ StampedIsComplete'
    BY <2>1 DEF AsAt, AsFinish, AsResting, AsOutside, AsTypeOK, OneList, Inserted, Replaced, StampedIsComplete
  <2>4. QED BY <2>2, <2>3
<1>6. ASSUME NEW u \in AsUpdaters, AsFails(u) PROVE AsInv'
  BY <1>6 DEF AsFails, AsAt, AsFinish, AsResting, AsTypeOK, OneList, FreshIsService, Inserted, Replaced,
              StampedIsComplete
<1>7. ASSUME AsGrowsOld PROVE AsInv'
  BY <1>7 DEF AsGrowsOld, AsOutside, AsTypeOK, OneList, FreshIsService, Inserted, Replaced, StampedIsComplete
<1>8. ASSUME ListChanges PROVE AsInv'
  BY <1>8 DEF ListChanges, AsAt, AsTypeOK, OneList, FreshIsService, Inserted, Replaced, StampedIsComplete
<1>9. ASSUME UNCHANGED asVars PROVE AsInv'
  BY <1>9 DEF asVars, AsTypeOK, OneList, FreshIsService, Inserted, Replaced, StampedIsComplete
<1>10. QED
  BY <1>1, <1>2, <1>3, <1>4, <1>5, <1>6, <1>7, <1>8, <1>9 DEF AsNext, AsProceed

(* The variables keep their types (core/ip_types.go 17-76).                *)
THEOREM AsTypeCorrect == AsSpec => []AsTypeOK
<1>1. AsInv => AsTypeOK BY DEF AsInv
<1>2. QED BY AsInitInv, AsNextInv, <1>1, PTL DEF AsSpec

(* A system that counts as known has exactly the prefixes of the answer it *)
(* was stamped with, however many processes replace them at once and       *)
(* wherever they die (ip_types.go 35-76).                                  *)
THEOREM AsStampedIsComplete == AsSpec => []StampedIsComplete
<1>1. AsInv => StampedIsComplete BY DEF AsInv
<1>2. QED BY AsInitInv, AsNextInv, <1>1, PTL DEF AsSpec

----------------------------------------------------------------------------
(* A walk over the nodes (NodeScans).  The inductive invariant says of each*)
(* node what lets the walk pass it by, or that the walk is still to come to*)
(* it: it waits on the page, or its stamp is not before what has been read.*)
ScanState ==
  [name : Commands, phase : {"nodes", "systems", "done", "failed"}, from : 0..MaxStamp,
   page : SUBSET Entries, saved : SUBSET Systems, cuts : SUBSET (0..MaxStamp)]

ScanShape ==
  /\ stamp \in [ScanNodes -> 1..MaxStamp]
  /\ nodeAsn \in [ScanNodes -> Systems \cup {NoAS}]
  /\ \A as \in DOMAIN ipinfo : as \in Systems /\ ipinfo[as] \in {"none", "old", "fresh"}
  /\ asked \subseteq ScanNodes
  /\ active \cup late \cup idle \subseteq ScanNodes /\ ScanNodes \ active \subseteq idle
  /\ scan \in ScanState
  /\ scanEvents \in 0..MaxScanEvents

(* What the commands remember is so.                                       *)
StampsKept ==
  /\ \A n \in ScanNodes : nodeAsn[n] \in {NoAS, GeoAS[n]}
  /\ \A as \in scan.saved : as \in DOMAIN ipinfo /\ ipinfo[as] = "fresh"

(* What fill-node-asns is about to lock it has not passed.                 *)
RowsAhead ==
  scan.name = "fill-node-asns" => \A e \in scan.page : scan.from < e.at

Excused(n) == Served(n) \/ stamp[n] \in scan.cuts \/ n \in late \cup idle
Waits(n) == [node |-> n, at |-> stamp[n]] \in scan.page
Ahead(n) ==
  /\ scan.from <= stamp[n]
  /\ \A e \in scan.page : e.at <= stamp[n] /\ scan.name # "fill-node-asns"

Walked == scan.phase = "nodes" => \A n \in ScanNodes : Excused(n) \/ Waits(n) \/ Ahead(n)
WalkedAll == scan.phase \in {"systems", "done"} => \A n \in ScanNodes : Excused(n)

ScanInv == ScanShape /\ StampsKept /\ RowsAhead /\ Walked /\ WalkedAll

LEMMA ScanInitInv == ScanInit => ScanInv
<1> SUFFICES ASSUME ScanInit PROVE ScanInv
  OBVIOUS
<1>1. PICK name \in Commands :
        scan = [name |-> name, phase |-> "nodes", from |-> 0, page |-> {}, saved |-> {}, cuts |-> {}]
  BY DEF ScanInit
<1>2. MaxStamp \in Nat /\ MaxStamp >= 2 /\ MaxScanEvents \in Nat
  BY ScanAssumption
<1>3. ScanShape
  <2>1. stamp \in [ScanNodes -> 1..MaxStamp]
    BY <1>2 DEF ScanInit
  <2>2. PICK S \in SUBSET Systems : ipinfo \in [S -> {"none", "old"}]
    BY DEF ScanInit
  <2>3. scan \in ScanState
    BY <1>1, <1>2 DEF ScanState
  <2>4. active \cup late \cup idle \subseteq ScanNodes /\ ScanNodes \ active \subseteq idle
        /\ scanEvents \in 0..MaxScanEvents
    BY <1>2 DEF ScanInit
  <2>5. QED BY <2>1, <2>2, <2>3, <2>4 DEF ScanInit, ScanShape
<1>4. ASSUME NEW n \in ScanNodes PROVE Ahead(n)
  BY <1>1, <1>3 DEF Ahead, ScanShape
<1>5. QED
  BY <1>1, <1>3, <1>4 DEF ScanInit, ScanInv, StampsKept, RowsAhead, Walked, WalkedAll

(* The walk keeps to its command.                                          *)
LEMMA ScanKeepsName ==
  ASSUME ScanShape, [ScanNext]_scanVars
  PROVE  scan.name \in Commands /\ scan'.name = scan.name
<1>1. scan \in ScanState
  BY DEF ScanShape
<1>2. CASE FillNodeASNs
  BY <1>1, <1>2 DEF FillNodeASNs, ScanState
<1>3. CASE ReadNodes
  BY <1>1, <1>3 DEF ReadNodes, ScanState
<1>4. CASE ReadNothing
  BY <1>1, <1>4 DEF ReadNothing, ScanState
<1>5. CASE FillIPCompany
  BY <1>1, <1>5 DEF FillIPCompany, ScanState
<1>6. CASE FillASOfNode
  BY <1>1, <1>6 DEF FillASOfNode, ScanState
<1>7. CASE FillASByNumber
  BY <1>1, <1>7 DEF FillASByNumber, ScanState
<1>8. CASE ScanFails
  BY <1>1, <1>8 DEF ScanFails, ScanState
<1>9. CASE OfferNodes \/ NodeAnswers \/ NodeGrowsOld \/ UNCHANGED scanVars
  BY <1>1, <1>9 DEF OfferNodes, NodeAnswers, NodeGrowsOld, scanVars, ScanState
<1>10. QED
  BY <1>2, <1>3, <1>4, <1>5, <1>6, <1>7, <1>8, <1>9 DEF ScanNext

(* What is done for a node stays done.                                     *)
LEMMA ServedStays ==
  ASSUME ScanShape, [ScanNext]_scanVars, NEW n \in ScanNodes, Served(n)
  PROVE  Served(n)'
<1> USE DEF ScanShape, Served
<1>1. scan.name \in Commands /\ scan'.name = scan.name
  BY ScanKeepsName
<1>2. asked \subseteq asked'
  BY DEF ScanNext, scanVars, FillNodeASNs, ReadNodes, ReadNothing, FillIPCompany, FillASOfNode,
         FillASByNumber, ScanFails, OfferNodes, NodeAnswers, NodeGrowsOld
<1>3. nodeAsn[n] = GeoAS[n] => nodeAsn'[n] = GeoAS[n]
  <2>1. CASE FillNodeASNs
    BY <2>1 DEF FillNodeASNs
  <2>2. CASE OfferNodes
    BY <2>2 DEF OfferNodes
  <2>3. ASSUME ~FillNodeASNs, ~OfferNodes PROVE nodeAsn' = nodeAsn
    BY <2>3 DEF ScanNext, scanVars, ReadNodes, ReadNothing, FillIPCompany, FillASOfNode,
           FillASByNumber, ScanFails, NodeAnswers, NodeGrowsOld
  <2>4. QED BY <2>1, <2>2, <2>3
<1>4. \A as \in DOMAIN ipinfo : ipinfo[as] = "fresh" => as \in DOMAIN ipinfo' /\ ipinfo'[as] = "fresh"
  <2>1. CASE FillASOfNode
    <3>1. ipinfo' = ipinfo \/ \E as : SetIpinfo(as)
      BY <2>1 DEF FillASOfNode
    <3>2. QED BY <3>1 DEF SetIpinfo
  <2>2. CASE FillASByNumber
    BY <2>2 DEF FillASByNumber, SetIpinfo
  <2>3. ASSUME ~FillASOfNode, ~FillASByNumber PROVE ipinfo' = ipinfo
    BY <2>3 DEF ScanNext, scanVars, FillNodeASNs, ReadNodes, ReadNothing, FillIPCompany, ScanFails,
           OfferNodes, NodeAnswers, NodeGrowsOld
  <2>4. QED BY <2>1, <2>2, <2>3
<1>5. QED BY <1>1, <1>2, <1>3, <1>4 DEF Commands

(* An excuse stays one while stamps do and cuts only come to them.         *)
LEMMA ExcuseStays ==
  ASSUME ScanShape, [ScanNext]_scanVars, NEW n \in ScanNodes, Excused(n),
         stamp'[n] = stamp[n], scan.cuts \subseteq scan'.cuts,
         n \in late \cup idle => n \in late' \cup idle'
  PROVE  Excused(n)'
BY ServedStays DEF Excused

LEMMA FillASNsInv ==
  ASSUME ScanInv, FillNodeASNs
  PROVE  ScanInv'
<1> DEFINE rows == {e \in scan.page : stamp[e.node] > scan.from}
<1>1. /\ UNCHANGED <<stamp, ipinfo, asked, active, late, idle, scanEvents>>
      /\ scan.name = "fill-node-asns" /\ scan.phase = "nodes" /\ scan.page # {}
  BY DEF FillNodeASNs, Running
<1>2. scan \in ScanState /\ MaxStamp \in Nat /\ \A n \in ScanNodes : stamp[n] \in 1..MaxStamp
  BY ScanAssumption DEF ScanInv, ScanShape
<1>3. ASSUME NEW n \in ScanNodes PROVE Excused(n) \/ [node |-> n, at |-> stamp[n]] \in rows
  <2>1. Excused(n) \/ Waits(n) \/ Ahead(n)
    BY <1>1 DEF ScanInv, Walked
  <2>2. ~Ahead(n)
    BY <1>1 DEF Ahead
  <2>3. Waits(n) => stamp[n] > scan.from
    BY <1>1, <1>2 DEF Waits, ScanInv, RowsAhead, ScanState
  <2>4. QED BY <2>1, <2>2, <2>3 DEF Waits
<1>4. CASE rows = {} /\ UNCHANGED nodeAsn /\ scan' = [scan EXCEPT !.page = {}, !.phase = "done"]
  <2>1. /\ scan' \in ScanState /\ scan'.cuts = scan.cuts /\ scan'.page = {} /\ scan'.phase = "done"
        /\ scan'.saved = scan.saved
    BY <1>2, <1>4 DEF ScanState
  <2>2. \A n \in ScanNodes : Excused(n)'
    BY <1>1, <1>3, <1>4, <2>1, ExcuseStays DEF ScanNext, ScanInv
  <2>3. ScanShape' /\ StampsKept' /\ RowsAhead'
    BY <1>1, <1>4, <2>1 DEF ScanInv, ScanShape, StampsKept, RowsAhead
  <2>4. QED BY <2>1, <2>2, <2>3 DEF ScanInv, Walked, WalkedAll
<1>5. ASSUME NEW P \in Pages(rows), NEW last \in P, \A e \in P : e.at <= last.at,
             nodeAsn' = [n \in ScanNodes |-> IF n \in {m \in ScanNodes : GeoAS[m] # NoAS /\ \E e \in P : e.node = m}
                                             THEN GeoAS[n] ELSE nodeAsn[n]],
             scan' = [scan EXCEPT !.from = LastStamp(last), !.page = {},
                                  !.cuts = @ \cup last.at..LastStamp(last)]
      PROVE  ScanInv'
  <2> DEFINE to == LastStamp(last)
             cut == last.at..to
  <2>1. P \subseteq rows /\ \A e \in P, x \in rows \ P : e.at <= x.at
    BY DEF Pages
  <2>2. last \in Entries /\ last.node \in ScanNodes /\ last.at \in 1..MaxStamp /\ to \in 1..MaxStamp
    BY <1>2, <2>1 DEF ScanState, Entries, LastStamp
  <2>3. cut \subseteq 0..MaxStamp /\ to \in 0..MaxStamp
    BY <1>2, <2>2
  <2>4. scan' = [scan EXCEPT !.from = to, !.page = {}, !.cuts = @ \cup cut]
    BY <1>5
  <2>5. /\ scan' \in ScanState /\ scan'.from = to /\ scan'.cuts = scan.cuts \cup cut
        /\ scan'.page = {} /\ scan'.phase = "nodes" /\ scan'.name = scan.name /\ scan'.saved = scan.saved
    <3> HIDE DEF to, cut
    <3> QED BY <1>1, <1>2, <2>3, <2>4 DEF ScanState
  <2>6. ScanShape' /\ StampsKept' /\ RowsAhead'
    <3> HIDE DEF to, cut
    <3>1. nodeAsn' \in [ScanNodes -> Systems \cup {NoAS}] /\ \A n \in ScanNodes : nodeAsn'[n] \in {NoAS, GeoAS[n]}
      BY <1>5, ScanAssumption DEF ScanInv, ScanShape, StampsKept
    <3>2. QED BY <1>1, <2>5, <3>1 DEF ScanInv, ScanShape, StampsKept, RowsAhead
  <2>7. ASSUME NEW n \in ScanNodes PROVE Excused(n)' \/ Ahead(n)'
    <3>1. CASE Excused(n)
      BY <1>1, <2>5, <3>1, ExcuseStays DEF ScanNext, ScanInv
    <3> DEFINE e == [node |-> n, at |-> stamp[n]]
    <3>2. CASE e \in P
      <4>1. nodeAsn'[n] = GeoAS[n]
        BY <1>5, <3>2 DEF ScanInv, StampsKept
      <4>2. QED BY <1>1, <2>5, <4>1 DEF Excused, Served
    <3>3. CASE e \in rows /\ e \notin P
      <4>1. last.at <= stamp[n]
        BY <2>1, <3>3
      <4>2. stamp[n] \in cut \/ to <= stamp[n]
        BY <1>2, <2>2, <4>1
      <4>3. stamp'[n] = stamp[n]
        BY <1>1
      <4>4. stamp'[n] \in scan'.cuts \/ (scan'.from <= stamp'[n] /\ scan'.page = {})
        <5> HIDE DEF to, cut
        <5> QED BY <2>5, <4>2, <4>3
      <4>5. QED BY <4>4 DEF Excused, Ahead
    <3>4. QED BY <1>3, <3>1, <3>2, <3>3
  <2>8. QED BY <2>5, <2>6, <2>7 DEF ScanInv, Walked, WalkedAll
<1>6. QED BY <1>4, <1>5 DEF FillNodeASNs

LEMMA ReadNodesInv ==
  ASSUME ScanInv, ReadNodes
  PROVE  ScanInv'
<1> DEFINE fill == scan.name = "fill-node-asns"
<1>1. PICK P \in SUBSET Later :
        /\ fill => P = Later
        /\ \A e \in P, x \in Later \ P : e.at <= x.at
        /\ scan' = [scan EXCEPT !.page = P, !.cuts = @ \cup {scan.from}]
  BY DEF ReadNodes, Running, Pages
<1>2. UNCHANGED <<stamp, nodeAsn, ipinfo, asked, active, late, idle, scanEvents>>
      /\ scan.phase = "nodes" /\ scan.page = {}
  BY DEF ReadNodes
<1>3. scan \in ScanState /\ \A n \in ScanNodes : stamp[n] \in 1..MaxStamp
  BY DEF ScanInv, ScanShape
<1>4. Later \subseteq Entries /\ \A e \in Later : scan.from < e.at
  BY <1>3 DEF Later, Entries, ScanInv, ScanShape
<1>5. /\ scan' \in ScanState /\ scan'.from = scan.from /\ scan'.cuts = scan.cuts \cup {scan.from}
      /\ scan'.page = P /\ scan'.phase = "nodes" /\ scan'.name = scan.name /\ scan'.saved = scan.saved
  BY <1>1, <1>2, <1>3, <1>4 DEF ScanState
<1>6. ScanShape' /\ StampsKept' /\ RowsAhead'
  BY <1>2, <1>4, <1>5 DEF ScanInv, ScanShape, StampsKept, RowsAhead
<1>7. ASSUME NEW n \in ScanNodes PROVE Excused(n)' \/ Waits(n)' \/ Ahead(n)'
  <2>1. CASE Excused(n)
    BY <1>2, <1>5, <2>1, ExcuseStays DEF ScanNext, ScanInv
  <2>2. scan.from <= stamp[n] \/ Excused(n)
    BY <1>2 DEF ScanInv, Walked, Waits, Ahead
  <2>3. CASE scan.from = stamp[n]
    BY <1>2, <1>5, <2>3 DEF Excused
  <2>4. CASE n \notin active
    BY <1>2, <2>4 DEF Excused, ScanInv, ScanShape
  <2>5. CASE n \in active /\ stamp[n] > scan.from
    <3> DEFINE e == [node |-> n, at |-> stamp[n]]
    <3>1. e \in Later
      BY <2>5 DEF Later
    <3>2. CASE e \in P
      BY <1>2, <1>5, <3>2 DEF Waits
    <3>3. CASE e \notin P
      <4>1. ~fill /\ \A x \in P : x.at <= stamp[n]
        BY <1>1, <3>1, <3>3
      <4>2. scan.from <= stamp[n]
        BY <1>3, <2>5 DEF ScanState
      <4>3. QED BY <1>2, <1>5, <4>1, <4>2 DEF Ahead
    <3>4. QED BY <3>2, <3>3
  <2>6. QED BY <1>3, <2>1, <2>2, <2>3, <2>4, <2>5 DEF ScanState
<1>8. QED BY <1>5, <1>6, <1>7 DEF ScanInv, Walked, WalkedAll

LEMMA ReadNothingInv ==
  ASSUME ScanInv, ReadNothing
  PROVE  ScanInv'
<1> DEFINE next == IF scan.name = "fill-as-ipinfo-data" THEN "systems" ELSE "done"
<1>1. /\ scan.phase = "nodes" /\ scan.page = {} /\ Later = {}
      /\ scan' = [scan EXCEPT !.cuts = @ \cup {scan.from}, !.phase = next]
      /\ UNCHANGED <<stamp, nodeAsn, ipinfo, asked, active, late, idle, scanEvents>>
  BY DEF ReadNothing
<1>2. next \in {"systems", "done"}
  OBVIOUS
<1> HIDE DEF next
<1>3. scan \in ScanState /\ \A n \in ScanNodes : stamp[n] \in 1..MaxStamp
  BY DEF ScanInv, ScanShape
<1>4. /\ scan' \in ScanState /\ scan'.from = scan.from /\ scan'.cuts = scan.cuts \cup {scan.from}
      /\ scan'.page = {} /\ scan'.phase = next /\ scan'.name = scan.name /\ scan'.saved = scan.saved
  BY <1>1, <1>2, <1>3 DEF ScanState
<1>5. ASSUME NEW n \in ScanNodes PROVE Excused(n)'
  <2>1. CASE Excused(n)
    BY <1>1, <1>4, <2>1, ExcuseStays DEF ScanNext, ScanInv
  <2>2. scan.from <= stamp[n] \/ Excused(n)
    BY <1>1 DEF ScanInv, Walked, Waits, Ahead
  <2>3. CASE scan.from = stamp[n]
    BY <1>1, <1>4, <2>3 DEF Excused
  <2>4. n \in active => ~(stamp[n] > scan.from)
    BY <1>1 DEF Later
  <2>5. CASE n \notin active
    BY <1>1, <2>5 DEF Excused, ScanInv, ScanShape
  <2>6. QED BY <1>3, <2>1, <2>2, <2>3, <2>4, <2>5 DEF ScanState
<1>6. QED
  BY <1>1, <1>2, <1>4, <1>5 DEF ScanInv, ScanShape, StampsKept, RowsAhead, Walked, WalkedAll

(* A visit: the first of the page is left behind and has been served.      *)
LEMMA VisitInv ==
  ASSUME ScanInv, [ScanNext]_scanVars, ScanShape', StampsKept', NEW e \in scan.page, Visit(e),
         scan.phase = "nodes", scan.name # "fill-node-asns",
         scan'.phase = "nodes", scan'.from = e.at, scan'.page = scan.page \ {e}, scan'.cuts = scan.cuts,
         UNCHANGED <<stamp, late, idle>>, Served(e.node)'
  PROVE  ScanInv'
<1>1. scan'.name = scan.name
  BY ScanKeepsName DEF ScanInv
<1>2. ASSUME NEW n \in ScanNodes PROVE Excused(n)' \/ Waits(n)' \/ Ahead(n)'
  <2>1. CASE Excused(n)
    BY <2>1, ExcuseStays DEF ScanInv
  <2>2. CASE Waits(n)
    <3>1. CASE e = [node |-> n, at |-> stamp[n]]
      BY <3>1 DEF Excused
    <3>2. CASE e # [node |-> n, at |-> stamp[n]]
      BY <2>2, <3>2 DEF Waits
    <3>3. QED BY <3>1, <3>2
  <2>3. CASE Ahead(n)
    BY <1>1, <2>3 DEF Ahead
  <2>4. QED BY <2>1, <2>2, <2>3 DEF ScanInv, Walked
<1>3. QED BY <1>1, <1>2 DEF ScanInv, Walked, WalkedAll, RowsAhead

LEMMA FillCompanyInv ==
  ASSUME ScanInv, FillIPCompany
  PROVE  ScanInv'
<1>1. PICK e \in scan.page :
        /\ Visit(e) /\ asked' = asked \cup {e.node}
        /\ scan' = [scan EXCEPT !.from = e.at, !.page = @ \ {e}]
  BY DEF FillIPCompany
<1>2. scan.name = "fill-ip-companies" /\ scan.phase = "nodes"
      /\ UNCHANGED <<stamp, nodeAsn, ipinfo, active, late, idle, scanEvents>>
  BY DEF FillIPCompany, Running
<1>3. scan \in ScanState /\ e.node \in ScanNodes /\ e.at \in 0..MaxStamp
  BY ScanAssumption DEF ScanInv, ScanShape, ScanState, Entries
<1>4. /\ scan' \in ScanState /\ scan'.from = e.at /\ scan'.cuts = scan.cuts
      /\ scan'.page = scan.page \ {e} /\ scan'.phase = "nodes" /\ scan'.name = scan.name /\ scan'.saved = scan.saved
  BY <1>1, <1>2, <1>3 DEF ScanState
<1>5. ScanShape' /\ StampsKept' /\ Served(e.node)'
  BY <1>1, <1>2, <1>3, <1>4 DEF ScanInv, ScanShape, StampsKept, Served
<1>6. QED
  BY <1>1, <1>2, <1>4, <1>5, VisitInv DEF ScanNext

LEMMA FillASInv ==
  ASSUME ScanInv, FillASOfNode
  PROVE  ScanInv'
<1> DEFINE Known(e) == \/ GeoAS[e.node] = NoAS \/ GeoAS[e.node] \in scan.saved
                       \/ GeoAS[e.node] \in DOMAIN ipinfo /\ ipinfo[GeoAS[e.node]] = "fresh"
                       \/ e.node \in Unnamed
           Passed(e) == [scan EXCEPT !.from = e.at, !.page = @ \ {e}]
<1>1. PICK e \in scan.page :
        /\ Visit(e)
        /\ IF Known(e) THEN scan' = Passed(e) /\ UNCHANGED ipinfo
           ELSE SetIpinfo(GeoAS[e.node]) /\ scan' = [Passed(e) EXCEPT !.saved = @ \cup {GeoAS[e.node]}]
  BY DEF FillASOfNode
<1>2. scan.name = "fill-as-ipinfo-data" /\ scan.phase = "nodes" /\ UNCHANGED <<stamp, nodeAsn, asked, active, late, idle, scanEvents>>
  BY DEF FillASOfNode, Running
<1>3. scan \in ScanState /\ e.node \in ScanNodes /\ e.at \in 0..MaxStamp
  BY ScanAssumption DEF ScanInv, ScanShape, ScanState, Entries
<1>4. /\ Passed(e) \in ScanState /\ Passed(e).from = e.at /\ Passed(e).cuts = scan.cuts
      /\ Passed(e).page = scan.page \ {e} /\ Passed(e).phase = "nodes" /\ Passed(e).name = scan.name
      /\ Passed(e).saved = scan.saved
  BY <1>2, <1>3 DEF ScanState
<1>5. CASE Known(e)
  <2>1. ScanShape' /\ StampsKept'
    BY <1>1, <1>2, <1>3, <1>4, <1>5 DEF ScanInv, ScanShape, StampsKept
  <2>2. Served(e.node)
    BY <1>2, <1>5 DEF Served, ScanInv, StampsKept
  <2>3. Served(e.node)'
    BY <1>3, <2>2, ServedStays DEF ScanNext, ScanInv
  <2>4. QED
    BY <1>1, <1>2, <1>4, <1>5, <2>1, <2>3, VisitInv DEF ScanNext
<1>6. CASE ~Known(e)
  <2> DEFINE as == GeoAS[e.node]
             passed == Passed(e)
  <2>1. as \in Systems
    BY <1>3, <1>6, ScanAssumption
  <2>2. scan' = [passed EXCEPT !.saved = @ \cup {as}] /\ SetIpinfo(as)
    BY <1>1, <1>6
  <2> HIDE DEF as, Passed
  <2>3. /\ scan' \in ScanState /\ scan'.from = e.at /\ scan'.cuts = scan.cuts
        /\ scan'.page = scan.page \ {e} /\ scan'.phase = "nodes" /\ scan'.name = scan.name
        /\ scan'.saved = scan.saved \cup {as}
    <3> HIDE DEF passed
    <3>1. /\ passed \in ScanState /\ passed.from = e.at /\ passed.cuts = scan.cuts
          /\ passed.page = scan.page \ {e} /\ passed.phase = "nodes" /\ passed.name = scan.name
          /\ passed.saved = scan.saved
      BY <1>4 DEF passed
    <3>2. QED BY <2>1, <2>2, <3>1 DEF ScanState
  <2>4. ipinfo' = [x \in DOMAIN ipinfo \cup {as} |-> IF x = as THEN "fresh" ELSE ipinfo[x]]
    BY <2>2 DEF SetIpinfo
  <2>5. ScanShape'
    BY <1>2, <2>1, <2>3, <2>4 DEF ScanInv, ScanShape
  <2>6. StampsKept'
    BY <1>2, <2>3, <2>4 DEF ScanInv, StampsKept
  <2>7. Served(e.node)'
    BY <1>2, <2>3, <2>4 DEF Served, as
  <2>8. QED BY <1>1, <1>2, <2>3, <2>5, <2>6, <2>7, VisitInv DEF ScanNext
<1>7. QED BY <1>5, <1>6

LEMMA ByNumberInv ==
  ASSUME ScanInv, FillASByNumber
  PROVE  ScanInv'
<1>1. scan.phase = "systems" /\ UNCHANGED <<stamp, nodeAsn, asked, active, late, idle, scanEvents>>
  BY DEF FillASByNumber
<1>2. scan \in ScanState
  BY DEF ScanInv, ScanShape
<1>3. /\ \A as \in DOMAIN ipinfo : as \in DOMAIN ipinfo' /\ (ipinfo[as] = "fresh" => ipinfo'[as] = "fresh")
      /\ \A as \in DOMAIN ipinfo' : as \in Systems /\ ipinfo'[as] \in {"none", "old", "fresh"}
  BY DEF FillASByNumber, SetIpinfo, ScanInv, ScanShape
<1>4. /\ scan' \in ScanState /\ scan'.from = scan.from /\ scan'.cuts = scan.cuts
      /\ scan'.page = scan.page /\ scan'.phase \in {"systems", "done"} /\ scan'.name = scan.name
      /\ scan'.saved = scan.saved
  BY <1>1, <1>2 DEF FillASByNumber, ScanState
<1>5. ASSUME NEW n \in ScanNodes PROVE Excused(n)'
  <2>1. Excused(n)
    BY <1>1 DEF ScanInv, WalkedAll
  <2>2. QED BY <1>1, <1>4, <2>1, ExcuseStays DEF ScanNext, ScanInv
<1>6. WalkedAll' /\ Walked'
  BY <1>1, <1>4, <1>5 DEF WalkedAll, Walked
<1>7. QED
  BY <1>1, <1>3, <1>4, <1>6 DEF ScanInv, ScanShape, RowsAhead, StampsKept

LEMMA OfferInv ==
  ASSUME ScanInv, OfferNodes
  PROVE  ScanInv'
<1>1. PICK S \in SUBSET ScanNodes : \E t \in 1..MaxStamp :
        /\ stamp' = [n \in ScanNodes |-> IF n \in S THEN t ELSE stamp[n]]
        /\ nodeAsn' = [n \in ScanNodes |-> IF n \in S THEN GeoAS[n] ELSE nodeAsn[n]]
        /\ late' = IF StillToCome(t) THEN late \ S ELSE late \cup S
  BY DEF OfferNodes
<1>2. PICK t \in 1..MaxStamp :
        /\ stamp' = [n \in ScanNodes |-> IF n \in S THEN t ELSE stamp[n]]
        /\ nodeAsn' = [n \in ScanNodes |-> IF n \in S THEN GeoAS[n] ELSE nodeAsn[n]]
        /\ late' = IF StillToCome(t) THEN late \ S ELSE late \cup S
  BY <1>1
<1>3. /\ scan.phase = "nodes" /\ scanEvents' = scanEvents + 1 /\ scanEvents < MaxScanEvents
      /\ UNCHANGED <<ipinfo, asked, active, scan, idle>>
  BY DEF OfferNodes, ScanEvent
<1>4. scan \in ScanState /\ t \in Nat
  BY ScanAssumption DEF ScanInv, ScanShape
<1>5. ScanShape' /\ StampsKept' /\ WalkedAll' /\ RowsAhead'
  <2>1. scanEvents' \in 0..MaxScanEvents
    BY <1>3, ScanAssumption DEF ScanInv, ScanShape
  <2>2. nodeAsn' \in [ScanNodes -> Systems \cup {NoAS}] /\ \A n \in ScanNodes : nodeAsn'[n] \in {NoAS, GeoAS[n]}
    BY <1>2, ScanAssumption DEF ScanInv, ScanShape, StampsKept
  <2>3. QED BY <1>2, <1>3, <2>1, <2>2 DEF ScanInv, ScanShape, StampsKept, WalkedAll, RowsAhead
<1>6. ASSUME NEW n \in ScanNodes PROVE Excused(n)' \/ Waits(n)' \/ Ahead(n)'
  <2>1. CASE n \notin S
    <3>1. stamp'[n] = stamp[n] /\ (n \in late => n \in late')
      BY <1>2, <2>1
    <3>2. Excused(n) => Excused(n)'
      BY <1>3, <3>1, ExcuseStays DEF ScanNext, ScanInv
    <3>3. QED BY <1>3, <3>1, <3>2 DEF ScanInv, Walked, Waits, Ahead
  <2>2. CASE n \in S /\ scan.name = "fill-node-asns"
    BY <1>2, <1>3, <2>2 DEF Excused, Served
  <2>3. CASE n \in S /\ ~StillToCome(t)
    BY <1>2, <2>3 DEF Excused
  <2>4. CASE n \in S /\ StillToCome(t) /\ scan.name # "fill-node-asns"
    <3>1. stamp'[n] = t
      BY <1>2, <2>4
    <3>2. scan.from <= t /\ \A e \in scan.page : e.at <= t
      BY <1>4, <2>4, ScanAssumption DEF StillToCome, ScanState, Entries
    <3>3. QED BY <1>3, <2>4, <3>1, <3>2 DEF Ahead
  <2>5. QED BY <2>1, <2>2, <2>3, <2>4
<1>7. QED BY <1>5, <1>6 DEF ScanInv, Walked

LEMMA ActivityInv ==
  ASSUME ScanInv, NodeAnswers \/ NodeGrowsOld
  PROVE  ScanInv'
<1>1. /\ scan.phase = "nodes" /\ scanEvents' = scanEvents + 1 /\ scanEvents < MaxScanEvents
      /\ UNCHANGED <<stamp, nodeAsn, ipinfo, asked, scan, late>>
      /\ idle \subseteq idle' /\ active' \cup idle' \subseteq ScanNodes /\ ScanNodes \ active' \subseteq idle'
  BY DEF NodeAnswers, NodeGrowsOld, ScanEvent, ScanInv, ScanShape
<1>2. scanEvents' \in 0..MaxScanEvents
  BY <1>1, ScanAssumption DEF ScanInv, ScanShape
<1>3. ScanShape' /\ StampsKept' /\ WalkedAll' /\ RowsAhead'
  BY <1>1, <1>2 DEF ScanInv, ScanShape, StampsKept, WalkedAll, RowsAhead
<1>4. ASSUME NEW n \in ScanNodes PROVE Excused(n)' \/ Waits(n)' \/ Ahead(n)'
  <2>1. Excused(n) => Excused(n)'
    BY <1>1, ExcuseStays DEF ScanNext, ScanInv
  <2>2. QED BY <1>1, <2>1 DEF ScanInv, Walked, Waits, Ahead
<1>5. QED BY <1>3, <1>4 DEF ScanInv, Walked

LEMMA ScanNextInv == ScanInv /\ [ScanNext]_scanVars => ScanInv'
<1> SUFFICES ASSUME ScanInv, [ScanNext]_scanVars PROVE ScanInv'
  OBVIOUS
<1>1. CASE ScanFails
  <2>1. scan \in ScanState
    BY DEF ScanInv, ScanShape
  <2>2. /\ scan' \in ScanState /\ scan'.from = scan.from
        /\ scan'.page = scan.page /\ scan'.phase = "failed" /\ scan'.name = scan.name
        /\ scan'.saved = scan.saved
    BY <1>1, <2>1 DEF ScanFails, ScanState
  <2>3. QED
    BY <1>1, <2>2 DEF ScanFails, ScanInv, ScanShape, RowsAhead, StampsKept, Walked, WalkedAll
<1>2. CASE UNCHANGED scanVars
  BY <1>2 DEF scanVars, ScanInv, ScanShape, RowsAhead, StampsKept, Walked, WalkedAll, Served,
              Excused, Waits, Ahead
<1>3. QED
  BY <1>1, <1>2, FillASNsInv, ReadNodesInv, ReadNothingInv, FillCompanyInv, FillASInv, ByNumberInv,
     OfferInv, ActivityInv DEF ScanNext

(* A command that ran to its end has served every node that was active all *)
(* the time, but for those at the stamp of the end of a page and those     *)
(* whose offer was saved when the walk had passed its stamp                *)
(* (scripts/update_ip_types/main.go 51-116, 139-223, 358-387).             *)
THEOREM SkipsOnlyTiesAlways == ScanSpec => []SkipsOnlyTies
<1>1. ScanInv => SkipsOnlyTies
  BY DEF ScanInv, WalkedAll, Excused, SkipsOnlyTies
<1>2. QED BY ScanInitInv, ScanNextInv, <1>1, PTL DEF ScanSpec

----------------------------------------------------------------------------
(* The commands together.  A behaviour of MCOutsideWorld is, of the        *)
(* variables of each module, one of that module's.                         *)
LEMMA WorldRunsThem == WorldSpec => VerSpec /\ AsSpec /\ ScanSpec
<1>1. WorldInit => VerInit /\ AsInit /\ ScanInit
  BY DEF WorldInit
<1> USE DEF WorldNext, worldVars, CMDCheckVersions, CMDFetchSystems, UpdateIPTypes
<1>2. [WorldNext]_worldVars => [VerNext]_verVars
  OBVIOUS
<1>3. [WorldNext]_worldVars => [AsNext]_asVars
  OBVIOUS
<1>4. [WorldNext]_worldVars => [ScanNext]_scanVars
  OBVIOUS
<1>5. QED
  BY <1>1, <1>2, <1>3, <1>4, PTL DEF WorldSpec, VerSpec, AsSpec, ScanSpec

(* Type correctness of the fetchers of systems and of the walks over the   *)
(* nodes (core/ip_types.go 38-110, scripts/update_ip_types/main.go).       *)
THEOREM WorldTypeCorrect == WorldSpec => []WorldTypeOK
<1>1. AsInv => AsTypeOK
  BY DEF AsInv
<1>2. ScanInv => ScanTypeOK
  BY DEF ScanInv, ScanShape, ScanState, ScanTypeOK
<1>3. AsSpec => []AsInv
  BY AsInitInv, AsNextInv, PTL DEF AsSpec
<1>4. ScanSpec => []ScanInv
  BY ScanInitInv, ScanNextInv, PTL DEF ScanSpec
<1>5. QED
  BY <1>1, <1>2, <1>3, <1>4, WorldRunsThem, PTL DEF WorldTypeOK
=============================================================================
