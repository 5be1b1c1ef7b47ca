------------------------- MODULE UdpPingProxy_proofs -------------------------
(* Proofs about UdpPingProxy, for all sets of clients and ports, any       *)
(* window, number of copies, requests, losses and restarts.                *)
EXTENDS UdpPingProxy, TLAPS

ID == 0..(IDRange - 1)
Call == [client : Client, id : ID, port : Port,
         state : {"waiting", "answered", "failed"}, answerTo : Request \cup {0}]

(* The inductive invariant: TypeOK, without the bounds of the counters; the*)
(* log has what was accepted; the window has the IDs accepted last.        *)
ProxyShape ==
  /\ lastID \in [Client -> ID]
  /\ requests \in Seq(Call) /\ Len(requests) <= MaxRequests
  /\ toProxy \in [Request -> 0..Copies]
  /\ toClient \in [Request -> Nat]
  /\ losses \in [Request -> (0..MaxLosses) \X (0..MaxLosses)]
  /\ recentIDs \in [1..Window -> ID]
  /\ pinging \in [Request -> Nat]
  /\ accepted \in Seq(Request) /\ restarts \in 0..MaxRestarts

AcceptedMade == \A a \in DOMAIN accepted : accepted[a] \in Made

WindowIsRecent ==
  \A a \in DOMAIN accepted :
    a > Len(accepted) - Window =>
      recentIDs[Window - (Len(accepted) - a)] = requests[accepted[a]].id

ProxyInv == ProxyShape /\ AcceptedMade /\ WindowIsRecent /\ OncePerWindow

-----------------------------------------------------------------------------
LEMMA ShapeIsType == ProxyShape => TypeOK
BY DEF ProxyShape, TypeOK, Call, ID

LEMMA ProxyInitInv == Init => ProxyInv
<1> SUFFICES ASSUME Init PROVE ProxyInv
  OBVIOUS
<1> USE DEF Init
<1>1. ProxyShape
  BY ProxyAssumption DEF ProxyShape, NoIDs, None, ID
<1>2. AcceptedMade /\ WindowIsRecent /\ OncePerWindow
  BY DEF AcceptedMade, WindowIsRecent, OncePerWindow
<1> QED BY <1>1, <1>2 DEF ProxyInv

(* A call in the log keeps its ID; nothing is accepted.                    *)
LEMMA NothingAccepted ==
  ASSUME ProxyInv, ProxyShape', UNCHANGED <<recentIDs, accepted>>,
         Made \subseteq Made', \A r \in Made : requests'[r].id = requests[r].id
  PROVE  ProxyInv'
<1>1. (AcceptedMade /\ WindowIsRecent)'
  BY DEF ProxyInv, AcceptedMade, WindowIsRecent
<1>2. OncePerWindow'
  BY DEF ProxyInv, OncePerWindow
<1> QED BY <1>1, <1>2 DEF ProxyInv

(* What a packet does to its counter.                                      *)
LEMMA Counters ==
  ASSUME ProxyShape, NEW r \in Made
  PROVE  /\ r \in Request /\ requests[r] \in Call
         /\ toProxy[r] > 0 => [toProxy EXCEPT ![r] = @ - 1] \in [Request -> 0..Copies]
         /\ toClient[r] > 0 => [toClient EXCEPT ![r] = @ - 1] \in [Request -> Nat]
<1>1. r \in Request /\ requests[r] \in Call
  <2>1. /\ requests \in Seq(Call) /\ Len(requests) \in Nat /\ Len(requests) <= MaxRequests
        /\ r \in 1..Len(requests)
    BY DEF ProxyShape, Made
  <2>2. r \in Request
    BY <2>1, ProxyAssumption DEF Request
  <2> QED BY <2>1, <2>2
<1>2. ASSUME toProxy[r] > 0 PROVE [toProxy EXCEPT ![r] = @ - 1] \in [Request -> 0..Copies]
  BY <1>1, <1>2, ProxyAssumption DEF ProxyShape
<1>3. ASSUME toClient[r] > 0 PROVE [toClient EXCEPT ![r] = @ - 1] \in [Request -> Nat]
  BY <1>1, <1>3 DEF ProxyShape
<1> QED BY <1>1, <1>2, <1>3

LEMMA AskStep ==
  ASSUME ProxyInv, NEW c \in Client, NEW port \in Port, Ask(c, port)
  PROVE  ProxyInv'
<1> DEFINE id == (lastID[c] + 1) % IDRange
           call == [client |-> c, id |-> id, port |-> port,
                    state |-> "waiting", answerTo |-> 0]
<1>1. id \in ID
  BY ProxyAssumption DEF ProxyInv, ProxyShape, ID
<1>2. /\ requests' = Append(requests, call) /\ Len(requests) < MaxRequests
      /\ lastID' = [lastID EXCEPT ![c] = id]
      /\ toProxy' = [toProxy EXCEPT ![Len(requests) + 1] = Copies]
      /\ UNCHANGED <<toClient, losses, recentIDs, pinging, accepted, restarts>>
  BY DEF Ask, proxyVars
<1> HIDE DEF id
<1>3. call \in Call
  BY <1>1 DEF Call
<1> HIDE DEF call
<1>4. requests \in Seq(Call)
  BY DEF ProxyInv, ProxyShape
<1>5. /\ requests' \in Seq(Call) /\ Len(requests') <= MaxRequests
      /\ Made \subseteq Made' /\ \A r \in Made : requests'[r] = requests[r]
  BY <1>2, <1>3, <1>4, ProxyAssumption DEF Made
<1>6. toProxy' \in [Request -> 0..Copies]
  <2>1. Copies \in 0..Copies /\ toProxy \in [Request -> 0..Copies]
    BY ProxyAssumption DEF ProxyInv, ProxyShape
  <2> QED BY <1>2, <2>1
<1>7. lastID' \in [Client -> ID]
  BY <1>1, <1>2 DEF ProxyInv, ProxyShape
<1>8. ProxyShape'
  BY <1>2, <1>5, <1>6, <1>7 DEF ProxyInv, ProxyShape
<1> QED BY <1>2, <1>5, <1>8, NothingAccepted

(* A call comes to an end.                                                 *)
LEMMA EndStep ==
  ASSUME ProxyInv, lastID' \in [Client -> ID], toClient' \in [Request -> Nat],
         restarts' \in 0..MaxRestarts,
         UNCHANGED <<toProxy, losses, recentIDs, pinging, accepted>>,
         requests' \in Seq(Call), Len(requests') = Len(requests),
         \A r \in Made : requests'[r].id = requests[r].id
  PROVE  ProxyInv'
<1>1. ProxyShape'
  BY DEF ProxyInv, ProxyShape
<1>2. Made \subseteq Made'
  BY DEF Made, ProxyInv, ProxyShape
<1> QED BY <1>1, <1>2, NothingAccepted

LEMMA ReadStep ==
  ASSUME ProxyInv, NEW r \in Made, NEW from \in Made, Read(r, from)
  PROVE  ProxyInv'
<1> DEFINE answered == [requests[r] EXCEPT !.state = "answered", !.answerTo = from]
           failed == [requests[r] EXCEPT !.state = "failed"]
           call == IF requests[from].id = requests[r].id THEN answered ELSE failed
<1>1. /\ requests' = [requests EXCEPT ![r] = call]
      /\ toClient' = [toClient EXCEPT ![from] = @ - 1] /\ toClient[from] > 0
      /\ UNCHANGED <<lastID, toProxy, losses, recentIDs, pinging, accepted, restarts>>
  BY DEF Read, proxyVars
<1>2. /\ from \in Request /\ requests[r] \in Call /\ toClient' \in [Request -> Nat]
  BY <1>1, Counters DEF ProxyInv
<1>3. /\ answered \in Call /\ answered.id = requests[r].id
      /\ failed \in Call /\ failed.id = requests[r].id
  BY <1>2 DEF Call
<1> HIDE DEF answered, failed
<1>4. call \in Call /\ call.id = requests[r].id
  BY <1>3
<1> HIDE DEF call
<1>5. requests \in Seq(Call) /\ r \in DOMAIN requests
  BY DEF ProxyInv, ProxyShape, Made
<1>6. /\ requests' \in Seq(Call) /\ Len(requests') = Len(requests)
      /\ \A s \in Made : requests'[s] = IF s = r THEN call ELSE requests[s]
  BY <1>1, <1>4, <1>5 DEF Made
<1> QED BY <1>1, <1>2, <1>4, <1>6, EndStep DEF ProxyInv, ProxyShape

LEMMA ExpireStep ==
  ASSUME ProxyInv, NEW r \in Made, Expire(r)
  PROVE  ProxyInv'
<1> DEFINE call == [requests[r] EXCEPT !.state = "failed"]
<1>1. /\ requests' = [requests EXCEPT ![r].state = "failed"]
      /\ UNCHANGED <<lastID, toProxy, toClient, losses, recentIDs, pinging, accepted, restarts>>
  BY DEF Expire, proxyVars, networkVars
<1>2. requests \in Seq(Call) /\ r \in DOMAIN requests /\ requests[r] \in Call
  BY Counters DEF ProxyInv, ProxyShape, Made
<1>3. call \in Call /\ call.id = requests[r].id
  BY <1>2 DEF Call
<1>4. requests' = [requests EXCEPT ![r] = call]
  BY <1>1
<1> HIDE DEF call
<1>5. /\ requests' \in Seq(Call) /\ Len(requests') = Len(requests)
      /\ \A s \in Made : requests'[s] = IF s = r THEN call ELSE requests[s]
  BY <1>2, <1>3, <1>4 DEF Made
<1> QED BY <1>1, <1>3, <1>5, EndStep DEF ProxyInv, ProxyShape

LEMMA RestartClientStep ==
  ASSUME ProxyInv, NEW c \in Client, RestartClient(c)
  PROVE  ProxyInv'
<1> DEFINE ended(r) == Waiting(r) /\ requests[r].client = c
           call(r) == IF ended(r) THEN [requests[r] EXCEPT !.state = "failed"] ELSE requests[r]
<1>1. /\ requests' = [r \in Made |-> call(r)]
      /\ lastID' = [lastID EXCEPT ![c] = 0]
      /\ restarts < MaxRestarts /\ restarts' = restarts + 1
      /\ UNCHANGED <<toProxy, toClient, losses, recentIDs, pinging, accepted>>
  BY DEF RestartClient, proxyVars, networkVars
<1>2. ASSUME NEW r \in Made
      PROVE  call(r) \in Call /\ call(r).id = requests[r].id
  <2>1. requests[r] \in Call
    BY Counters DEF ProxyInv
  <2>2. /\ [requests[r] EXCEPT !.state = "failed"] \in Call
        /\ [requests[r] EXCEPT !.state = "failed"].id = requests[r].id
    BY <2>1 DEF Call
  <2> HIDE DEF ended
  <2> QED BY <2>1, <2>2
<1> HIDE DEF call
<1>3. requests \in Seq(Call) /\ Made = 1..Len(requests) /\ Len(requests) \in Nat
  BY DEF ProxyInv, ProxyShape, Made
<1>4. /\ requests' \in Seq(Call) /\ Len(requests') = Len(requests)
      /\ \A r \in Made : requests'[r] = call(r)
  BY <1>1, <1>2, <1>3
<1>5. lastID' \in [Client -> ID] /\ restarts' \in 0..MaxRestarts
  BY <1>1, ProxyAssumption DEF ProxyInv, ProxyShape, ID
<1>6. toClient' \in [Request -> Nat]
  BY <1>1 DEF ProxyInv, ProxyShape
<1> QED BY <1>1, <1>2, <1>4, <1>5, <1>6, EndStep

(* The network loses a packet, or the proxy throws a duplicate away.       *)
LEMMA PacketStep ==
  ASSUME ProxyInv, toProxy' \in [Request -> 0..Copies], toClient' \in [Request -> Nat],
         losses' \in [Request -> (0..MaxLosses) \X (0..MaxLosses)],
         pinging' \in [Request -> Nat],
         UNCHANGED <<lastID, requests, recentIDs, accepted, restarts>>
  PROVE  ProxyInv'
<1>1. ProxyShape'
  BY DEF ProxyInv, ProxyShape
<1> QED BY <1>1, NothingAccepted DEF Made

LEMMA MoreLosses ==
  ASSUME ProxyShape, NEW r \in Request, NEW d \in {1, 2}, losses[r][d] < MaxLosses
  PROVE  [losses EXCEPT ![r][d] = @ + 1] \in [Request -> (0..MaxLosses) \X (0..MaxLosses)]
<1> DEFINE S == (0..MaxLosses) \X (0..MaxLosses)
<1>1. losses \in [Request -> S] /\ losses[r] \in S
  BY DEF ProxyShape
<1>2. [losses[r] EXCEPT ![d] = @ + 1] \in S
  <2>1. losses[r] = <<losses[r][1], losses[r][2]>>
        /\ losses[r][1] \in 0..MaxLosses /\ losses[r][2] \in 0..MaxLosses
    BY <1>1
  <2>2. losses[r][d] + 1 \in 0..MaxLosses
    BY <2>1, ProxyAssumption
  <2>3. CASE d = 1
    BY <2>1, <2>2, <2>3
  <2>4. CASE d = 2
    BY <2>1, <2>2, <2>4
  <2> QED BY <2>3, <2>4
<1> HIDE DEF S
<1>3. [losses EXCEPT ![r] = [losses[r] EXCEPT ![d] = @ + 1]] \in [Request -> S]
  BY <1>1, <1>2
<1> QED BY <1>3 DEF S

LEMMA LostStep ==
  ASSUME ProxyInv, NEW r \in Made,
         Discard(r) \/ LoseRequest(r) \/ LoseAnswer(r) \/ Bounce(r)
  PROVE  ProxyInv'
<1> USE DEF clientVars, proxyVars
<1>1. /\ r \in Request
      /\ toProxy \in [Request -> 0..Copies] /\ toClient \in [Request -> Nat]
      /\ losses \in [Request -> (0..MaxLosses) \X (0..MaxLosses)]
      /\ pinging \in [Request -> Nat]
  BY Counters DEF ProxyInv, ProxyShape
<1>2. CASE Discard(r)
  BY <1>1, <1>2, Counters, PacketStep DEF Discard, ProxyInv
<1>3. CASE LoseRequest(r)
  <2>1. losses' \in [Request -> (0..MaxLosses) \X (0..MaxLosses)]
    BY <1>1, <1>3, MoreLosses DEF LoseRequest, ProxyInv
  <2> QED BY <1>1, <1>3, <2>1, Counters, PacketStep DEF LoseRequest, ProxyInv
<1>4. CASE LoseAnswer(r)
  <2>1. losses' \in [Request -> (0..MaxLosses) \X (0..MaxLosses)]
    BY <1>1, <1>4, MoreLosses DEF LoseAnswer, ProxyInv
  <2> QED BY <1>1, <1>4, <2>1, Counters, PacketStep DEF LoseAnswer, ProxyInv
<1>5. CASE Bounce(r)
  BY <1>1, <1>5, Counters, PacketStep DEF Bounce, ProxyInv
<1> QED BY <1>2, <1>3, <1>4, <1>5

LEMMA RespondStep ==
  ASSUME ProxyInv, NEW r \in Made, Respond(r)
  PROVE  ProxyInv'
<1>1. /\ r \in Request
      /\ toProxy \in [Request -> 0..Copies] /\ toClient \in [Request -> Nat]
      /\ losses \in [Request -> (0..MaxLosses) \X (0..MaxLosses)]
      /\ pinging \in [Request -> Nat]
  BY Counters DEF ProxyInv, ProxyShape
<1>2. pinging' \in [Request -> Nat] /\ toClient' \in [Request -> Nat]
  BY <1>1, ProxyAssumption DEF Respond
<1> QED BY <1>1, <1>2, PacketStep DEF Respond, clientVars

(* The proxy that starts has accepted nothing and remembers nothing.       *)
LEMMA RestartProxyStep == ProxyInv /\ RestartProxy => ProxyInv'
<1> SUFFICES ASSUME ProxyInv, RestartProxy PROVE ProxyInv'
  OBVIOUS
<1>1. /\ recentIDs' = NoIDs /\ pinging' = None /\ accepted' = <<>>
      /\ restarts < MaxRestarts /\ restarts' = restarts + 1
      /\ UNCHANGED <<lastID, requests, toProxy, toClient, losses>>
  BY DEF RestartProxy, clientVars, networkVars
<1>2. NoIDs \in [1..Window -> ID] /\ None \in [Request -> Nat]
  BY ProxyAssumption DEF NoIDs, None, ID
<1>3. restarts' \in 0..MaxRestarts
  BY <1>1, ProxyAssumption DEF ProxyInv, ProxyShape
<1>4. ProxyShape'
  BY <1>1, <1>2, <1>3 DEF ProxyInv, ProxyShape
<1>5. (AcceptedMade /\ WindowIsRecent /\ OncePerWindow)'
  BY <1>1 DEF AcceptedMade, WindowIsRecent, OncePerWindow
<1> QED BY <1>4, <1>5 DEF ProxyInv

(* The window moves by one.                                                *)
LEMMA RememberShifts ==
  ASSUME ProxyShape, NEW id \in ID
  PROVE  /\ Remember(id) \in [1..Window -> ID]
         /\ \A w \in 1..Window :
              Remember(id)[w] = IF w = Window THEN id ELSE recentIDs[w + 1]
<1> DEFINE rest == Tail(recentIDs)
           new == Append(rest, id)
<1>1. recentIDs \in [1..Window -> ID] /\ Window \in Nat \ {0}
  BY ProxyAssumption DEF ProxyShape
<1>2. recentIDs \in Seq(ID) /\ Len(recentIDs) = Window /\ recentIDs # <<>>
  BY <1>1
<1>3. /\ rest \in Seq(ID) /\ Len(rest) = Window - 1
      /\ \A w \in 1..(Window - 1) : rest[w] = recentIDs[w + 1]
  BY <1>1, <1>2
<1> HIDE DEF rest
<1>4. new \in Seq(ID) /\ Len(new) = Window /\ new[Window] = id
      /\ \A w \in 1..(Window - 1) : new[w] = rest[w]
  BY <1>1, <1>3
<1> HIDE DEF new
<1>5. new \in [1..Window -> ID]
  BY <1>4
<1>6. \A w \in 1..Window : w # Window => w \in 1..(Window - 1)
  BY <1>1
<1>7. Remember(id) = new
  BY DEF Remember, rest, new
<1> QED BY <1>3, <1>4, <1>5, <1>6, <1>7

(* The window moves by one, as the list of what was accepted does; what it *)
(* does not have was accepted long ago.                                    *)
LEMMA AcceptStep ==
  ASSUME ProxyInv, NEW r \in Made, Accept(r)
  PROVE  ProxyInv'
<1> DEFINE n == Len(accepted)
           id == requests[r].id
<1>1. /\ r \in Request /\ requests[r] \in Call /\ id \in ID
      /\ toProxy' \in [Request -> 0..Copies]
  BY Counters DEF ProxyInv, Accept, Call
<1>2. /\ ~IsDuplicate(id) /\ recentIDs' = Remember(id)
      /\ pinging' = [pinging EXCEPT ![r] = @ + 1] /\ accepted' = Append(accepted, r)
      /\ UNCHANGED <<lastID, requests, toClient, losses, restarts>>
  BY DEF Accept, clientVars
<1> HIDE DEF id
<1>3. /\ n \in Nat /\ accepted \in Seq(Request) /\ recentIDs \in [1..Window -> ID]
      /\ Window \in Nat \ {0}
  BY ProxyAssumption DEF ProxyInv, ProxyShape
<1>4. /\ accepted' \in Seq(Request) /\ Len(accepted') = n + 1 /\ accepted'[n + 1] = r
      /\ DOMAIN accepted = 1..n /\ DOMAIN accepted' = 1..(n + 1)
      /\ \A a \in 1..n : accepted'[a] = accepted[a]
  BY <1>1, <1>2, <1>3
<1>5. /\ recentIDs' \in [1..Window -> ID]
      /\ \A w \in 1..Window :
           recentIDs'[w] = IF w = Window THEN id ELSE recentIDs[w + 1]
  BY <1>1, <1>2, RememberShifts DEF ProxyInv
<1>6. pinging' \in [Request -> Nat]
  BY <1>1, <1>2 DEF ProxyInv, ProxyShape
<1>7. ProxyShape'
  BY <1>1, <1>2, <1>4, <1>5, <1>6 DEF ProxyInv, ProxyShape
<1>8. AcceptedMade'
  BY <1>2, <1>3, <1>4 DEF ProxyInv, AcceptedMade, Made
<1>9. \A w \in 1..Window : recentIDs[w] # id
  BY <1>2, <1>3 DEF IsDuplicate, ToSet
<1>10. ASSUME NEW a \in 1..n, a > n - Window
       PROVE  /\ Window - (n - a) \in 1..Window
              /\ recentIDs[Window - (n - a)] = requests[accepted[a]].id
  <2>1. a \in DOMAIN accepted /\ a > Len(accepted) - Window
    BY <1>4, <1>10
  <2>2. recentIDs[Window - (Len(accepted) - a)] = requests[accepted[a]].id
    BY <2>1 DEF ProxyInv, WindowIsRecent
  <2>3. Window - (n - a) \in 1..Window
    <3> HIDE DEF n
    <3> QED BY <1>3, <1>10
  <2>4. QED BY <2>2, <2>3
<1>11. WindowIsRecent'
  <2> SUFFICES ASSUME NEW a \in DOMAIN accepted', a > Len(accepted') - Window
               PROVE  recentIDs'[Window - (Len(accepted') - a)] = requests[accepted'[a]].id
    BY <1>2 DEF WindowIsRecent
  <2> HIDE DEF n
  <2>a. Len(accepted') = n + 1 /\ a \in 1..(n + 1)
    BY <1>4
  <2>0. /\ n \in Int /\ Window \in Int /\ a \in Int /\ a <= n + 1 /\ a > n + 1 - Window
        /\ Window - (Len(accepted') - a) = Window - (n + 1 - a)
    BY <1>3, <2>a
  <2>1. CASE a = n + 1
    BY <1>3, <1>4, <1>5, <2>0, <2>1 DEF id
  <2>2. CASE a # n + 1
    <3>1. a \in 1..n /\ a > n - Window
      BY <1>3, <2>0, <2>a, <2>2
    <3>2. /\ Window - (n + 1 - a) \in 1..Window /\ Window - (n + 1 - a) # Window
          /\ Window - (n + 1 - a) + 1 = Window - (n - a)
      BY <1>3, <2>0, <2>a, <2>2
    <3>3. recentIDs'[Window - (n + 1 - a)] = recentIDs[Window - (n - a)]
      BY <1>5, <3>2
    <3> QED BY <1>4, <1>10, <2>0, <3>1, <3>3
  <2> QED BY <2>1, <2>2
<1>12. OncePerWindow'
  <2> SUFFICES ASSUME NEW a \in 1..(n + 1), NEW b \in 1..(n + 1), a < b,
                      accepted'[a] = accepted'[b]
               PROVE  b - a > Window
    BY <1>4 DEF OncePerWindow
  <2>1. CASE b = n + 1
    <3>1. a \in 1..n /\ accepted[a] = r
      BY <1>3, <1>4, <2>1
    <3>2. ~(a > n - Window)
      BY <1>9, <1>10, <3>1 DEF id
    <3> QED BY <1>3, <2>1, <3>1, <3>2
  <2>2. CASE b # n + 1
    <3>1. a \in 1..n /\ b \in 1..n
      BY <1>3, <2>2
    <3> QED BY <1>4, <3>1 DEF ProxyInv, OncePerWindow
  <2> QED BY <2>1, <2>2
<1> QED BY <1>7, <1>8, <1>11, <1>12 DEF ProxyInv

LEMMA ProxyNextInv == ProxyInv /\ [Next]_vars => ProxyInv'
<1> SUFFICES ASSUME ProxyInv, [Next]_vars PROVE ProxyInv'
  OBVIOUS
<1>1. CASE UNCHANGED vars
  BY <1>1 DEF vars, ProxyInv, ProxyShape, AcceptedMade, WindowIsRecent, OncePerWindow, Made
<1>2. CASE Next
  BY <1>2, AskStep, ReadStep, ExpireStep, RestartClientStep, AcceptStep, LostStep,
     RespondStep, RestartProxyStep DEF Next
<1> QED BY <1>1, <1>2

LEMMA ProxyAlways == Spec => []ProxyInv
BY ProxyInitInv, ProxyNextInv, PTL DEF Spec

(* Type correctness of clients, network and proxy.                         *)
THEOREM ProxyTypeCorrect == Spec => []TypeOK
<1>1. ProxyInv => TypeOK
  BY ShapeIsType DEF ProxyInv
<1> QED BY <1>1, ProxyAlways, PTL

(* However packets of any number of clients are lost, delayed, reordered   *)
(* and copied, and whoever is restarted, one run of the proxy executes the *)
(* copies of a request again only after it accepted as many other requests *)
(* as it remembers (ping_proxy.go 132-159).                                *)
THEOREM OncePerWindowAlways == Spec => []OncePerWindow
<1>1. ProxyInv => OncePerWindow
  BY DEF ProxyInv
<1> QED BY <1>1, ProxyAlways, PTL

-----------------------------------------------------------------------------
(* One client, whose IDs do not come round again, and that is not restarted*)
(* while the proxy may be: then a request is known by its ID.              *)
IDsAreEnough == (\A c, d \in Client : c = d) /\ MaxRequests < IDRange
ClientsStay == \A c \in Client : ~RestartClient(c)

(* The inductive invariant: IDs are the numbers of the requests, an answer *)
(* is one's own, and the window has nothing but what was accepted.         *)
Numbered == \A r \in Made : requests[r].id = r
CountedUp == \A c \in Client : lastID[c] = Len(requests)
WindowIsAccepted == \A w \in 1..Window : recentIDs[w] \in {0} \cup ToSet(accepted)

IDInv == ProxyInv /\ Numbered /\ CountedUp /\ OwnAnswer /\ WindowIsAccepted

LEMMA IDInitInv == Init => IDInv
<1> SUFFICES ASSUME Init PROVE IDInv
  OBVIOUS
<1>1. requests = <<>> /\ lastID = [c \in Client |-> 0] /\ recentIDs = NoIDs
  BY DEF Init
<1>2. Made = {} /\ Len(requests) = 0
  BY <1>1 DEF Made
<1> QED
  BY <1>1, <1>2, ProxyInitInv
     DEF IDInv, Numbered, CountedUp, OwnAnswer, WindowIsAccepted, NoIDs

(* Calls keep their IDs, and those that end are answered by their own.     *)
LEMMA CallsEnd ==
  ASSUME IDInv, ProxyInv', UNCHANGED <<lastID, recentIDs, accepted>>,
         Len(requests') = Len(requests),
         \A r \in Made : /\ requests'[r].id = requests[r].id
                         /\ requests'[r].state = "answered"
                              => \/ requests[r].state = "answered"
                                    /\ requests'[r].answerTo = requests[r].answerTo
                                 \/ requests'[r].answerTo = r
  PROVE  IDInv'
<1>1. Made' = Made
  BY DEF IDInv, ProxyInv, ProxyShape, Made
<1>2. Numbered' /\ OwnAnswer'
  BY <1>1 DEF IDInv, Numbered, OwnAnswer
<1>3. CountedUp' /\ WindowIsAccepted'
  BY DEF IDInv, CountedUp, WindowIsAccepted
<1> QED BY <1>2, <1>3 DEF IDInv

LEMMA AskNumbers ==
  ASSUME IDsAreEnough, IDInv, ProxyInv', NEW c \in Client, NEW port \in Port, Ask(c, port)
  PROVE  IDInv'
<1> DEFINE n == Len(requests)
           id == (lastID[c] + 1) % IDRange
           call == [client |-> c, id |-> id, port |-> port,
                    state |-> "waiting", answerTo |-> 0]
<1>1. /\ requests' = Append(requests, call) /\ n < MaxRequests
      /\ lastID' = [lastID EXCEPT ![c] = id]
      /\ UNCHANGED <<recentIDs, accepted>>
  BY DEF Ask, proxyVars
<1>2. /\ requests \in Seq(Call) /\ n \in Nat /\ lastID \in [Client -> ID]
      /\ lastID[c] = n /\ Made = 1..n
  BY DEF IDInv, ProxyInv, ProxyShape, CountedUp, Made
<1>3. id = n + 1
  <2>1. \A k, d \in Nat : k + 1 < d => (k + 1) % d = k + 1
    OBVIOUS
  <2>2. n \in Nat /\ IDRange \in Nat /\ n + 1 < IDRange
    BY <1>1, <1>2, ProxyAssumption DEF IDsAreEnough
  <2> QED BY <1>2, <2>1, <2>2
<1>4. id \in ID
  BY ProxyAssumption, <1>1, <1>2, <1>3 DEF IDsAreEnough, ID
<1> HIDE DEF id
<1>5. call \in Call /\ call.id = n + 1 /\ call.state = "waiting"
  BY <1>3, <1>4 DEF Call
<1> HIDE DEF call
<1>6. /\ Made' = 1..(n + 1) /\ Len(requests') = n + 1 /\ requests'[n + 1] = call
      /\ \A r \in 1..n : requests'[r] = requests[r]
  BY <1>1, <1>2, <1>5 DEF Made
<1>7. \A r \in 1..(n + 1) : r = n + 1 \/ r \in 1..n
  BY <1>2
<1> HIDE DEF n
<1>8. Numbered' /\ OwnAnswer'
  BY <1>2, <1>5, <1>6, <1>7 DEF IDInv, Numbered, OwnAnswer
<1>9. CountedUp'
  BY <1>1, <1>2, <1>3, <1>6 DEF IDsAreEnough, CountedUp
<1>10. WindowIsAccepted'
  BY <1>1 DEF IDInv, WindowIsAccepted
<1> QED BY <1>8, <1>9, <1>10 DEF IDInv

(* What arrives at a socket and has its ID answers its request.            *)
LEMMA ReadAnswers ==
  ASSUME IDInv, ProxyInv', NEW r \in Made, NEW from \in Made, Read(r, from)
  PROVE  IDInv'
<1> DEFINE answered == [requests[r] EXCEPT !.state = "answered", !.answerTo = from]
           failed == [requests[r] EXCEPT !.state = "failed"]
           call == IF requests[from].id = requests[r].id THEN answered ELSE failed
<1>1. /\ requests' = [requests EXCEPT ![r] = call]
      /\ UNCHANGED <<lastID, recentIDs, accepted>>
  BY DEF Read, proxyVars
<1>2. requests[r] \in Call /\ requests \in Seq(Call)
  BY Counters DEF IDInv, ProxyInv, ProxyShape
<1>3. /\ answered.id = requests[r].id /\ answered.answerTo = from
      /\ failed.id = requests[r].id /\ failed.state = "failed"
  BY <1>2 DEF Call
<1>4. requests[from].id = from /\ requests[r].id = r
  BY DEF IDInv, Numbered
<1> HIDE DEF answered, failed
<1>5. call.id = requests[r].id /\ (call.state = "answered" => call.answerTo = r)
  BY <1>3, <1>4
<1> HIDE DEF call
<1>6. /\ Len(requests') = Len(requests)
      /\ \A s \in Made : requests'[s] = IF s = r THEN call ELSE requests[s]
  BY <1>1, <1>2 DEF Made
<1> QED BY <1>1, <1>5, <1>6, CallsEnd

LEMMA ExpireFails ==
  ASSUME IDInv, ProxyInv', NEW r \in Made, Expire(r)
  PROVE  IDInv'
<1> DEFINE call == [requests[r] EXCEPT !.state = "failed"]
<1>1. /\ requests' = [requests EXCEPT ![r] = call]
      /\ UNCHANGED <<lastID, recentIDs, accepted>>
  BY DEF Expire, proxyVars
<1>2. requests[r] \in Call /\ requests \in Seq(Call)
  BY Counters DEF IDInv, ProxyInv, ProxyShape
<1>3. call.id = requests[r].id /\ call.state = "failed"
  BY <1>2 DEF Call
<1> HIDE DEF call
<1>4. /\ Len(requests') = Len(requests)
      /\ \A s \in Made : requests'[s] = IF s = r THEN call ELSE requests[s]
  BY <1>1, <1>2 DEF Made
<1> QED BY <1>1, <1>3, <1>4, CallsEnd

(* What is accepted is in the window, and what moves in it was.            *)
LEMMA AcceptRemembers ==
  ASSUME IDInv, ProxyInv', NEW r \in Made, Accept(r)
  PROVE  IDInv'
<1>1. /\ recentIDs' = Remember(requests[r].id) /\ accepted' = Append(accepted, r)
      /\ UNCHANGED <<lastID, requests>>
  BY DEF Accept, clientVars
<1>2. r \in Request /\ requests[r].id \in ID /\ requests[r].id = r
  BY Counters DEF IDInv, ProxyInv, Numbered, Call
<1>3. accepted \in Seq(Request) /\ Window \in Nat \ {0}
  BY ProxyAssumption DEF IDInv, ProxyInv, ProxyShape
<1>4. ToSet(accepted') = ToSet(accepted) \cup {r}
  <2>1. /\ DOMAIN accepted = 1..Len(accepted) /\ Len(accepted) \in Nat
        /\ DOMAIN accepted' = 1..(Len(accepted) + 1)
        /\ accepted'[Len(accepted) + 1] = r
        /\ \A a \in 1..Len(accepted) : accepted'[a] = accepted[a]
    BY <1>1, <1>2, <1>3
  <2>2. \A a \in 1..(Len(accepted) + 1) : a \in 1..Len(accepted) \/ a = Len(accepted) + 1
    BY <2>1
  <2>3. 1..Len(accepted) \subseteq 1..(Len(accepted) + 1)
        /\ Len(accepted) + 1 \in 1..(Len(accepted) + 1)
    BY <2>1
  <2> QED BY <2>1, <2>2, <2>3 DEF ToSet
<1>5. \A w \in 1..Window : recentIDs'[w] = IF w = Window THEN r ELSE recentIDs[w + 1]
  BY <1>1, <1>2, RememberShifts DEF IDInv, ProxyInv
<1>6. \A w \in 1..Window : w # Window => w + 1 \in 1..Window
  BY <1>3
<1>7. WindowIsAccepted'
  BY <1>4, <1>5, <1>6 DEF IDInv, WindowIsAccepted
<1>8. Numbered' /\ CountedUp' /\ OwnAnswer'
  BY <1>1 DEF IDInv, Numbered, CountedUp, OwnAnswer, Made
<1> QED BY <1>7, <1>8 DEF IDInv

LEMMA OthersKeepIDs ==
  ASSUME IDInv, ProxyInv',
         \/ RestartProxy
         \/ \E r \in Made : Discard(r) \/ Respond(r) \/ LoseRequest(r) \/ LoseAnswer(r)
                            \/ Bounce(r)
  PROVE  IDInv'
<1>1. CASE RestartProxy
  <2>1. recentIDs' = NoIDs /\ UNCHANGED <<lastID, requests>>
    BY <1>1 DEF RestartProxy, clientVars
  <2>2. Numbered' /\ CountedUp' /\ OwnAnswer'
    BY <2>1 DEF IDInv, Numbered, CountedUp, OwnAnswer, Made
  <2>3. WindowIsAccepted'
    BY <2>1 DEF WindowIsAccepted, NoIDs
  <2> QED BY <2>2, <2>3 DEF IDInv
<1>2. CASE \E r \in Made : Discard(r) \/ Respond(r) \/ LoseRequest(r) \/ LoseAnswer(r)
                          \/ Bounce(r)
  <2>1. UNCHANGED <<lastID, requests, recentIDs, accepted>>
    BY <1>2 DEF Discard, Respond, LoseRequest, LoseAnswer, Bounce, clientVars, proxyVars
  <2> QED BY <2>1 DEF IDInv, Numbered, CountedUp, OwnAnswer, WindowIsAccepted, Made
<1> QED BY <1>1, <1>2

LEMMA IDNextInv ==
  ASSUME IDsAreEnough
  PROVE  IDInv /\ [Next]_vars /\ [ClientsStay]_vars => IDInv'
<1> SUFFICES ASSUME IDInv, [Next]_vars, [ClientsStay]_vars PROVE IDInv'
  OBVIOUS
<1>1. ProxyInv'
  BY ProxyNextInv DEF IDInv
<1>2. CASE UNCHANGED vars
  BY <1>1, <1>2
     DEF vars, IDInv, Numbered, CountedUp, OwnAnswer, WindowIsAccepted, Made
<1>3. CASE Next /\ ClientsStay
  BY <1>1, <1>3, AskNumbers, ReadAnswers, ExpireFails, AcceptRemembers, OthersKeepIDs
     DEF Next, ClientsStay
<1> QED BY <1>2, <1>3

(* The answer that a call of the only client returns is the answer to that *)
(* call, whatever is lost, delayed or reordered, whichever ports the calls *)
(* share and however often the proxy is restarted (storjutils.go 262, the  *)
(* check of RequestID in PingAndClose).                                    *)
THEOREM OwnAnswerAlways ==
  ASSUME IDsAreEnough
  PROVE  Spec /\ [][ClientsStay]_vars => []OwnAnswer
<1>1. IDInv => OwnAnswer
  BY DEF IDInv
<1> QED BY <1>1, IDInitInv, IDNextInv, PTL DEF Spec

(* What a proxy with one client discards as a duplicate is one: another    *)
(* copy of that request was accepted (the comment at ping_proxy.go 154).   *)
THEOREM OnlyDuplicatesAlways ==
  ASSUME IDsAreEnough
  PROVE  Spec /\ [][ClientsStay]_vars => OnlyDuplicatesDiscarded
<1>1. IDInv => \A r \in Made : Discard(r) => r \in ToSet(accepted)
  <2> SUFFICES ASSUME IDInv, NEW r \in Made, Discard(r) PROVE r \in ToSet(accepted)
    OBVIOUS
  <2>1. r \in Request /\ requests[r].id = r /\ recentIDs \in [1..Window -> ID]
    BY Counters DEF IDInv, ProxyInv, ProxyShape, Numbered
  <2>2. PICK w \in 1..Window : recentIDs[w] = r
    BY <2>1 DEF Discard, IsDuplicate, ToSet
  <2>3. r # 0
    BY <2>1, ProxyAssumption DEF Request
  <2> QED BY <2>2, <2>3 DEF IDInv, WindowIsAccepted
<1> QED BY <1>1, IDInitInv, IDNextInv, PTL DEF Spec, OnlyDuplicatesDiscarded
=============================================================================
