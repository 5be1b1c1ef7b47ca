---------------------------- MODULE UdpPingProxy ----------------------------
(***************************************************************************)
(* Pinging a node through the UDP proxy: SatelliteUDPProxy.PingAndClose in *)
(* the processes that ping (updater, prober, site), StartPingUDPProxy in   *)
(* the proxy, and the network between them, which loses, delays and        *)
(* reorders packets.                                                       *)
(*                                                                         *)
(* Against loss every packet is sent Copies times; against executing the   *)
(* copies the proxy remembers the last Window request IDs.  A request is   *)
(* one call of PingAndClose; requests are numbered as they are made, and   *)
(* that number, unlike the request ID, is not sent.                        *)
(***************************************************************************)
EXTENDS Naturals, Sequences, FiniteSets, SequencesExt

CONSTANTS Client,       \* processes that ping through this proxy
          Port,         \* local ports their sockets get
          Copies,       \* PingUDPProxyPacketRepeat
          Window,       \* length of lastRequestIDs
          IDRange,      \* request IDs are uint32
          MaxRequests,  \* bound of the model: requests ever made
          MaxLosses,    \* bound of the model: packets lost per direction
                        \* of one request
          MaxRestarts   \* bound of the model: restarts of any process

ASSUME ProxyAssumption ==
    /\ Copies \in Nat \ {0} /\ Window \in Nat \ {0} /\ IDRange \in Nat \ {0}
    /\ MaxRequests \in Nat /\ MaxLosses \in Nat /\ MaxRestarts \in Nat

VARIABLES lastID,    \* each client's lastRequestID
          requests,  \* log: what was asked for, by whom, and its outcome
          toProxy,   \* copies of each request on their way
          toClient,  \* copies of the answer to each request on their way
          losses,    \* <<lost requests, lost answers>> of each request
          recentIDs, \* proxy: lastRequestIDs
          pinging,   \* proxy: goroutines pinging for each request
          accepted,  \* ghost: requests this run of the proxy accepted
          restarts

vars == <<lastID, requests, toProxy, toClient, losses, recentIDs, pinging,
          accepted, restarts>>

clientVars  == <<lastID, requests>>
networkVars == <<toProxy, toClient, losses>>
proxyVars   == <<recentIDs, pinging, accepted>>

Request == 1..MaxRequests
Made == DOMAIN requests
Waiting(r) == r \in Made /\ requests[r].state = "waiting"

NoIDs == [i \in 1..Window |-> 0]
None  == [r \in Request |-> 0]

Init ==
    /\ lastID = [c \in Client |-> 0]
    /\ requests = <<>>
    /\ toProxy = None /\ toClient = None
    /\ losses = [r \in Request |-> <<0, 0>>]
    /\ recentIDs = NoIDs
    /\ pinging = None
    /\ accepted = <<>>
    /\ restarts = 0

-----------------------------------------------------------------------------
(* Clients.                                                                *)

(* Mutant: IDs are used before they are incremented, so the first is 0.    *)
Ask_FromZero(c, port) ==
    /\ Len(requests) < MaxRequests
    /\ \A r \in Made : Waiting(r) => requests[r].port # port
    /\ lastID' = [lastID EXCEPT ![c] = (@ + 1) % IDRange]
    /\ requests' = Append(requests, [client |-> c, id |-> lastID[c], port |-> port,
                                     state |-> "waiting", answerTo |-> 0])
    /\ toProxy' = [toProxy EXCEPT ![Len(requests) + 1] = Copies]
    /\ UNCHANGED <<toClient, losses, proxyVars, restarts>>

(* Mutant: one copy fewer is sent.                                         *)
Ask_FewerCopies(c, port) ==
    /\ Len(requests) < MaxRequests
    /\ \A r \in Made : Waiting(r) => requests[r].port # port
    /\ LET id == (lastID[c] + 1) % IDRange
       IN  /\ lastID' = [lastID EXCEPT ![c] = id]
           /\ requests' = Append(requests, [client |-> c, id |-> id, port |-> port,
                                            state |-> "waiting", answerTo |-> 0])
    /\ toProxy' = [toProxy EXCEPT ![Len(requests) + 1] = Copies - 1]
    /\ UNCHANGED <<toClient, losses, proxyVars, restarts>>

(* A new socket, on a port no open socket has, and Copies writes.          *)
Ask(c, port) ==
    /\ Len(requests) < MaxRequests
    /\ \A r \in Made : Waiting(r) => requests[r].port # port
    /\ LET id == (lastID[c] + 1) % IDRange
       IN  /\ lastID' = [lastID EXCEPT ![c] = id]
           /\ requests' = Append(requests, [client |-> c, id |-> id, port |-> port,
                                            state |-> "waiting", answerTo |-> 0])
    /\ toProxy' = [toProxy EXCEPT ![Len(requests) + 1] = Copies]
    /\ UNCHANGED <<toClient, losses, proxyVars, restarts>>

(* Mutant: the RequestID of the answer is not compared.                    *)
Read_AnyID(r, from) ==
    /\ Waiting(r)
    /\ toClient[from] > 0
    /\ requests[from].port = requests[r].port
    /\ toClient' = [toClient EXCEPT ![from] = @ - 1]
    /\ requests' = [requests EXCEPT ![r].state = "answered", ![r].answerTo = from]
    /\ UNCHANGED <<lastID, toProxy, losses, proxyVars, restarts>>

(* One read.  A packet that arrives at the socket is the answer to the     *)
(* request that last had this port, or to an earlier one.                  *)
Read(r, from) ==
    /\ Waiting(r)
    /\ toClient[from] > 0
    /\ requests[from].port = requests[r].port
    /\ toClient' = [toClient EXCEPT ![from] = @ - 1]
    /\ requests' = [requests EXCEPT ![r] =
                      IF requests[from].id = @.id
                        THEN [@ EXCEPT !.state = "answered", !.answerTo = from]
                        ELSE [@ EXCEPT !.state = "failed"]]
    /\ UNCHANGED <<lastID, toProxy, losses, proxyVars, restarts>>

(* The deadline of the socket passes.                                      *)
Expire(r) ==
    /\ Waiting(r)
    /\ requests' = [requests EXCEPT ![r].state = "failed"]
    /\ UNCHANGED <<lastID, networkVars, proxyVars, restarts>>

(* The IDs of the new process begin at 1 again; its sockets are new.       *)
RestartClient(c) ==
    /\ restarts < MaxRestarts
    /\ restarts' = restarts + 1
    /\ lastID' = [lastID EXCEPT ![c] = 0]
    /\ requests' = [r \in Made |->
                      IF Waiting(r) /\ requests[r].client = c
                        THEN [requests[r] EXCEPT !.state = "failed"]
                        ELSE requests[r]]
    /\ UNCHANGED <<networkVars, proxyVars>>

-----------------------------------------------------------------------------
(* Proxy.                                                                  *)

IsDuplicate(id) == id \in ToSet(recentIDs)

(* Mutant: the new ID replaces the last one, and nothing is shifted.       *)
Remember_NoShift(id) == [recentIDs EXCEPT ![Window] = id]

(* Shift by one, put the new ID at the end.                                *)
Remember(id) == Append(Tail(recentIDs), id)

Accept(r) ==
    /\ toProxy[r] > 0
    /\ ~IsDuplicate(requests[r].id)
    /\ toProxy' = [toProxy EXCEPT ![r] = @ - 1]
    /\ recentIDs' = Remember(requests[r].id)
    /\ pinging' = [pinging EXCEPT ![r] = @ + 1]
    /\ accepted' = Append(accepted, r)
    /\ UNCHANGED <<clientVars, toClient, losses, restarts>>

(* "continue //duplicate"                                                  *)
Discard(r) ==
    /\ toProxy[r] > 0
    /\ IsDuplicate(requests[r].id)
    /\ toProxy' = [toProxy EXCEPT ![r] = @ - 1]
    /\ UNCHANGED <<clientVars, toClient, losses, proxyVars, restarts>>

(* The ping ends, well or badly; the answer goes to the sender's port.     *)
Respond(r) ==
    /\ pinging[r] > 0
    /\ pinging' = [pinging EXCEPT ![r] = @ - 1]
    /\ toClient' = [toClient EXCEPT ![r] = @ + Copies]
    /\ UNCHANGED <<clientVars, toProxy, losses, recentIDs, accepted, restarts>>

RestartProxy ==
    /\ restarts < MaxRestarts
    /\ restarts' = restarts + 1
    /\ recentIDs' = NoIDs
    /\ pinging' = None
    /\ accepted' = <<>>
    /\ UNCHANGED <<clientVars, networkVars>>

-----------------------------------------------------------------------------
(* Network.                                                                *)

LoseRequest(r) ==
    /\ toProxy[r] > 0
    /\ losses[r][1] < MaxLosses
    /\ toProxy' = [toProxy EXCEPT ![r] = @ - 1]
    /\ losses' = [losses EXCEPT ![r][1] = @ + 1]
    /\ UNCHANGED <<clientVars, toClient, proxyVars, restarts>>

LoseAnswer(r) ==
    /\ toClient[r] > 0
    /\ losses[r][2] < MaxLosses
    /\ toClient' = [toClient EXCEPT ![r] = @ - 1]
    /\ losses' = [losses EXCEPT ![r][2] = @ + 1]
    /\ UNCHANGED <<clientVars, toProxy, proxyVars, restarts>>

(* A packet to a port nobody listens on is thrown away by the kernel; the  *)
(* sender is not told.                                                     *)
Bounce(r) ==
    /\ toClient[r] > 0
    /\ \A s \in Made : Waiting(s) => requests[s].port # requests[r].port
    /\ toClient' = [toClient EXCEPT ![r] = @ - 1]
    /\ UNCHANGED <<clientVars, toProxy, losses, proxyVars, restarts>>

-----------------------------------------------------------------------------
Next ==
    \/ \E c \in Client, port \in Port : Ask(c, port)
    \/ \E r, from \in Made : Read(r, from)
    \/ \E r \in Made : Expire(r)
    \/ \E c \in Client : RestartClient(c)
    \/ \E r \in Made : Accept(r)
    \/ \E r \in Made : Discard(r)
    \/ \E r \in Made : Respond(r)
    \/ RestartProxy
    \/ \E r \in Made : LoseRequest(r)
    \/ \E r \in Made : LoseAnswer(r)
    \/ \E r \in Made : Bounce(r)

Spec == Init /\ [][Next]_vars

(* What arrives is read, by the proxy's loop or the socket that waits for  *)
(* it, and a ping ends because it has a deadline.  Nothing obliges a       *)
(* deadline to pass: Expire stands for a packet that is too late.          *)
FairSpec ==
    /\ Spec
    /\ \A r \in Request : /\ WF_vars(r \in Made /\ (Accept(r) \/ Discard(r)))
                          /\ WF_vars(r \in Made /\ Respond(r))
                          /\ WF_vars(\E from \in Made : Read(r, from))

-----------------------------------------------------------------------------
TypeOK ==
    /\ lastID \in [Client -> 0..(IDRange - 1)]
    /\ requests \in Seq([client : Client, id : 0..(IDRange - 1), port : Port,
                         state : {"waiting", "answered", "failed"},
                         answerTo : Request \cup {0}])
    /\ toProxy \in [Request -> 0..Copies]
    /\ toClient \in [Request -> Nat]
    /\ losses \in [Request -> (0..MaxLosses) \X (0..MaxLosses)]
    /\ recentIDs \in [1..Window -> 0..(IDRange - 1)]
    /\ pinging \in [Request -> Nat]
    /\ accepted \in Seq(Request)
    /\ restarts \in 0..MaxRestarts

(* The answer a call returns is the answer to that call, also when its     *)
(* socket got the port of an earlier one whose answers are still under way *)
(* (the check of RequestID in PingAndClose).                               *)
OwnAnswer ==
    \A r \in Made : requests[r].state = "answered" => requests[r].answerTo = r

(* The copies of one request are executed once, unless as many as Window   *)
(* other requests were accepted since: lastRequestIDs forgets the oldest   *)
(* and only the oldest.                                                    *)
OncePerWindow ==
    \A a, b \in DOMAIN accepted :
        a < b /\ accepted[a] = accepted[b] => b - a > Window

(* What the proxy discards as a "duplicate" (the comment in                *)
(* StartPingUDPProxy) is one: another copy of the request was accepted.    *)
OnlyDuplicatesDiscarded ==
    [][\A r \in Made : Discard(r) => r \in ToSet(accepted)]_vars

(* Losing fewer packets than are sent, each way, is no reason for a        *)
(* request to run into its deadline: if deadlines stop passing and the     *)
(* processes stop being restarted, every request gets its packet.          *)
CopiesSuffice ==
    <>[][/\ \A r \in Made : ~Expire(r)
         /\ UNCHANGED restarts]_vars
      => \A r \in Request : Waiting(r) ~> ~Waiting(r)
=============================================================================
