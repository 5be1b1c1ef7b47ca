------------------------ MODULE ProbePipeline_proofs ------------------------
(***************************************************************************)
(* Theorems about ProbePipeline, for any number of workers, any channel    *)
(* capacities, any chunk sizes and any number of jobs.                     *)
(*                                                                         *)
(* The argument: TypeOK and AtRest are inductive by themselves.  Together  *)
(* they make OnePlace inductive (a job is always moved from one stage to   *)
(* another, so that the stages stay disjoint and their union stays the     *)
(* set of claimed jobs).  From OnePlace follow PickedUpInOrder and the     *)
(* refinement of ProbeService.                                             *)
(***************************************************************************)
EXTENDS ProbePipeline, CommonLemmas, FiniteSetTheorems, TLAPS

(* The chunk that Claim(k) puts into held.                                 *)
Chunk(c, k) == [i \in 1..k |-> c + i]

LEMMA ChunkIsAQueue ==
  ASSUME NEW c \in Nat, NEW k \in Nat, c + k <= MaxJobs
  PROVE  /\ Chunk(c, k) \in Seq(Job)
         /\ Len(Chunk(c, k)) = k
         /\ ToSet(Chunk(c, k)) = (c + 1)..(c + k)
         /\ IsInjective(Chunk(c, k))
         /\ Ascends(Chunk(c, k))
<1>1. \A i \in 1..k : c + i \in Job
  BY PipelineAssumption DEF Job
<1>2. Chunk(c, k) \in [1..k -> Job]
  BY <1>1 DEF Chunk
<1>3. Chunk(c, k) \in Seq(Job)
  BY <1>2, SeqDef
<1>4. Len(Chunk(c, k)) = k /\ DOMAIN Chunk(c, k) = 1..k
  BY <1>2, <1>3, LenProperties DEF Chunk
<1>5. \A i \in 1..k : Chunk(c, k)[i] = c + i
  BY DEF Chunk
<1>6. ToSet(Chunk(c, k)) = (c + 1)..(c + k)
  <2>1. \A x \in (c + 1)..(c + k) : x - c \in 1..k /\ c + (x - c) = x
    OBVIOUS
  <2>2. \A i \in 1..k : c + i \in (c + 1)..(c + k)
    OBVIOUS
  <2>3. ToSet(Chunk(c, k)) = {c + i : i \in 1..k}
    BY <1>4, <1>5 DEF ToSet
  <2> QED
    BY <2>1, <2>2, <2>3
<1> QED
  BY <1>3, <1>4, <1>5, <1>6 DEF IsInjective, Ascends

-----------------------------------------------------------------------------
(* A worker that has a result has the job it is a result of.               *)
ResultHasJob == \A w \in Worker : probed[w] => hand[w] # NoJob

(* Nothing is left in a process that does not run.                         *)
AtRest ==
    ~up => /\ errs = {}
           /\ held = <<>> /\ inChan = <<>>
           /\ hand = Idle
           /\ outChan = <<>> /\ fwd = NoJob /\ chanI = <<>> /\ items = <<>>

(* TypeOK alone is not inductive: Deliver sends what the hand holds.       *)
Sound == TypeOK /\ ResultHasJob /\ AtRest

LEMMA SoundStep == Sound /\ [Next]_vars => Sound'
<1> SUFFICES ASSUME Sound, [Next]_vars PROVE Sound'
  OBVIOUS
<1> USE PipelineAssumption DEF Sound, loaderVars, workerVars, saverVars,
        ledgerVars, processVars
<1>0. /\ <<>> \in Seq(Job) /\ Len(<<>>) = 0
      /\ NoJob \notin Job /\ NoJob = 0
  BY EmptyQueue DEF NoJob, Job
<1>1. ASSUME NEW k \in 1..ClaimChunk, Claim(k) PROVE Sound'
  <2>1. held' = Chunk(claimed, k)
    BY <1>1 DEF Claim, Chunk
  <2>2. claimed \in Nat /\ k \in Nat /\ claimed + k <= MaxJobs
    BY <1>1 DEF Claim, TypeOK
  <2>3. held' \in Seq(Job) /\ Len(held') <= ClaimChunk
    BY <2>1, <2>2, ChunkIsAQueue
  <2>4. TypeOK'
    BY <1>1, <2>2, <2>3 DEF Claim, TypeOK
  <2>5. ResultHasJob' /\ AtRest'
    BY <1>1 DEF Claim, ResultHasJob, AtRest, Runs
  <2> QED
    BY <2>4, <2>5
<1>2. ASSUME NEW k \in 0..ClaimChunk, ClaimFails(k) PROVE Sound'
  <2>1. TypeOK'
    BY <1>2 DEF ClaimFails, TypeOK, Fresh, Job
  <2>2. ResultHasJob' /\ AtRest'
    BY <1>2 DEF ClaimFails, ResultHasJob, AtRest, Runs
  <2> QED
    BY <2>1, <2>2
<1>3. CASE Push
  <2>1. TypeOK'
    BY <1>3, TakeHead, SendLast DEF Push, TypeOK
  <2>2. ResultHasJob' /\ AtRest'
    BY <1>3 DEF Push, ResultHasJob, AtRest, Runs
  <2> QED
    BY <2>1, <2>2
<1>4. ASSUME NEW w \in Worker, Take(w) PROVE Sound'
  <2>1. TypeOK'
    BY <1>4, TakeHead DEF Take, TypeOK
  <2>2. Head(inChan) \in Job
    BY <1>4, TakeHead DEF Take, TypeOK
  <2>3. ResultHasJob' /\ AtRest'
    BY <1>0, <1>4, <2>2 DEF Take, TypeOK, ResultHasJob, AtRest, Runs
  <2> QED
    BY <2>1, <2>3
<1>5. ASSUME NEW w \in Worker, Probe(w) PROVE Sound'
  BY <1>5 DEF Probe, TypeOK, ResultHasJob, AtRest, Runs
<1>6. ASSUME NEW w \in Worker, DropUnreachable(w) PROVE Sound'
  <2>1. TypeOK'
    BY <1>6 DEF DropUnreachable, TypeOK
  <2>2. ResultHasJob' /\ AtRest'
    BY <1>6 DEF DropUnreachable, TypeOK, ResultHasJob, AtRest, Runs
  <2> QED
    BY <2>1, <2>2
<1>7. ASSUME NEW w \in Worker, Deliver(w) PROVE Sound'
  <2>1. hand[w] \in Job
    BY <1>7 DEF Deliver, ResultHasJob, TypeOK
  <2>2. outChan' \in Seq(Job) /\ Len(outChan') <= OutCap
    BY <1>7, <2>1, SendLast, LenProperties DEF Deliver, TypeOK
  <2>3. TypeOK'
    BY <1>7, <2>2 DEF Deliver, TypeOK
  <2>4. ResultHasJob' /\ AtRest'
    BY <1>7 DEF Deliver, TypeOK, ResultHasJob, AtRest, Runs
  <2> QED
    BY <2>3, <2>4
<1>8. CASE Receive
  <2>1. TypeOK'
    BY <1>8, TakeHead DEF Receive, TypeOK
  <2>2. ResultHasJob' /\ AtRest'
    BY <1>8 DEF Receive, ResultHasJob, AtRest
  <2> QED
    BY <2>1, <2>2
<1>9. CASE Forward
  <2>1. fwd \in Job
    BY <1>9 DEF Forward, TypeOK
  <2>2. chanI' \in Seq(Job) /\ Len(chanI') <= ChanICap
    BY <1>9, <2>1, SendLast, LenProperties DEF Forward, TypeOK
  <2>3. TypeOK'
    BY <1>9, <2>2 DEF Forward, TypeOK
  <2>4. ResultHasJob' /\ AtRest'
    BY <1>9 DEF Forward, ResultHasJob, AtRest
  <2> QED
    BY <2>3, <2>4
<1>10. CASE Collect
  <2>1. TypeOK'
    BY <1>10, TakeHead, SendLast DEF Collect, TypeOK
  <2>2. ResultHasJob' /\ AtRest'
    BY <1>10 DEF Collect, ResultHasJob, AtRest, Runs
  <2> QED
    BY <2>1, <2>2
<1>11. CASE Save
  <2>1. ToSet(items) \subseteq Job
    BY LenProperties, ElementOfSeq DEF ToSet, TypeOK
  <2>2. TypeOK'
    BY <1>0, <1>11, <2>1 DEF Save, TypeOK
  <2>3. ResultHasJob' /\ AtRest'
    BY <1>11 DEF Save, ResultHasJob, AtRest, Runs
  <2> QED
    BY <2>2, <2>3
<1>12. ASSUME NEW committed \in BOOLEAN, SaveFails(committed) PROVE Sound'
  <2>1. ToSet(items) \subseteq Job
    BY LenProperties, ElementOfSeq DEF ToSet, TypeOK
  <2>2. TypeOK'
    BY <1>0, <1>12, <2>1 DEF SaveFails, TypeOK
  <2>3. ResultHasJob' /\ AtRest'
    BY <1>12 DEF SaveFails, ResultHasJob, AtRest, Runs
  <2> QED
    BY <2>2, <2>3
<1>13. CASE End
  <2>1. InMemory \subseteq Job
    BY LenProperties, ElementOfSeq
    DEF InMemory, InHands, InForwarder, ToSet, TypeOK
  <2>2. hand' \in [Worker -> Job \cup {NoJob}]
    BY <1>13 DEF End, Idle
  <2>3. probed' \in [Worker -> BOOLEAN]
    BY <1>13, Zenon DEF End
  <2>4. /\ up' \in BOOLEAN /\ errs' \subseteq {"loader", "pinger", "saver"}
        /\ claimed' \in 0..MaxJobs /\ fwd' \in Job \cup {NoJob}
        /\ saved' \subseteq Job /\ dropped' \subseteq Job /\ lost' \subseteq Job
    BY <1>13, <2>1 DEF End, TypeOK
  <2>5. \A q \in {held', inChan', outChan', chanI', items'} :
           q \in Seq(Job) /\ Len(q) = 0
    BY <1>0, <1>13 DEF End
  <2>6. TypeOK'
    BY <2>2, <2>3, <2>4, <2>5 DEF TypeOK
  <2>7. ResultHasJob' /\ AtRest'
    BY <1>13 DEF End, ResultHasJob, AtRest
  <2> QED
    BY <2>6, <2>7
<1>14. CASE Start
  BY <1>14 DEF Start, TypeOK, ResultHasJob, AtRest
<1>15. CASE UNCHANGED vars
  BY <1>15 DEF vars, TypeOK, ResultHasJob, AtRest
<1> QED
  BY <1>1, <1>2, <1>3, <1>4, <1>5, <1>6, <1>7, <1>8, <1>9, <1>10, <1>11,
     <1>12, <1>13, <1>14, <1>15 DEF Next, Poll, Kill

LEMMA SoundAlways == Spec => []Sound
<1>1. Init => Sound
  <2> SUFFICES ASSUME Init PROVE Sound
    OBVIOUS
  <2>1. <<>> \in Seq(Job) /\ Len(<<>>) = 0
    BY EmptyQueue
  <2>2. hand \in [Worker -> Job \cup {NoJob}]
    BY DEF Init, Idle
  <2>3. probed \in [Worker -> BOOLEAN]
    BY Zenon DEF Init
  <2>4. /\ up \in BOOLEAN /\ errs \subseteq {"loader", "pinger", "saver"}
        /\ fwd \in Job \cup {NoJob}
        /\ saved \subseteq Job /\ dropped \subseteq Job /\ lost \subseteq Job
    BY Zenon DEF Init
  <2>5. claimed \in 0..MaxJobs
    BY PipelineAssumption DEF Init
  <2>6. \A q \in {held, inChan, outChan, chanI, items} :
           q \in Seq(Job) /\ Len(q) = 0
    BY <2>1 DEF Init
  <2>7. TypeOK
    BY <2>2, <2>3, <2>4, <2>5, <2>6, PipelineAssumption DEF TypeOK
  <2>8. ResultHasJob /\ AtRest
    BY DEF Init, ResultHasJob, AtRest
  <2> QED
    BY <2>7, <2>8 DEF Sound
<1> QED
  BY <1>1, SoundStep, PTL DEF Spec

(* Every variable keeps its type, and no channel and no chunk outgrows its *)
(* capacity, whatever the steps.                                           *)
THEOREM TypeCorrect == Spec => []TypeOK
<1>1. Sound => TypeOK
  BY DEF Sound
<1> QED
  BY <1>1, SoundAlways, PTL

-----------------------------------------------------------------------------
(* Moving things between the members of a family of disjoint sets.         *)

Disjoint(F, I) == \A s, t \in I : s # t => F[s] \cap F[t] = {}
Union(F, I) == UNION {F[s] : s \in I}

(* Nothing moves.                                                          *)
LEMMA Keep ==
  ASSUME NEW I, NEW F, NEW G, Disjoint(F, I), \A s \in I : G[s] = F[s]
  PROVE  Disjoint(G, I) /\ Union(G, I) = Union(F, I)
BY DEF Disjoint, Union

(* X moves from one member to another.                                     *)
LEMMA Move ==
  ASSUME NEW I, NEW F, NEW G, NEW a \in I, NEW b \in I, NEW X,
         a # b, Disjoint(F, I), X \subseteq F[a],
         G[a] = F[a] \ X, G[b] = F[b] \cup X,
         \A s \in I \ {a, b} : G[s] = F[s]
  PROVE  Disjoint(G, I) /\ Union(G, I) = Union(F, I)
<1>1. Disjoint(G, I)
  BY DEF Disjoint
<1>2. ASSUME NEW x \in Union(F, I) PROVE x \in Union(G, I)
  <2>1. PICK s \in I : x \in F[s]
    BY DEF Union
  <2>2. x \in G[s] \/ x \in G[b]
    BY <2>1
  <2> QED
    BY <2>2 DEF Union
<1>3. ASSUME NEW x \in Union(G, I) PROVE x \in Union(F, I)
  <2>1. PICK s \in I : x \in G[s]
    BY DEF Union
  <2>2. x \in F[s] \/ x \in F[a]
    BY <2>1
  <2> QED
    BY <2>2 DEF Union
<1> QED
  BY <1>1, <1>2, <1>3

(* Everything in the members of J moves to b.                              *)
LEMMA Gather ==
  ASSUME NEW I, NEW F, NEW G, NEW J, NEW b \in I,
         J \subseteq I, b \notin J, Disjoint(F, I),
         \A s \in J : G[s] = {},
         G[b] = F[b] \cup Union(F, J),
         \A s \in I : s \notin J /\ s # b => G[s] = F[s]
  PROVE  Disjoint(G, I) /\ Union(G, I) = Union(F, I)
<1>1. \A x : x \in Union(F, J) <=> \E s \in J : x \in F[s]
  BY DEF Union
<1>2. Disjoint(G, I)
  BY <1>1 DEF Disjoint
<1>3. ASSUME NEW x \in Union(F, I) PROVE x \in Union(G, I)
  <2>1. PICK s \in I : x \in F[s]
    BY DEF Union
  <2>2. x \in G[s] \/ x \in G[b]
    BY <1>1, <2>1
  <2> QED
    BY <2>2 DEF Union
<1>4. ASSUME NEW x \in Union(G, I) PROVE x \in Union(F, I)
  <2>1. PICK s \in I : x \in G[s]
    BY DEF Union
  <2>2. \E t \in I : x \in F[t]
    BY <1>1, <2>1
  <2> QED
    BY <2>2 DEF Union
<1> QED
  BY <1>2, <1>3, <1>4

(* Something new is put into one member.                                   *)
Grows(F, G, I, b) ==
    /\ b \in I
    /\ Disjoint(F, I)
    /\ F[b] \subseteq G[b]
    /\ \A x \in G[b] : x \in F[b] \/ x \notin Union(F, I)
    /\ \A s \in I \ {b} : G[s] = F[s]

LEMMA Enter ==
  ASSUME NEW I, NEW F, NEW G, NEW b, Grows(F, G, I, b)
  PROVE  Disjoint(G, I) /\ Union(G, I) = Union(F, I) \cup G[b]
<1> USE DEF Grows
<1>1. \A x : x \in Union(F, I) <=> \E s \in I : x \in F[s]
  BY DEF Union
<1>2. \A x : x \in Union(G, I) <=> \E s \in I : x \in G[s]
  BY DEF Union
<1>3. Disjoint(G, I)
  BY <1>1 DEF Disjoint
<1>4. ASSUME NEW x PROVE x \in Union(G, I) <=> x \in Union(F, I) \/ x \in G[b]
  BY <1>1, <1>2
<1> QED
  BY <1>3, <1>4

(* What At says of each stage, in this state and in the next.              *)
Places ==
    /\ At["held"] = ToSet(held) /\ At["inChan"] = ToSet(inChan)
    /\ At["hand"] = InHands /\ At["outChan"] = ToSet(outChan)
    /\ At["fwd"] = InForwarder /\ At["chanI"] = ToSet(chanI)
    /\ At["items"] = ToSet(items) /\ At["saved"] = saved
    /\ At["dropped"] = dropped /\ At["lost"] = lost

LEMMA PlacesHold == Places /\ Places'
<1>1. Places
  BY DEF Places, At, Stage
<1>2. Places'
  BY <1>1, PTL
<1> QED
  BY <1>1, <1>2

(* The workers' hands.                                                     *)
Hands(h) == {h[w] : w \in Worker} \ {NoJob}
Apart(h) == \A v, w \in Worker : v # w /\ h[v] = h[w] => h[v] = NoJob

LEMMA FillHand ==
  ASSUME NEW h \in [Worker -> Job \cup {NoJob}], NEW w \in Worker,
         NEW j \in Job, h[w] = NoJob, j \notin Hands(h), Apart(h)
  PROVE  /\ Hands([h EXCEPT ![w] = j]) = Hands(h) \cup {j}
         /\ Apart([h EXCEPT ![w] = j])
<1>1. j # NoJob
  BY DEF Job, NoJob
<1> DEFINE g == [h EXCEPT ![w] = j]
<1>2. g[w] = j /\ \A v \in Worker \ {w} : g[v] = h[v]
  OBVIOUS
<1> HIDE DEF g
<1>3. Hands(g) = Hands(h) \cup {j}
  BY <1>1, <1>2 DEF Hands
<1>4. Apart(g)
  BY <1>1, <1>2 DEF Hands, Apart
<1> QED
  BY <1>3, <1>4 DEF g

LEMMA ClearHand ==
  ASSUME NEW h \in [Worker -> Job \cup {NoJob}], NEW w \in Worker,
         h[w] # NoJob, Apart(h)
  PROVE  /\ h[w] \in Hands(h)
         /\ Hands([h EXCEPT ![w] = NoJob]) = Hands(h) \ {h[w]}
         /\ Apart([h EXCEPT ![w] = NoJob])
<1> DEFINE g == [h EXCEPT ![w] = NoJob]
<1>1. g[w] = NoJob /\ \A v \in Worker \ {w} : g[v] = h[v]
  OBVIOUS
<1> HIDE DEF g
<1>2. h[w] \in Hands(h)
  BY DEF Hands
<1>3. Hands(g) = Hands(h) \ {h[w]}
  BY <1>1 DEF Hands, Apart
<1>4. Apart(g)
  BY <1>1 DEF Apart
<1> QED
  BY <1>2, <1>3, <1>4 DEF g

-----------------------------------------------------------------------------
LEMMA OnePlaceStep == Sound /\ OnePlace /\ [Next]_vars => OnePlace'
<1> SUFFICES ASSUME Sound, OnePlace, [Next]_vars PROVE OnePlace'
  OBVIOUS
<1> USE DEF loaderVars, workerVars, saverVars, ledgerVars, processVars
<1> DEFINE F == At
           G == At'
<1>0. /\ Disjoint(F, Stage) /\ Union(F, Stage) = 1..claimed
      /\ NoTwins /\ TypeOK
      /\ InHands = Hands(hand) /\ InHands' = Hands(hand')
      /\ Apart(hand)
  BY DEF OnePlace, NoTwins, Disjoint, Union, Sound, InHands, Hands, Apart
<1>1. OnePlace' <=> /\ Disjoint(G, Stage) /\ Union(G, Stage) = 1..claimed'
                    /\ NoTwins'
  BY DEF OnePlace, Disjoint, Union
<1> HIDE DEF F, G
<1>2. /\ F["held"] = ToSet(held) /\ F["inChan"] = ToSet(inChan)
      /\ F["hand"] = InHands /\ F["outChan"] = ToSet(outChan)
      /\ F["fwd"] = InForwarder /\ F["chanI"] = ToSet(chanI)
      /\ F["items"] = ToSet(items) /\ F["saved"] = saved
      /\ F["dropped"] = dropped /\ F["lost"] = lost
  BY PlacesHold DEF Places, F
<1>3. /\ G["held"] = ToSet(held') /\ G["inChan"] = ToSet(inChan')
      /\ G["hand"] = InHands' /\ G["outChan"] = ToSet(outChan')
      /\ G["fwd"] = InForwarder' /\ G["chanI"] = ToSet(chanI')
      /\ G["items"] = ToSet(items') /\ G["saved"] = saved'
      /\ G["dropped"] = dropped' /\ G["lost"] = lost'
  BY PlacesHold DEF Places, G
<1>4. /\ "held" \in Stage /\ "inChan" \in Stage /\ "hand" \in Stage
      /\ "outChan" \in Stage /\ "fwd" \in Stage /\ "chanI" \in Stage
      /\ "items" \in Stage /\ "saved" \in Stage /\ "dropped" \in Stage
      /\ "lost" \in Stage
  BY DEF Stage
<1>5. /\ UNCHANGED hand => InHands' = InHands
      /\ UNCHANGED fwd => InForwarder' = InForwarder
  BY DEF InHands, InForwarder
<1>6. ASSUME NEW k \in 1..ClaimChunk, Claim(k) PROVE OnePlace'
  <2> DEFINE X == (claimed + 1)..(claimed + k)
  <2>1. claimed \in Nat /\ k \in Nat /\ claimed + k <= MaxJobs
    BY <1>0, <1>6, PipelineAssumption DEF Claim, TypeOK
  <2>2. held' = Chunk(claimed, k)
    BY <1>6 DEF Claim, Chunk
  <2>3. ToSet(held') = X /\ IsInjective(held')
    BY <2>1, <2>2, ChunkIsAQueue
  <2>4. X \cap (1..claimed) = {} /\ (1..claimed) \cup X = 1..(claimed + k)
    BY <2>1
  <2> HIDE DEF X
  <2>5. G["held"] = F["held"] \cup X
    BY <1>2, <1>3, <1>6, <2>3, EmptyQueue DEF Claim
  <2>6. \A s \in Stage \ {"held"} : G[s] = F[s]
    BY <1>2, <1>3, <1>5, <1>6 DEF Claim, Stage
  <2>7. /\ F["held"] \subseteq G["held"] /\ F["held"] \subseteq Union(F, Stage)
        /\ \A x \in G["held"] : x \in F["held"] \/ x \notin Union(F, Stage)
    BY <1>0, <1>4, <2>4, <2>5 DEF Union
  <2>8. Disjoint(G, Stage) /\ Union(G, Stage) = Union(F, Stage) \cup G["held"]
    <3>1. Grows(F, G, Stage, "held")
      BY <1>0, <1>4, <2>6, <2>7 DEF Grows
    <3> QED
      BY <3>1, Enter
  <2>9. NoTwins'
    BY <1>0, <1>6, <2>3 DEF Claim, NoTwins
  <2> QED
    BY <1>0, <1>1, <1>6, <2>4, <2>5, <2>7, <2>8, <2>9 DEF Claim
<1>7. ASSUME NEW k \in 0..ClaimChunk, ClaimFails(k) PROVE OnePlace'
  <2> DEFINE X == (claimed + 1)..(claimed + k)
  <2>1. claimed \in Nat /\ k \in Nat
    BY <1>0, <1>7, PipelineAssumption DEF TypeOK
  <2>2. X \cap (1..claimed) = {} /\ (1..claimed) \cup X = 1..(claimed + k)
    BY <2>1
  <2>3. lost' = lost \cup X
    BY <1>7 DEF ClaimFails, Fresh
  <2> HIDE DEF X
  <2>4. G["lost"] = F["lost"] \cup X
    BY <1>2, <1>3, <2>3
  <2>5. \A s \in Stage \ {"lost"} : G[s] = F[s]
    BY <1>2, <1>3, <1>5, <1>7 DEF ClaimFails, Stage
  <2>6. /\ F["lost"] \subseteq G["lost"] /\ F["lost"] \subseteq Union(F, Stage)
        /\ \A x \in G["lost"] : x \in F["lost"] \/ x \notin Union(F, Stage)
    BY <1>0, <1>4, <2>2, <2>4 DEF Union
  <2>7. Disjoint(G, Stage) /\ Union(G, Stage) = Union(F, Stage) \cup G["lost"]
    <3>1. Grows(F, G, Stage, "lost")
      BY <1>0, <1>4, <2>5, <2>6 DEF Grows
    <3> QED
      BY <3>1, Enter
  <2>8. NoTwins'
    BY <1>0, <1>7 DEF ClaimFails, NoTwins
  <2> QED
    BY <1>0, <1>1, <1>7, <2>2, <2>4, <2>6, <2>7, <2>8 DEF ClaimFails
<1>8. CASE Push
  <2> DEFINE x == Head(held)
  <2>1. /\ x \in Job /\ ToSet(held) = {x} \cup ToSet(held')
        /\ IsInjective(held') /\ x \notin ToSet(held')
    BY <1>0, <1>8, TakeHead DEF Push, TypeOK, NoTwins
  <2>2. x \notin ToSet(inChan)
    BY <1>0, <1>2, <2>1 DEF Disjoint, Stage
  <2>3. ToSet(inChan') = ToSet(inChan) \cup {x} /\ IsInjective(inChan')
    BY <1>0, <1>8, <2>1, <2>2, SendLast DEF Push, TypeOK, NoTwins
  <2> HIDE DEF x
  <2>4. /\ {x} \subseteq F["held"]
        /\ G["held"] = F["held"] \ {x} /\ G["inChan"] = F["inChan"] \cup {x}
    BY <1>2, <1>3, <2>1, <2>3
  <2>5. \A s \in Stage \ {"held", "inChan"} : G[s] = F[s]
    BY <1>2, <1>3, <1>5, <1>8 DEF Push, Stage
  <2>6. Disjoint(G, Stage) /\ Union(G, Stage) = 1..claimed
    BY <1>0, <1>4, <2>4, <2>5, Move
  <2>7. NoTwins'
    BY <1>0, <1>8, <2>1, <2>3 DEF Push, NoTwins
  <2> QED
    BY <1>1, <1>8, <2>6, <2>7 DEF Push
<1>9. ASSUME NEW w \in Worker, Take(w) PROVE OnePlace'
  <2> DEFINE x == Head(inChan)
  <2>1. /\ x \in Job /\ ToSet(inChan) = {x} \cup ToSet(inChan')
        /\ IsInjective(inChan') /\ x \notin ToSet(inChan')
    BY <1>0, <1>9, TakeHead DEF Take, TypeOK, NoTwins
  <2>2. x \notin Hands(hand)
    BY <1>0, <1>2, <2>1 DEF Disjoint, Stage
  <2>3. hand' = [hand EXCEPT ![w] = x] /\ hand[w] = NoJob
    BY <1>9 DEF Take
  <2> HIDE DEF x
  <2>4. Hands(hand') = Hands(hand) \cup {x} /\ Apart(hand')
    BY <1>0, <2>1, <2>2, <2>3, FillHand DEF TypeOK
  <2>5. /\ {x} \subseteq F["inChan"]
        /\ G["inChan"] = F["inChan"] \ {x} /\ G["hand"] = F["hand"] \cup {x}
    BY <1>0, <1>2, <1>3, <2>1, <2>4
  <2>6. \A s \in Stage \ {"inChan", "hand"} : G[s] = F[s]
    BY <1>2, <1>3, <1>5, <1>9 DEF Take, Stage
  <2>7. Disjoint(G, Stage) /\ Union(G, Stage) = 1..claimed
    BY <1>0, <1>4, <2>5, <2>6, Move
  <2>8. NoTwins'
    BY <1>0, <1>9, <2>1, <2>4 DEF Take, NoTwins, Apart
  <2> QED
    BY <1>1, <1>9, <2>7, <2>8 DEF Take
<1>10. ASSUME NEW w \in Worker, Probe(w) PROVE OnePlace'
  <2>1. \A s \in Stage : G[s] = F[s]
    BY <1>2, <1>3, <1>5, <1>10 DEF Probe, Stage
  <2>2. Disjoint(G, Stage) /\ Union(G, Stage) = 1..claimed
    BY <1>0, <2>1, Keep
  <2>3. NoTwins'
    BY <1>0, <1>10 DEF Probe, NoTwins
  <2> QED
    BY <1>1, <1>10, <2>2, <2>3 DEF Probe
<1>11. ASSUME NEW w \in Worker, DropUnreachable(w) PROVE OnePlace'
  <2> DEFINE x == hand[w]
  <2>1. /\ hand' = [hand EXCEPT ![w] = NoJob] /\ x # NoJob
        /\ dropped' = dropped \cup {x}
    BY <1>11 DEF DropUnreachable
  <2>2. /\ x \in Hands(hand) /\ Hands(hand') = Hands(hand) \ {x}
        /\ Apart(hand')
    BY <1>0, <2>1, ClearHand DEF TypeOK
  <2> HIDE DEF x
  <2>3. /\ {x} \subseteq F["hand"]
        /\ G["hand"] = F["hand"] \ {x}
        /\ G["dropped"] = F["dropped"] \cup {x}
    BY <1>0, <1>2, <1>3, <2>1, <2>2
  <2>4. \A s \in Stage \ {"hand", "dropped"} : G[s] = F[s]
    BY <1>2, <1>3, <1>5, <1>11 DEF DropUnreachable, Stage
  <2>5. Disjoint(G, Stage) /\ Union(G, Stage) = 1..claimed
    BY <1>0, <1>4, <2>3, <2>4, Move
  <2>6. NoTwins'
    BY <1>0, <1>11, <2>2 DEF DropUnreachable, NoTwins, Apart
  <2> QED
    BY <1>1, <1>11, <2>5, <2>6 DEF DropUnreachable
<1>12. ASSUME NEW w \in Worker, Deliver(w) PROVE OnePlace'
  <2> DEFINE x == hand[w]
  <2>1. /\ hand' = [hand EXCEPT ![w] = NoJob] /\ x # NoJob /\ x \in Job
        /\ outChan' = Append(outChan, x)
    BY <1>0, <1>12 DEF Deliver, Sound, ResultHasJob, TypeOK
  <2>2. /\ x \in Hands(hand) /\ Hands(hand') = Hands(hand) \ {x}
        /\ Apart(hand')
    BY <1>0, <2>1, ClearHand DEF TypeOK
  <2> HIDE DEF x
  <2>3. x \notin ToSet(outChan)
    BY <1>0, <1>2, <2>2 DEF Disjoint, Stage
  <2>4. ToSet(outChan') = ToSet(outChan) \cup {x} /\ IsInjective(outChan')
    BY <1>0, <2>1, <2>3, SendLast DEF TypeOK, NoTwins
  <2>5. /\ {x} \subseteq F["hand"]
        /\ G["hand"] = F["hand"] \ {x}
        /\ G["outChan"] = F["outChan"] \cup {x}
    BY <1>0, <1>2, <1>3, <2>2, <2>4
  <2>6. \A s \in Stage \ {"hand", "outChan"} : G[s] = F[s]
    BY <1>2, <1>3, <1>5, <1>12 DEF Deliver, Stage
  <2>7. Disjoint(G, Stage) /\ Union(G, Stage) = 1..claimed
    BY <1>0, <1>4, <2>5, <2>6, Move
  <2>8. NoTwins'
    BY <1>0, <1>12, <2>2, <2>4 DEF Deliver, NoTwins, Apart
  <2> QED
    BY <1>1, <1>12, <2>7, <2>8 DEF Deliver
<1>13. CASE Receive
  <2> DEFINE x == Head(outChan)
  <2>1. /\ x \in Job /\ ToSet(outChan) = {x} \cup ToSet(outChan')
        /\ IsInjective(outChan') /\ x \notin ToSet(outChan')
    BY <1>0, <1>13, TakeHead DEF Receive, TypeOK, NoTwins
  <2>2. InForwarder = {} /\ InForwarder' = {x}
    BY <1>13, <2>1 DEF Receive, InForwarder, Job, NoJob
  <2> HIDE DEF x
  <2>3. /\ {x} \subseteq F["outChan"]
        /\ G["outChan"] = F["outChan"] \ {x}
        /\ G["fwd"] = F["fwd"] \cup {x}
    BY <1>2, <1>3, <2>1, <2>2
  <2>4. \A s \in Stage \ {"outChan", "fwd"} : G[s] = F[s]
    BY <1>2, <1>3, <1>5, <1>13 DEF Receive, Stage
  <2>5. Disjoint(G, Stage) /\ Union(G, Stage) = 1..claimed
    BY <1>0, <1>4, <2>3, <2>4, Move
  <2>6. NoTwins'
    BY <1>0, <1>13, <2>1 DEF Receive, NoTwins
  <2> QED
    BY <1>1, <1>13, <2>5, <2>6 DEF Receive
<1>14. CASE Forward
  <2>1. fwd \in Job /\ InForwarder = {fwd} /\ InForwarder' = {}
    BY <1>0, <1>14 DEF Forward, InForwarder, TypeOK
  <2>2. fwd \notin ToSet(chanI)
    BY <1>0, <1>2, <2>1 DEF Disjoint, Stage
  <2>3. ToSet(chanI') = ToSet(chanI) \cup {fwd} /\ IsInjective(chanI')
    BY <1>0, <1>14, <2>1, <2>2, SendLast DEF Forward, TypeOK, NoTwins
  <2>4. /\ {fwd} \subseteq F["fwd"]
        /\ G["fwd"] = F["fwd"] \ {fwd} /\ G["chanI"] = F["chanI"] \cup {fwd}
    BY <1>2, <1>3, <2>1, <2>3
  <2>5. \A s \in Stage \ {"fwd", "chanI"} : G[s] = F[s]
    BY <1>2, <1>3, <1>5, <1>14 DEF Forward, Stage
  <2>6. Disjoint(G, Stage) /\ Union(G, Stage) = 1..claimed
    BY <1>0, <1>4, <2>4, <2>5, Move
  <2>7. NoTwins'
    BY <1>0, <1>14, <2>3 DEF Forward, NoTwins
  <2> QED
    BY <1>1, <1>14, <2>6, <2>7 DEF Forward
<1>15. CASE Collect
  <2> DEFINE x == Head(chanI)
  <2>1. /\ x \in Job /\ ToSet(chanI) = {x} \cup ToSet(chanI')
        /\ IsInjective(chanI') /\ x \notin ToSet(chanI')
    BY <1>0, <1>15, TakeHead DEF Collect, TypeOK, NoTwins
  <2>2. x \notin ToSet(items)
    BY <1>0, <1>2, <2>1 DEF Disjoint, Stage
  <2>3. ToSet(items') = ToSet(items) \cup {x} /\ IsInjective(items')
    BY <1>0, <1>15, <2>1, <2>2, SendLast DEF Collect, TypeOK, NoTwins
  <2> HIDE DEF x
  <2>4. /\ {x} \subseteq F["chanI"]
        /\ G["chanI"] = F["chanI"] \ {x} /\ G["items"] = F["items"] \cup {x}
    BY <1>2, <1>3, <2>1, <2>3
  <2>5. \A s \in Stage \ {"chanI", "items"} : G[s] = F[s]
    BY <1>2, <1>3, <1>5, <1>15 DEF Collect, Stage
  <2>6. Disjoint(G, Stage) /\ Union(G, Stage) = 1..claimed
    BY <1>0, <1>4, <2>4, <2>5, Move
  <2>7. NoTwins'
    BY <1>0, <1>15, <2>1, <2>3 DEF Collect, NoTwins
  <2> QED
    BY <1>1, <1>15, <2>6, <2>7 DEF Collect
<1>16. ASSUME items' = <<>>, UNCHANGED <<claimed, held, inChan, hand, outChan,
                                         fwd, chanI, dropped>>,
              \/ saved' = saved \cup ToSet(items) /\ UNCHANGED lost
              \/ lost' = lost \cup ToSet(items) /\ UNCHANGED saved
       PROVE  OnePlace'
  <2>1. ToSet(items') = {} /\ IsInjective(items')
    BY <1>16, EmptyQueue
  <2> DEFINE X == F["items"]
  <2>2. X \subseteq F["items"] /\ G["items"] = F["items"] \ X
    BY <1>3, <2>1
  <2>3. CASE saved' = saved \cup ToSet(items) /\ UNCHANGED lost
    <3>1. G["saved"] = F["saved"] \cup X
      BY <1>2, <1>3, <2>3
    <3>2. \A s \in Stage \ {"items", "saved"} : G[s] = F[s]
      BY <1>2, <1>3, <1>5, <1>16, <2>3 DEF Stage
    <3> HIDE DEF X
    <3>3. Disjoint(G, Stage) /\ Union(G, Stage) = 1..claimed
      BY <1>0, <1>4, <2>2, <3>1, <3>2, Move
    <3>4. NoTwins'
      BY <1>0, <1>16, <2>1 DEF NoTwins
    <3> QED
      BY <1>1, <1>16, <3>3, <3>4
  <2>4. CASE lost' = lost \cup ToSet(items) /\ UNCHANGED saved
    <3>1. G["lost"] = F["lost"] \cup X
      BY <1>2, <1>3, <2>4
    <3>2. \A s \in Stage \ {"items", "lost"} : G[s] = F[s]
      BY <1>2, <1>3, <1>5, <1>16, <2>4 DEF Stage
    <3> HIDE DEF X
    <3>3. Disjoint(G, Stage) /\ Union(G, Stage) = 1..claimed
      BY <1>0, <1>4, <2>2, <3>1, <3>2, Move
    <3>4. NoTwins'
      BY <1>0, <1>16, <2>1 DEF NoTwins
    <3> QED
      BY <1>1, <1>16, <3>3, <3>4
  <2> QED
    BY <1>16, <2>3, <2>4
<1>17. CASE Save
  BY <1>16, <1>17 DEF Save
<1>18. ASSUME NEW committed \in BOOLEAN, SaveFails(committed) PROVE OnePlace'
  BY <1>16, <1>18 DEF SaveFails
<1>19. CASE End
  <2> DEFINE J == {"held", "inChan", "hand", "outChan", "fwd", "chanI", "items"}
  <2>1. J \subseteq Stage /\ "lost" \in Stage /\ "lost" \notin J
    BY DEF Stage
  <2>2. Union(F, J) = InMemory
    BY <1>2 DEF Union, InMemory
  <2>3. InHands' = {} /\ InForwarder' = {}
    BY <1>19 DEF End, InHands, InForwarder, Idle
  <2>4. \A s \in J : G[s] = {}
    BY <1>3, <1>19, <2>3, EmptyQueue DEF End
  <2>5. \A s \in Stage : s \notin J /\ s # "lost" => G[s] = F[s]
    BY <1>2, <1>3, <1>19 DEF End, Stage
  <2> HIDE DEF J
  <2>6. G["lost"] = F["lost"] \cup Union(F, J)
    BY <1>2, <1>3, <1>19, <2>2 DEF End
  <2>7. Disjoint(G, Stage) /\ Union(G, Stage) = 1..claimed
    BY <1>0, <2>1, <2>4, <2>5, <2>6, Gather
  <2>8. NoTwins'
    BY <1>19, EmptyQueue DEF End, NoTwins, Idle
  <2> QED
    BY <1>1, <1>19, <2>7, <2>8 DEF End
<1>20. CASE Start
  <2>1. \A s \in Stage : G[s] = F[s]
    BY <1>2, <1>3, <1>5, <1>20 DEF Start, Stage
  <2>2. Disjoint(G, Stage) /\ Union(G, Stage) = 1..claimed
    BY <1>0, <2>1, Keep
  <2>3. NoTwins'
    BY <1>0, <1>20 DEF Start, NoTwins
  <2> QED
    BY <1>1, <1>20, <2>2, <2>3 DEF Start
<1>21. CASE UNCHANGED vars
  <2>1. \A s \in Stage : G[s] = F[s]
    BY <1>2, <1>3, <1>5, <1>21 DEF vars, Stage
  <2>2. Disjoint(G, Stage) /\ Union(G, Stage) = 1..claimed
    BY <1>0, <2>1, Keep
  <2>3. NoTwins'
    BY <1>0, <1>21 DEF vars, NoTwins
  <2> QED
    BY <1>1, <1>21, <2>2, <2>3 DEF vars
<1> QED
  BY <1>6, <1>7, <1>8, <1>9, <1>10, <1>11, <1>12, <1>13, <1>14, <1>15,
     <1>17, <1>18, <1>19, <1>20, <1>21 DEF Next, Poll, Kill

(* Every claimed job is at exactly one place at every moment: no result is *)
(* written twice and no handover between the goroutines, no failure and no *)
(* restart makes the pipeline forget one.                                  *)
THEOREM OnePlaceAlways == Spec => []OnePlace
<1>1. Init => OnePlace
  <2> SUFFICES ASSUME Init PROVE OnePlace
    OBVIOUS
  <2>1. InHands = {} /\ InForwarder = {}
    BY DEF Init, InHands, InForwarder, Idle
  <2>2. \A s \in Stage : At[s] = {}
    BY <2>1, PlacesHold, EmptyQueue DEF Places, Stage, Init
  <2>3. NoTwins
    BY EmptyQueue DEF Init, NoTwins, Idle
  <2>4. 1..claimed = {}
    BY DEF Init
  <2> QED
    BY <2>2, <2>3, <2>4 DEF OnePlace
<1> QED
  BY <1>1, SoundAlways, OnePlaceStep, PTL DEF Spec
-----------------------------------------------------------------------------
(* OnePlace lets what the workers have taken, and what is in memory, be    *)
(* read off the other stages.                                              *)

LEMMA TakenJobs ==
  ASSUME OnePlace
  PROVE  /\ \A s \in Stage \ {"held", "inChan", "lost"} : \A i \in At[s] :
               i \in (1..claimed) \ (ToSet(held) \cup ToSet(inChan) \cup lost)
         /\ \A i \in (1..claimed) \ (ToSet(held) \cup ToSet(inChan) \cup lost) :
               \E s \in Stage \ {"held", "inChan", "lost"} : i \in At[s]
<1>1. /\ At["held"] = ToSet(held) /\ At["inChan"] = ToSet(inChan)
      /\ At["lost"] = lost
      /\ "held" \in Stage /\ "inChan" \in Stage /\ "lost" \in Stage
  BY PlacesHold DEF Places, Stage
<1>2. \A s, t \in Stage : s # t => At[s] \cap At[t] = {}
  BY DEF OnePlace
<1>3. \A i : i \in 1..claimed <=> \E s \in Stage : i \in At[s]
  BY DEF OnePlace
<1>4. ASSUME NEW s \in Stage \ {"held", "inChan", "lost"}, NEW i \in At[s]
      PROVE  i \in (1..claimed) \ (ToSet(held) \cup ToSet(inChan) \cup lost)
  BY <1>1, <1>2, <1>3, <1>4
<1>5. ASSUME NEW i \in (1..claimed) \ (ToSet(held) \cup ToSet(inChan) \cup lost)
      PROVE  \E s \in Stage \ {"held", "inChan", "lost"} : i \in At[s]
  BY <1>1, <1>3, <1>5
<1> QED
  BY <1>4, <1>5

OpenIsTheRest ==
    /\ Settled \subseteq 1..claimed
    /\ InMemory = (1..claimed) \ Settled

LEMMA OpenJobs == OnePlace => OpenIsTheRest
<1> SUFFICES ASSUME OnePlace PROVE OpenIsTheRest
  OBVIOUS
<1>1. Places
  BY PlacesHold
<1>2. \A s, t \in Stage : s # t => At[s] \cap At[t] = {}
  BY DEF OnePlace
<1>3. \A i : i \in 1..claimed <=> \E s \in Stage : i \in At[s]
  BY DEF OnePlace
<1>4. \A i : i \in Settled <=> \E s \in {"saved", "dropped", "lost"} : i \in At[s]
  BY <1>1 DEF Places, Settled
<1>5. \A i : i \in InMemory <=>
        \E s \in {"held", "inChan", "hand", "outChan", "fwd", "chanI", "items"} :
           i \in At[s]
  BY <1>1 DEF Places, InMemory
<1>6. Stage = {"held", "inChan", "hand", "outChan", "fwd", "chanI", "items"}
                \cup {"saved", "dropped", "lost"}
  BY DEF Stage
<1>7. \A s \in {"held", "inChan", "hand", "outChan", "fwd", "chanI", "items"} :
         \A t \in {"saved", "dropped", "lost"} : s # t
  OBVIOUS
<1>8. ASSUME NEW i \in InMemory PROVE i \in (1..claimed) \ Settled
  BY <1>2, <1>3, <1>4, <1>5, <1>6, <1>7
<1>9. ASSUME NEW i \in (1..claimed) \ Settled PROVE i \in InMemory
  BY <1>3, <1>4, <1>5, <1>6
<1>10. Settled \subseteq 1..claimed
  BY <1>3, <1>4, <1>6
<1> QED
  BY <1>8, <1>9, <1>10 DEF OpenIsTheRest

LEMMA OpenJobsNext == OnePlace' => OpenIsTheRest'
BY OpenJobs, PTL

-----------------------------------------------------------------------------
(* PickedUpInOrder, with what the workers have taken read off the rest.    *)
Taken == (1..claimed) \ (ToSet(held) \cup ToSet(inChan) \cup lost)

Order ==
    /\ \A j \in ToSet(held) \cup ToSet(inChan), i \in Taken : i < j
    /\ \A i \in ToSet(inChan), j \in ToSet(held) : i < j
    /\ Ascends(inChan) /\ Ascends(held)

LEMMA OrderIsPickedUpInOrder ==
  ASSUME OnePlace
  PROVE  Order <=> PickedUpInOrder
<1>1. At["held"] = ToSet(held) /\ At["inChan"] = ToSet(inChan)
  BY PlacesHold DEF Places
<1>2. /\ \A s \in Stage \ {"held", "inChan", "lost"} : \A i \in At[s] : i \in Taken
      /\ \A i \in Taken : \E s \in Stage \ {"held", "inChan", "lost"} : i \in At[s]
  BY TakenJobs DEF Taken
<1> QED
  BY <1>1, <1>2 DEF Order, PickedUpInOrder, Ascends

LEMMA OrderStep == Sound /\ OnePlace /\ Order /\ [Next]_vars => Order'
<1> SUFFICES ASSUME Sound, OnePlace, Order, [Next]_vars PROVE Order'
  OBVIOUS
<1> USE DEF loaderVars, workerVars, saverVars, ledgerVars, processVars
<1>1. /\ claimed \in Nat /\ held \in Seq(Job) /\ inChan \in Seq(Job)
      /\ ToSet(held) \subseteq 1..claimed /\ ToSet(inChan) \subseteq 1..claimed
  <2>1. At["held"] = ToSet(held) /\ At["inChan"] = ToSet(inChan)
    BY PlacesHold DEF Places
  <2>2. "held" \in Stage /\ "inChan" \in Stage
    BY DEF Stage
  <2>3. UNION {At[s] : s \in Stage} = 1..claimed
    BY DEF OnePlace
  <2>4. At["held"] \subseteq 1..claimed /\ At["inChan"] \subseteq 1..claimed
    BY <2>2, <2>3
  <2> QED
    BY <2>1, <2>4, PipelineAssumption DEF Sound, TypeOK
<1>2. ASSUME NEW k \in 1..ClaimChunk, Claim(k) PROVE Order'
  <2>1. k \in Nat /\ claimed + k <= MaxJobs /\ held' = Chunk(claimed, k)
    BY <1>2, PipelineAssumption DEF Claim, Chunk
  <2>2. ToSet(held') = (claimed + 1)..(claimed + k) /\ Ascends(held')
    BY <1>1, <2>1, ChunkIsAQueue
  <2>3. UNCHANGED <<inChan, lost>> /\ claimed' = claimed + k /\ ToSet(held) = {}
    BY <1>2, EmptyQueue DEF Claim
  <2>4. \A i \in Taken' : i \in Taken /\ i <= claimed
    BY <1>1, <2>1, <2>2, <2>3 DEF Taken
  <2>5. \A i \in 1..claimed, j \in ToSet(held') : i < j
    BY <1>1, <2>1, <2>2
  <2>6. \A j \in ToSet(held'), i \in Taken' : i < j
    BY <2>4, <2>5 DEF Taken
  <2>7. \A j \in ToSet(inChan), i \in Taken' : i < j
    BY <2>4 DEF Order
  <2> QED
    BY <1>1, <2>2, <2>3, <2>5, <2>6, <2>7 DEF Order
<1>3. ASSUME NEW k \in 0..ClaimChunk, ClaimFails(k) PROVE Order'
  <2>1. /\ UNCHANGED <<held, inChan>> /\ claimed' = claimed + k /\ k \in Nat
        /\ lost' = lost \cup ((claimed + 1)..(claimed + k))
    BY <1>3, PipelineAssumption DEF ClaimFails, Fresh
  <2>2. Taken' \subseteq Taken
    BY <1>1, <2>1 DEF Taken
  <2> QED
    BY <2>1, <2>2 DEF Order
<1>4. CASE Push
  <2> DEFINE x == Head(held)
  <2>1. /\ x \in Job /\ ToSet(held) = {x} \cup ToSet(held')
        /\ Ascends(held') /\ \A j \in ToSet(held') : x < j
    BY <1>1, <1>4, TakeHead DEF Push, Order
  <2>2. \A y \in ToSet(inChan) : y < x
    BY <2>1 DEF Order
  <2>3. ToSet(inChan') = ToSet(inChan) \cup {x} /\ Ascends(inChan')
    BY <1>1, <1>4, <2>1, <2>2, SendLast DEF Push, Order
  <2> HIDE DEF x
  <2>4. UNCHANGED <<claimed, lost>>
    BY <1>4 DEF Push
  <2>5. Taken' = Taken
    BY <2>1, <2>3, <2>4 DEF Taken
  <2> QED
    BY <2>1, <2>2, <2>3, <2>5 DEF Order
<1>5. ASSUME NEW w \in Worker, Take(w) PROVE Order'
  <2> DEFINE x == Head(inChan)
  <2>1. /\ x \in Job /\ ToSet(inChan) = {x} \cup ToSet(inChan')
        /\ Ascends(inChan') /\ \A j \in ToSet(inChan') : x < j
    BY <1>1, <1>5, TakeHead DEF Take, Order
  <2> HIDE DEF x
  <2>2. UNCHANGED <<held, claimed, lost>>
    BY <1>5 DEF Take
  <2>3. Taken' \subseteq Taken \cup {x}
    BY <2>1, <2>2 DEF Taken
  <2>4. \A j \in ToSet(held) : x < j
    BY <2>1 DEF Order
  <2> QED
    BY <2>1, <2>2, <2>3, <2>4 DEF Order
<1>6. ASSUME UNCHANGED <<claimed, held, inChan>>, lost \subseteq lost'
      PROVE  Order'
  <2>1. Taken' \subseteq Taken
    BY <1>6 DEF Taken
  <2> QED
    BY <1>6, <2>1 DEF Order
<1>7. ASSUME NEW w \in Worker, Probe(w) PROVE Order'
  BY <1>6, <1>7 DEF Probe
<1>8. ASSUME NEW w \in Worker, DropUnreachable(w) PROVE Order'
  BY <1>6, <1>8 DEF DropUnreachable
<1>9. ASSUME NEW w \in Worker, Deliver(w) PROVE Order'
  BY <1>6, <1>9 DEF Deliver
<1>10. CASE Receive
  BY <1>6, <1>10 DEF Receive
<1>11. CASE Forward
  BY <1>6, <1>11 DEF Forward
<1>12. CASE Collect
  BY <1>6, <1>12 DEF Collect
<1>13. CASE Save
  BY <1>6, <1>13 DEF Save
<1>14. ASSUME NEW committed \in BOOLEAN, SaveFails(committed) PROVE Order'
  BY <1>6, <1>14 DEF SaveFails
<1>15. CASE End
  BY <1>15, EmptyQueue DEF End, Order
<1>16. CASE Start
  BY <1>6, <1>16 DEF Start
<1>17. CASE UNCHANGED vars
  BY <1>6, <1>17 DEF vars
<1> QED
  BY <1>2, <1>3, <1>4, <1>5, <1>7, <1>8, <1>9, <1>10, <1>11, <1>12, <1>13,
     <1>14, <1>15, <1>16, <1>17 DEF Next, Poll, Kill

(* Whatever is on its way to the workers was claimed after every job they  *)
(* have taken, whatever the number of workers and however they interleave. *)
THEOREM PickedUpInOrderAlways == Spec => []PickedUpInOrder
<1>1. Init => Order
  BY EmptyQueue DEF Init, Order
<1>2. Spec => []Order
  BY <1>1, SoundAlways, OnePlaceAlways, OrderStep, PTL DEF Spec
<1>3. OnePlace /\ Order => PickedUpInOrder
  BY OrderIsPickedUpInOrder
<1> QED
  BY <1>2, <1>3, OnePlaceAlways, PTL
-----------------------------------------------------------------------------
(* The pipeline implements ProbeService: each step of it is a step of the  *)
(* service or leaves the service where it is.                              *)

(* ProbeService counts as this module does.                                *)
LEMMA SameCount == \A S : Service!Cardinality(S) = Cardinality(S)
BY DEF Cardinality, Service!Cardinality

LEMMA ServiceStep ==
  Sound /\ OnePlace /\ OnePlace' /\ [Next]_vars => [Service!Next]_(Service!vars)
<1> SUFFICES ASSUME Sound, OnePlace, OnePlace', [Next]_vars
             PROVE  [Service!Next]_(Service!vars)
  OBVIOUS
<1> USE DEF loaderVars, workerVars, saverVars, ledgerVars, processVars
<1>1. /\ Settled \subseteq 1..claimed /\ InMemory = (1..claimed) \ Settled
      /\ InMemory' = (1..claimed') \ Settled'
      /\ claimed \in Nat
  BY OpenJobs, OpenJobsNext, PipelineAssumption
  DEF OpenIsTheRest, Sound, TypeOK
<1>2. ASSUME UNCHANGED <<up, errs, claimed, saved, dropped, lost>>
      PROVE  UNCHANGED Service!vars
  BY <1>1, <1>2 DEF Service!vars, Settled
<1>3. ASSUME NEW k \in 1..ClaimChunk, Claim(k) PROVE Service!Next
  <2>1. UNCHANGED <<up, errs, saved, dropped, lost>> /\ claimed' = claimed + k
    BY <1>3 DEF Claim
  <2>2. InMemory' = InMemory \cup Service!Fresh(k)
    BY <1>1, <1>3, <2>1, PipelineAssumption DEF Settled, Service!Fresh
  <2>3. Service!Claim(k)
    BY <2>1, <2>2 DEF Service!Claim
  <2> QED
    BY <2>3 DEF Service!Next
<1>4. ASSUME NEW k \in 0..ClaimChunk, ClaimFails(k) PROVE Service!Next
  <2>1. /\ UNCHANGED <<up, saved, dropped>> /\ claimed' = claimed + k
        /\ lost' = lost \cup {} \cup Service!Fresh(k)
        /\ "loader" \in errs'
    BY <1>4 DEF ClaimFails, Fresh, Service!Fresh
  <2>2. InMemory' = InMemory \ {}
    BY <1>1, <1>4, <2>1, PipelineAssumption DEF Settled, Service!Fresh
  <2>3. (up /\ errs = {})' = FALSE
    BY <2>1
  <2>4. Service!Fail(k, {})
    BY <2>1, <2>2, <2>3 DEF Service!Fail
  <2> QED
    BY <2>4 DEF Service!Next
<1>5. CASE Push
  BY <1>2, <1>5 DEF Push
<1>6. ASSUME NEW w \in Worker, Take(w) PROVE UNCHANGED Service!vars
  BY <1>2, <1>6 DEF Take
<1>7. ASSUME NEW w \in Worker, Probe(w) PROVE UNCHANGED Service!vars
  BY <1>2, <1>7 DEF Probe
<1>8. ASSUME NEW w \in Worker, DropUnreachable(w) PROVE Service!Next
  <2> DEFINE j == hand[w]
  <2>1. /\ UNCHANGED <<up, errs, claimed, saved, lost>>
        /\ dropped' = dropped \cup {j}
    BY <1>8 DEF DropUnreachable
  <2>2. j \in InMemory
    BY <1>8 DEF DropUnreachable, InMemory, InHands
  <2> HIDE DEF j
  <2>3. InMemory' = InMemory \ {j}
    BY <1>1, <2>1 DEF Settled
  <2>4. Service!Drop(j)
    BY <2>1, <2>2, <2>3 DEF Service!Drop
  <2> QED
    BY <2>2, <2>4 DEF Service!Next
<1>9. ASSUME NEW w \in Worker, Deliver(w) PROVE UNCHANGED Service!vars
  BY <1>2, <1>9 DEF Deliver
<1>10. CASE Receive
  BY <1>2, <1>10 DEF Receive
<1>11. CASE Forward
  BY <1>2, <1>11 DEF Forward
<1>12. CASE Collect
  BY <1>2, <1>12 DEF Collect
<1>13. ASSUME Len(items) = SaveChunk
       PROVE  /\ ToSet(items) \subseteq InMemory
              /\ Cardinality(ToSet(items)) = SaveChunk
  BY <1>13, QueueCount DEF InMemory, OnePlace, NoTwins, Sound, TypeOK
<1>14. CASE Save
  <2> DEFINE S == ToSet(items)
  <2>1. /\ UNCHANGED <<up, errs, claimed, dropped, lost>>
        /\ saved' = saved \cup S
    BY <1>14 DEF Save
  <2>2. S \subseteq InMemory /\ Cardinality(S) = SaveChunk
    BY <1>13, <1>14 DEF Save
  <2> HIDE DEF S
  <2>3. InMemory' = InMemory \ S
    BY <1>1, <2>1 DEF Settled
  <2>4. (up /\ errs = {})' \in {up /\ errs = {}, FALSE}
    BY <2>1
  <2>5. Service!Save(S)
    BY <2>1, <2>2, <2>3, <2>4, SameCount DEF Service!Save
  <2> QED
    BY <2>2, <2>5 DEF Service!Next
<1>15. ASSUME NEW committed \in BOOLEAN, SaveFails(committed)
       PROVE  Service!Next
  <2> DEFINE S == ToSet(items)
  <2>1. /\ UNCHANGED <<up, claimed, dropped>> /\ "saver" \in errs'
        /\ \/ saved' = saved \cup S /\ UNCHANGED lost
           \/ lost' = lost \cup S /\ UNCHANGED saved
    BY <1>15 DEF SaveFails
  <2>2. S \subseteq InMemory /\ Cardinality(S) = SaveChunk
    BY <1>13, <1>15 DEF SaveFails
  <2> HIDE DEF S
  <2>3. InMemory' = InMemory \ S
    BY <1>1, <2>1 DEF Settled
  <2>4. (up /\ errs = {})' = FALSE
    BY <2>1
  <2>5. CASE saved' = saved \cup S /\ UNCHANGED lost
    <3>1. (up /\ errs = {})' \in {up /\ errs = {}, FALSE}
      BY <2>4
    <3>2. Service!Save(S)
      BY <2>1, <2>2, <2>3, <2>5, <3>1, SameCount DEF Service!Save
    <3> QED
      BY <2>2, <3>2 DEF Service!Next
  <2>6. CASE lost' = lost \cup S /\ UNCHANGED saved
    <3>1. claimed' = claimed + 0 /\ Service!Fresh(0) = {}
      BY <1>1, <2>1 DEF Service!Fresh
    <3>2. Service!Fail(0, S)
      BY <2>1, <2>2, <2>3, <2>4, <2>6, <3>1 DEF Service!Fail
    <3>3. 0 \in 0..ClaimChunk
      BY PipelineAssumption
    <3> QED
      BY <2>2, <3>2, <3>3 DEF Service!Next
  <2> QED
    BY <2>1, <2>5, <2>6
<1>16. CASE End
  <2>1. /\ up' = FALSE /\ lost' = lost \cup InMemory
        /\ UNCHANGED <<claimed, saved, dropped>>
    BY <1>16 DEF End
  <2>2. InMemory' = InMemory \ InMemory
    BY <1>1, <2>1 DEF Settled
  <2>3. (up /\ errs = {})' = FALSE
    BY <2>1
  <2>4. claimed' = claimed + 0 /\ Service!Fresh(0) = {}
    BY <1>1, <2>1 DEF Service!Fresh
  <2>5. Service!Fail(0, InMemory)
    BY <2>1, <2>2, <2>3, <2>4 DEF Service!Fail
  <2>6. 0 \in 0..ClaimChunk
    BY PipelineAssumption
  <2> QED
    BY <2>5, <2>6 DEF Service!Next
<1>17. CASE Start
  <2>1. /\ ~up /\ up' /\ errs' \in {{}, {"pinger"}}
        /\ UNCHANGED <<claimed, saved, dropped, lost>>
    BY <1>17 DEF Start
  <2>2. InMemory' = InMemory
    BY <1>1, <2>1 DEF Settled
  <2>3. InMemory = {}
    BY <2>1, EmptyQueue
    DEF Sound, AtRest, InMemory, InHands, InForwarder, Idle
  <2>4. CASE errs' = {}
    <3>1. (up /\ errs = {})' = TRUE /\ ~(up /\ errs = {})
      BY <2>1, <2>4
    <3>2. Service!Recover
      BY <2>1, <2>2, <2>3, <3>1 DEF Service!Recover
    <3> QED
      BY <3>2 DEF Service!Next
  <2>5. CASE errs' = {"pinger"}
    <3>1. UNCHANGED (up /\ errs = {})
      BY <2>1, <2>5
    <3> QED
      BY <2>1, <2>2, <3>1 DEF Service!vars
  <2> QED
    BY <2>1, <2>4, <2>5
<1>18. CASE UNCHANGED vars
  BY <1>2, <1>18 DEF vars
<1> QED
  BY <1>3, <1>4, <1>5, <1>6, <1>7, <1>8, <1>9, <1>10, <1>11, <1>12, <1>14,
     <1>15, <1>16, <1>17, <1>18 DEF Next, Poll, Kill

(* The goroutines, the channels and the polling of errors together do what *)
(* ProbeService promises: in particular, as long as no goroutine has       *)
(* failed and the process is not killed, no claimed job is lost.           *)
THEOREM Refinement == Spec => ServiceSpec
<1>1. Init => Service!Init
  <2> SUFFICES ASSUME Init PROVE Service!Init
    OBVIOUS
  <2>1. InMemory = {}
    BY EmptyQueue DEF Init, InMemory, InHands, InForwarder, Idle
  <2> QED
    BY <2>1 DEF Init, Service!Init
<1> QED
  BY <1>1, SoundAlways, OnePlaceAlways, ServiceStep, PTL
  DEF Spec, ServiceSpec, Service!Spec
-----------------------------------------------------------------------------
(* How much a failure can cost.                                            *)

AtMost(S, n) == IsFiniteSet(S) /\ Cardinality(S) <= n /\ n \in Nat

LEMMA AtMostBoth ==
  ASSUME NEW S, NEW T, NEW m, NEW n, AtMost(S, m), AtMost(T, n)
  PROVE  AtMost(S \cup T, m + n)
<1>1. /\ IsFiniteSet(S \cup T)
      /\ Cardinality(S \cup T)
           = Cardinality(S) + Cardinality(T) - Cardinality(S \cap T)
  BY FS_Union DEF AtMost
<1>2. IsFiniteSet(S \cap T)
  BY FS_Subset DEF AtMost
<1>3. /\ Cardinality(S) \in Nat /\ Cardinality(T) \in Nat
      /\ Cardinality(S \cap T) \in Nat
  BY <1>2, FS_CardinalityType DEF AtMost
<1> QED
  BY <1>1, <1>3 DEF AtMost

LEMMA AtMostPart ==
  ASSUME NEW S, NEW T, NEW n, AtMost(S, n), T \subseteq S
  PROVE  AtMost(T, n)
<1>1. IsFiniteSet(T) /\ Cardinality(T) <= Cardinality(S)
  BY FS_Subset DEF AtMost
<1>2. Cardinality(S) \in Nat /\ Cardinality(T) \in Nat
  BY <1>1, FS_CardinalityType DEF AtMost
<1> QED
  BY <1>1, <1>2 DEF AtMost

LEMMA AtMostQueue ==
  ASSUME NEW q \in Seq(Job), NEW n \in Nat, Len(q) <= n
  PROVE  AtMost(ToSet(q), n)
<1>1. /\ IsFiniteSet(ToSet(q)) /\ Cardinality(ToSet(q)) <= Len(q)
      /\ Len(q) \in Nat
  BY QueueCount, LenProperties
<1>2. Cardinality(ToSet(q)) \in Nat
  BY <1>1, FS_CardinalityType
<1> QED
  BY <1>1, <1>2 DEF AtMost

LEMMA AtMostHands == AtMost(InHands, Cardinality(Worker))
<1> DEFINE W == {w \in Worker : hand[w] # NoJob}
           f == [w \in W |-> hand[w]]
<1>1. IsFiniteSet(Worker) /\ Cardinality(Worker) \in Nat
  BY PipelineAssumption, FS_CardinalityType
<1>2. AtMost(W, Cardinality(Worker))
  <2>1. AtMost(Worker, Cardinality(Worker))
    BY <1>1 DEF AtMost
  <2> QED
    BY <2>1, AtMostPart
<1>3. f \in Surjection(W, InHands)
  BY DEF Surjection, InHands
<1> HIDE DEF W, f
<1>4. IsFiniteSet(InHands) /\ Cardinality(InHands) <= Cardinality(W)
  BY <1>2, <1>3, FS_Surjection DEF AtMost
<1>5. Cardinality(InHands) \in Nat /\ Cardinality(W) \in Nat
  BY <1>2, <1>4, FS_CardinalityType DEF AtMost
<1> QED
  BY <1>1, <1>2, <1>4, <1>5 DEF AtMost

LEMMA MemoryIsBounded ==
  ASSUME TypeOK
  PROVE  AtMost(InMemory, MaxLoss)
<1>1. /\ AtMost(ToSet(held), ClaimChunk) /\ AtMost(ToSet(inChan), InCap)
      /\ AtMost(ToSet(outChan), OutCap) /\ AtMost(ToSet(chanI), ChanICap)
      /\ AtMost(ToSet(items), SaveChunk)
  BY AtMostQueue, PipelineAssumption DEF TypeOK
<1>2. AtMost(InForwarder, 1)
  <2>1. AtMost({fwd}, 1)
    BY FS_Singleton DEF AtMost
  <2> QED
    BY <2>1, AtMostPart DEF InForwarder
<1>3. AtMost(ToSet(held) \cup ToSet(inChan), ClaimChunk + InCap)
  BY <1>1, AtMostBoth
<1>4. AtMost(ToSet(held) \cup ToSet(inChan) \cup InHands,
             ClaimChunk + InCap + Cardinality(Worker))
  BY <1>3, AtMostHands, AtMostBoth
<1>5. AtMost(ToSet(held) \cup ToSet(inChan) \cup InHands \cup ToSet(outChan),
             ClaimChunk + InCap + Cardinality(Worker) + OutCap)
  BY <1>1, <1>4, AtMostBoth
<1>6. AtMost(ToSet(held) \cup ToSet(inChan) \cup InHands \cup ToSet(outChan)
               \cup InForwarder,
             ClaimChunk + InCap + Cardinality(Worker) + OutCap + 1)
  BY <1>2, <1>5, AtMostBoth
<1>7. AtMost(ToSet(held) \cup ToSet(inChan) \cup InHands \cup ToSet(outChan)
               \cup InForwarder \cup ToSet(chanI),
             ClaimChunk + InCap + Cardinality(Worker) + OutCap + 1 + ChanICap)
  BY <1>1, <1>6, AtMostBoth
<1> QED
  BY <1>1, <1>7, AtMostBoth DEF InMemory, MaxLoss

LEMMA LossStep ==
  Sound /\ [Next]_vars => Cardinality(lost' \ lost) <= MaxLoss
<1> SUFFICES ASSUME Sound, [Next]_vars
             PROVE  AtMost(lost' \ lost, MaxLoss)
  BY DEF AtMost
<1> USE DEF loaderVars, workerVars, saverVars, ledgerVars, processVars
<1>1. AtMost(InMemory, MaxLoss)
  BY MemoryIsBounded DEF Sound
<1>2. ASSUME lost' \subseteq lost \cup InMemory
      PROVE  AtMost(lost' \ lost, MaxLoss)
  BY <1>1, <1>2, AtMostPart
<1>3. ASSUME NEW k \in 0..ClaimChunk, ClaimFails(k)
      PROVE  AtMost(lost' \ lost, MaxLoss)
  <2>1. lost' \ lost \subseteq Fresh(k)
    BY <1>3 DEF ClaimFails
  <2>2. claimed \in Nat /\ k \in Nat /\ k <= ClaimChunk /\ ClaimChunk \in Nat
    BY PipelineAssumption DEF Sound, TypeOK
  <2>3. IsFiniteSet(Fresh(k)) /\ Cardinality(Fresh(k)) = k
    BY <2>2, FS_Interval DEF Fresh
  <2>4. k <= MaxLoss /\ MaxLoss \in Nat
    BY <2>2, PipelineAssumption, FS_CardinalityType DEF MaxLoss
  <2>5. AtMost(Fresh(k), MaxLoss)
    BY <2>3, <2>4 DEF AtMost
  <2> QED
    BY <2>1, <2>5, AtMostPart
<1>4. ASSUME NEW committed \in BOOLEAN, SaveFails(committed)
      PROVE  lost' \subseteq lost \cup InMemory
  BY <1>4 DEF SaveFails, InMemory
<1>5. CASE End
  BY <1>2, <1>5 DEF End
<1>6. ASSUME NEW k \in 1..ClaimChunk, Claim(k) PROVE UNCHANGED lost
  BY <1>6 DEF Claim
<1>7. ASSUME NEW w \in Worker, DropUnreachable(w) PROVE UNCHANGED lost
  BY <1>7 DEF DropUnreachable
<1>8. ASSUME NEW w \in Worker, Take(w) \/ Probe(w) \/ Deliver(w)
      PROVE  UNCHANGED lost
  BY <1>8 DEF Take, Probe, Deliver
<1>9. ASSUME Push \/ Receive \/ Forward \/ Collect PROVE UNCHANGED lost
  BY <1>9 DEF Push, Receive, Forward, Collect
<1>10. ASSUME Save \/ Start \/ UNCHANGED vars PROVE UNCHANGED lost
  BY <1>10 DEF Save, Start, vars
<1> QED
  BY <1>2, <1>3, <1>4, <1>5, <1>6, <1>7, <1>8, <1>9, <1>10
  DEF Next, Poll, Kill

(* No step loses more claimed jobs than the loader's chunk, the channels,  *)
(* the hands and the collected items can hold together.                    *)
THEOREM LossBounded == Spec => LossIsBounded
<1>1. Sound /\ [Next]_vars => [Cardinality(lost' \ lost) <= MaxLoss]_vars
  BY LossStep
<1> QED
  BY <1>1, SoundAlways, PTL DEF Spec, LossIsBounded
=============================================================================
