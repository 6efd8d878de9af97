---------------------------- MODULE ScrapeProofs ----------------------------
(***************************************************************************)
(* Proofs about Scrape, for any finite sets of requests, collectors and    *)
(* per-peer sites, any programs and any channel capacity.  The inductive   *)
(* invariant is TypeOK /\ BarrierCounts: typing alone is not inductive     *)
(* (that Done never takes a WaitGroup below zero needs the counts), and    *)
(* neither is NoLiveSender (that wg.Wait returns at zero says nothing      *)
(* unless the counter is the number of goroutines not yet done).  What     *)
(* replies hold needs the histories as well: HInv, further below.  That a  *)
(* scrape always comes to its end is argued in two theorems: somebody can  *)
(* always go on (DeadlockFree), and every step takes one from a number     *)
(* that the scrape started with (ScrapesEnd).                              *)
(***************************************************************************)
EXTENDS Scrape, TLAPS, FiniteSetTheorems

IInv == TypeOK /\ BarrierCounts

-----------------------------------------------------------------------------
(* The sets the WaitGroups count.                                          *)

\* Both are finite, and their cardinality is zero just when they are empty.
LEMMA CountedFinite ==
  ASSUME NEW s \in Scrapes, NEW c \in Collectors
  PROVE  /\ IsFiniteSet(Unfinished(s)) /\ IsFiniteSet(LiveKids(s, c))
         /\ Cardinality(Unfinished(s)) \in Nat
         /\ Cardinality(LiveKids(s, c)) \in Nat
         /\ Cardinality(Unfinished(s)) = 0 <=> Unfinished(s) = {}
         /\ Cardinality(LiveKids(s, c)) = 0 <=> LiveKids(s, c) = {}
<1>1. Unfinished(s) \subseteq Collectors /\ LiveKids(s, c) \subseteq Sites
  BY DEF Unfinished, LiveKids
<1>2. IsFiniteSet(Unfinished(s)) /\ IsFiniteSet(LiveKids(s, c))
  BY <1>1, CollectorsAssumption, SitesAssumption, FS_Subset
<1>3. QED
  BY <1>2, FS_CardinalityType, FS_EmptySet

\* The nested functions have their types.
LEMMA NestedTypes ==
  ASSUME TypeOK
  PROVE  /\ pc \in [Scrapes -> [Collectors -> PCs]]
         /\ at \in [Scrapes -> [Collectors -> Nat]]
         /\ fail \in [Scrapes -> [Collectors -> Nat]]
         /\ kwg \in [Scrapes -> [Collectors -> Nat]]
         /\ kid \in [Scrapes -> [Collectors -> [Sites -> KidPCs]]]
BY DEF TypeOK

\* Sending a metric keeps the channels typed and within their capacity.
LEMMA SendType ==
  ASSUME TypeOK, NEW s \in Scrapes, NEW m \in Samples, Send(s, m)
  PROVE  chan' \in [Scrapes -> Seq(Samples)]
         /\ \A r \in Scrapes : Len(chan'[r]) <= Capacity
<1>1. /\ chan \in [Scrapes -> Seq(Samples)]
      /\ \A r \in Scrapes : Len(chan[r]) <= Capacity
      /\ Len(chan[s]) < Capacity
      /\ chan' = [chan EXCEPT ![s] = Append(@, m)]
  BY DEF TypeOK, Send, HasRoom
<1>2. Append(chan[s], m) \in Seq(Samples) /\ Len(Append(chan[s], m)) = Len(chan[s]) + 1
  BY <1>1
<1>3. Len(chan[s]) \in Nat
  BY <1>1
<1>4. QED
  BY <1>1, <1>2, <1>3, CapacityAssumption

-----------------------------------------------------------------------------
(* Typing.                                                                 *)

\* Every initial state is typed and its barriers count nothing.
LEMMA InitIInv == Init => IInv
<1> SUFFICES ASSUME Init PROVE IInv
  OBVIOUS
<1>1. TypeOK
  BY CapacityAssumption DEF Init, TypeOK, Phases, PCs, KidPCs
<1>2. ASSUME NEW s \in Scrapes, NEW c \in Collectors
      PROVE  LiveKids(s, c) = {}
  BY <1>2 DEF Init, LiveKids, KidLive
<1>3. ASSUME NEW s \in Scrapes, NEW c \in Collectors
      PROVE  kwg[s][c] = Cardinality(LiveKids(s, c))
  BY <1>2, <1>3, FS_EmptySet DEF Init
<1>4. BarrierCounts
  BY <1>2, <1>3 DEF Init, BarrierCounts
<1>5. QED
  BY <1>1, <1>4 DEF IInv

-----------------------------------------------------------------------------
(* Every step preserves the invariant, one lemma per process.              *)

\* The conjuncts of BarrierCounts for one collector, and for one scrape.
EarlyPhases == {"idle", "inc", "announce", "add"}
LatePhases  == {"returned", "closed", "served"}

ScrapeCounts(s) ==
  /\ phase[s] \in EarlyPhases =>
       wg[s] = 0 /\ \A c \in Collectors : pc[s][c] = "unborn"
  /\ phase[s] \notin EarlyPhases => wg[s] = Cardinality(Unfinished(s))
  /\ phase[s] \in LatePhases => Unfinished(s) = {}

FanCounts(s, c) ==
  /\ kwg[s][c] = Cardinality(LiveKids(s, c))
  /\ LiveKids(s, c) # {} => AtInstruction(s, c, "fan")

\* BarrierCounts is ScrapeCounts of every scrape and FanCounts of every
\* collector of it.
LEMMA CountsSplit ==
  BarrierCounts => \A s \in Scrapes : /\ ScrapeCounts(s)
                                      /\ \A c \in Collectors : FanCounts(s, c)
BY DEF BarrierCounts, ScrapeCounts, FanCounts, EarlyPhases, LatePhases

\* The converse, in the next state: what each step has to show.
LEMMA CountsJoin ==
  ASSUME \A s \in Scrapes : /\ ScrapeCounts(s)'
                            /\ \A c \in Collectors : FanCounts(s, c)'
  PROVE  BarrierCounts'
BY DEF BarrierCounts, ScrapeCounts, FanCounts, EarlyPhases, LatePhases

\* A step that leaves the goroutines of a scrape where they are leaves the
\* set wg counts alone.
LEMMA UnfinishedFrame ==
  ASSUME NEW s \in Scrapes, pc'[s] = pc[s] PROVE Unfinished(s)' = Unfinished(s)
BY DEF Unfinished

\* The same for the set kwg counts.
LEMMA LiveKidsFrame ==
  ASSUME NEW s \in Scrapes, NEW c \in Collectors, kid'[s][c] = kid[s][c]
  PROVE  LiveKids(s, c)' = LiveKids(s, c)
BY DEF LiveKids

\* What the counts of a scrape depend on.
LEMMA ScrapeCountsFrame ==
  ASSUME NEW s \in Scrapes, ScrapeCounts(s),
         phase'[s] = phase[s], wg'[s] = wg[s], pc'[s] = pc[s]
  PROVE  ScrapeCounts(s)'
BY UnfinishedFrame DEF ScrapeCounts, EarlyPhases, LatePhases

\* What the counts of a collector depend on.
LEMMA FanCountsFrame ==
  ASSUME NEW s \in Scrapes, NEW c \in Collectors, FanCounts(s, c),
         pc'[s][c] = pc[s][c], at'[s][c] = at[s][c],
         kwg'[s][c] = kwg[s][c], kid'[s][c] = kid[s][c]
  PROVE  FanCounts(s, c)'
BY LiveKidsFrame DEF FanCounts, AtInstruction

\* The steps of the registry preserve the invariant: it touches no WaitGroup.
LEMMA RegistryStep ==
  ASSUME IInv, NEW s \in Scrapes, Request(s) \/ Registry(s)
  PROVE  IInv'
<1>1. TypeOK /\ BarrierCounts
  BY DEF IInv
<1>2. \A r \in Scrapes : ScrapeCounts(r) /\ \A c \in Collectors : FanCounts(r, c)
  BY <1>1, CountsSplit
<1>3. CASE Receive(s)
  <2>1. Tail(chan[s]) \in Seq(Samples) /\ Head(chan[s]) \in Samples
        /\ Len(Tail(chan[s])) <= Capacity
    BY <1>1, <1>3, CapacityAssumption DEF Receive, TypeOK
  <2>2. TypeOK'
    BY <1>1, <1>3, <2>1
       DEF TypeOK, Receive, collectVars, updateVars, fanVars
  <2>3. BarrierCounts'
    <3>1. ASSUME NEW r \in Scrapes PROVE ScrapeCounts(r)'
      BY <1>2, <1>3, ScrapeCountsFrame DEF Receive, collectVars
    <3>2. ASSUME NEW r \in Scrapes, NEW c \in Collectors PROVE FanCounts(r, c)'
      BY <1>2, <1>3, FanCountsFrame DEF Receive, updateVars, fanVars
    <3>3. QED
      BY <3>1, <3>2, CountsJoin
  <2>4. QED
    BY <2>2, <2>3 DEF IInv
<1>4. CASE Request(s) \/ CloseChan(s) \/ Respond(s)
  <2>1. IsFiniteSet({r \in Scrapes : phase[r] = "served"})
    BY ScrapesAssumption, FS_Subset
  <2>2. Cardinality({r \in Scrapes : phase[r] = "served"}) \in Nat
    BY <2>1, FS_CardinalityType
  <2>3. TypeOK'
    BY <1>1, <1>4, <2>2
       DEF TypeOK, Request, CloseChan, Respond, Phases,
           registryVars, updateVars, fanVars
  <2>4. ASSUME NEW r \in Scrapes PROVE ScrapeCounts(r)'
    <3>1. Unfinished(r)' = Unfinished(r)
      BY <1>4, UnfinishedFrame DEF Request, CloseChan, Respond
    <3>2. wg' = wg /\ pc' = pc
      BY <1>4 DEF Request, CloseChan, Respond
    <3>3. r # s => phase'[r] = phase[r]
      BY <1>1, <1>4 DEF TypeOK, Request, CloseChan, Respond
    <3>4. \/ phase[s] \in EarlyPhases /\ phase'[s] \in EarlyPhases
          \/ phase[s] \in LatePhases /\ phase'[s] \in LatePhases
      BY <1>1, <1>4
         DEF TypeOK, EarlyPhases, LatePhases, Request, CloseChan, Respond
    <3>5. EarlyPhases \cap LatePhases = {}
      BY DEF EarlyPhases, LatePhases
    <3>6. QED
      BY <1>2, <3>1, <3>2, <3>3, <3>4, <3>5 DEF ScrapeCounts
  <2>5. ASSUME NEW r \in Scrapes, NEW c \in Collectors PROVE FanCounts(r, c)'
    BY <1>2, <1>4, FanCountsFrame
       DEF Request, CloseChan, Respond, updateVars, fanVars
  <2>6. QED
    BY <2>3, <2>4, <2>5, CountsJoin DEF IInv
<1>5. QED
  BY <1>3, <1>4 DEF Registry

\* So do those of Collect: wg.Add makes wg the number of goroutines that are
\* not done, and wg.Wait only returns when there are none.
LEMMA CollectStep ==
  ASSUME IInv, NEW s \in Scrapes, Collect(s)
  PROVE  IInv'
<1>1. TypeOK /\ BarrierCounts
  BY DEF IInv
<1>2. \A r \in Scrapes : ScrapeCounts(r) /\ \A c \in Collectors : FanCounts(r, c)
  BY <1>1, CountsSplit
<1>3. ASSUME NEW r \in Scrapes, NEW c \in Collectors PROVE FanCounts(r, c)'
  BY <1>2, FanCountsFrame
     DEF Collect, Inc, SendTotal, AddAll, WaitAll, updateVars, fanVars
<1>4. SUFFICES /\ TypeOK'
               /\ \A r \in Scrapes : ScrapeCounts(r)'
  BY <1>3, CountsJoin DEF IInv
<1>u. ASSUME NEW r \in Scrapes PROVE Unfinished(r)' = Unfinished(r)
  BY UnfinishedFrame DEF Collect, Inc, SendTotal, AddAll, WaitAll
<1>5. CASE Inc(s)
  <2>1. TypeOK'
    BY <1>1, <1>5
       DEF TypeOK, Inc, Counted, Phases, registryVars, updateVars, fanVars
  <2>2. \A r \in Scrapes : ScrapeCounts(r)'
    BY <1>1, <1>2, <1>u, <1>5
       DEF TypeOK, Inc, ScrapeCounts, EarlyPhases, LatePhases
  <2>3. QED
    BY <2>1, <2>2
<1>6. CASE SendTotal(s)
  <2>1. TotalSample \in Samples
    BY DEF TotalSample, Sample, Samples
  <2>2. /\ chan' \in [Scrapes -> Seq(Samples)]
        /\ \A r \in Scrapes : Len(chan'[r]) <= Capacity
    BY <1>1, <1>6, <2>1, SendType DEF SendTotal
  <2>3. TypeOK'
    BY <1>1, <1>6, <2>2
       DEF TypeOK, SendTotal, Phases, registryVars, updateVars, fanVars
  <2>4. \A r \in Scrapes : ScrapeCounts(r)'
    BY <1>1, <1>2, <1>u, <1>6
       DEF TypeOK, SendTotal, ScrapeCounts, EarlyPhases, LatePhases
  <2>5. QED
    BY <2>3, <2>4
<1>7. CASE AddAll(s)
  <2>1. Cardinality(Collectors) \in Nat
    BY CollectorsAssumption, FS_CardinalityType
  <2>2. TypeOK'
    BY <1>1, <1>7, <2>1
       DEF TypeOK, AddAll, Phases, registryVars, updateVars, fanVars
  <2>3. Unfinished(s)' = Collectors
    BY <1>2, <1>7 DEF AddAll, ScrapeCounts, EarlyPhases, Unfinished
  <2>4. wg'[s] = Cardinality(Unfinished(s)')
    BY <1>1, <1>2, <1>7, <2>1, <2>3 DEF TypeOK, AddAll, ScrapeCounts, EarlyPhases
  <2>5. ASSUME NEW r \in Scrapes PROVE ScrapeCounts(r)'
    <3>1. CASE r = s
      BY <1>1, <1>7, <2>4, <3>1
         DEF TypeOK, AddAll, ScrapeCounts, EarlyPhases, LatePhases
    <3>2. CASE r # s
      BY <1>1, <1>2, <1>7, <3>2, ScrapeCountsFrame DEF TypeOK, AddAll
    <3>3. QED
      BY <3>1, <3>2
  <2>6. QED
    BY <2>2, <2>5
<1>8. CASE WaitAll(s)
  <2>1. TypeOK'
    BY <1>1, <1>8
       DEF TypeOK, WaitAll, Phases, registryVars, updateVars, fanVars
  <2>2. Cardinality(Unfinished(s)) = 0
    BY <1>2, <1>8 DEF WaitAll, WaitReturns, ScrapeCounts, EarlyPhases
  <2>3. Unfinished(s) = {}
    <3>1. Unfinished(s) \subseteq Collectors
      BY DEF Unfinished
    <3>2. QED
      BY <2>2, <3>1, CollectorsAssumption, FS_Subset, FS_EmptySet
  <2>4. ASSUME NEW r \in Scrapes PROVE ScrapeCounts(r)'
    BY <1>1, <1>2, <1>u, <1>8, <2>3
       DEF TypeOK, WaitAll, ScrapeCounts, EarlyPhases, LatePhases
  <2>5. QED
    BY <2>1, <2>4
<1>9. QED
  BY <1>5, <1>6, <1>7, <1>8 DEF Collect

\* A step of runCollector keeps the types; wg.Done finds wg above zero.
LEMMA runCollectorType ==
  ASSUME TypeOK, BarrierCounts, NEW s \in Scrapes, NEW c \in Collectors,
         runCollector(s, c)
  PROVE  TypeOK'
<1>1. CASE Ask(s, c)
  <2>1. CASE Advance(s, c) /\ UNCHANGED pc
    BY <1>1, <2>1
       DEF TypeOK, Ask, Advance, collectVars, registryVars, fanVars
  <2>2. CASE Failed(s, c)
    BY <1>1, <2>2
       DEF TypeOK, Ask, Failed, Goto, PCs, collectVars, registryVars, fanVars
  <2>3. QED
    BY <1>1, <2>1, <2>2 DEF Ask
<1>2. CASE Try(s, c)
  BY <1>2 DEF TypeOK, Try, Advance, collectVars, registryVars, fanVars
<1>3. CASE Emit(s, c)
  <2>1. Sample("data", c, at[s][c]) \in Samples
    BY DEF TypeOK, Sample, Samples
  <2>2. /\ chan' \in [Scrapes -> Seq(Samples)]
        /\ \A r \in Scrapes : Len(chan'[r]) <= Capacity
    BY <1>3, <2>1, SendType DEF Emit
  <2>3. at' \in [Scrapes -> [Collectors -> Nat]]
    BY <1>3 DEF TypeOK, Emit, Advance
  <2>4. QED
    BY <1>3, <2>2, <2>3
       DEF TypeOK, Emit, Advance, collectVars, registryVars, fanVars
<1>4. ASSUME NEW k \in Fanout[c], Fork(s, c, k)
      PROVE  TypeOK'
  <2>1. k \in Sites
    BY FanoutAssumption
  <2>2. CASE kid' = [kid EXCEPT ![s][c][k] = "run"]
               /\ kwg' = [kwg EXCEPT ![s][c] = @ + 1]
    BY <1>4, <2>1, <2>2
       DEF TypeOK, Fork, KidPCs, KidLive, collectVars, registryVars, updateVars
  <2>3. CASE kid' = [kid EXCEPT ![s][c][k] = "none"] /\ kwg' = kwg
    BY <1>4, <2>1, <2>3
       DEF TypeOK, Fork, KidPCs, collectVars, registryVars, updateVars
  <2>4. QED
    BY <1>4, <2>2, <2>3 DEF Fork
<1>5. ASSUME NEW k \in Fanout[c], SendSite(s, c, k)
      PROVE  TypeOK'
  <2>1. k \in Sites
    BY FanoutAssumption
  <2>2. Sample("site", c, k) \in Samples
    BY <2>1 DEF Sample, Samples
  <2>3. /\ chan' \in [Scrapes -> Seq(Samples)]
        /\ \A r \in Scrapes : Len(chan'[r]) <= Capacity
    BY <1>5, <2>2, SendType DEF SendSite
  <2>4. QED
    BY <1>5, <2>1, <2>3 DEF TypeOK, SendSite, collectVars, registryVars, updateVars
<1>6. CASE FanJoin(s, c)
  BY <1>6 DEF TypeOK, FanJoin, Advance, collectVars, registryVars, fanVars
<1>7. CASE Return(s, c)
  BY <1>7 DEF TypeOK, Return, Goto, PCs, collectVars, registryVars, updateVars, fanVars
<1>8. CASE SendDuration(s, c)
  <2>1. Sample("duration", c, 0) \in Samples
    BY DEF Sample, Samples
  <2>2. /\ chan' \in [Scrapes -> Seq(Samples)]
        /\ \A r \in Scrapes : Len(chan'[r]) <= Capacity
    BY <1>8, <2>1, SendType DEF SendDuration
  <2>3. QED
    BY <1>8, <2>2 DEF TypeOK, SendDuration, Goto, PCs,
                      collectVars, registryVars, updateVars, fanVars
<1>9. CASE SendVerdict(s, c)
  <2>1. Sample("up", c, Success(s, c)) \in Samples
    BY DEF Sample, Samples, Success
  <2>2. /\ chan' \in [Scrapes -> Seq(Samples)]
        /\ \A r \in Scrapes : Len(chan'[r]) <= Capacity
    BY <1>9, <2>1, SendType DEF SendVerdict
  <2>3. QED
    BY <1>9, <2>2 DEF TypeOK, SendVerdict, Goto, PCs,
                      collectVars, registryVars, updateVars, fanVars
<1>10. CASE Exit(s, c)
  <2>1. ScrapeCounts(s)
    BY CountsSplit
  <2>2. wg[s] = Cardinality(Unfinished(s)) /\ c \in Unfinished(s)
    BY <1>10, <2>1 DEF Exit, ScrapeCounts, EarlyPhases, Unfinished
  <2>3. wg[s] \in Nat /\ wg[s] # 0
    BY <2>2, CountedFinite
  <2>4. QED
    BY <1>10, <2>3 DEF TypeOK, Exit, Done, Goto, PCs,
                       registryVars, updateVars, fanVars
<1>11. QED
  BY <1>1, <1>2, <1>3, <1>4, <1>5, <1>6, <1>7, <1>8, <1>9, <1>10 DEF runCollector

\* Nor does it disturb the counts.  Only Exit changes what wg counts, and
\* only Fork what kwg counts; every other step either leaves pc and at alone
\* or is not taken while a per-peer goroutine lives.
LEMMA runCollectorScrapeCounts ==
  ASSUME TypeOK, BarrierCounts, NEW s \in Scrapes, NEW c \in Collectors,
         runCollector(s, c), NEW r \in Scrapes
  PROVE  ScrapeCounts(r)'
<1>1. ScrapeCounts(r) /\ ScrapeCounts(s)
  BY CountsSplit
<1>2. CASE Exit(s, c)
  <2>1. CASE r # s
    BY <1>1, <1>2, <2>1, ScrapeCountsFrame DEF TypeOK, Exit, Goto
  <2>2. CASE r = s
    <3>1. /\ phase[s] \notin EarlyPhases /\ phase[s] \notin LatePhases
          /\ wg[s] = Cardinality(Unfinished(s)) /\ c \in Unfinished(s)
      BY <1>1, <1>2 DEF Exit, ScrapeCounts, EarlyPhases, LatePhases, Unfinished
    <3>2. Unfinished(s)' = Unfinished(s) \ {c}
      BY <1>2 DEF TypeOK, Exit, Goto, Unfinished
    <3>3. IsFiniteSet(Unfinished(s))
      BY CountedFinite
    <3>4. Cardinality(Unfinished(s) \ {c}) = Cardinality(Unfinished(s)) - 1
      BY <3>1, <3>3, FS_RemoveElement
    <3>5. wg'[s] = Cardinality(Unfinished(s)')
      BY <1>2, <3>1, <3>2, <3>4 DEF TypeOK, Exit, Done
    <3>6. phase' = phase
      BY <1>2 DEF Exit
    <3>7. QED
      BY <2>2, <3>1, <3>5, <3>6 DEF ScrapeCounts
  <2>3. QED
    BY <2>1, <2>2
<1>3. CASE ~Exit(s, c)
  <2>1. phase' = phase /\ wg' = wg
    BY <1>3 DEF runCollector, Ask, Try, Emit, Fork, SendSite, FanJoin, Return,
                SendDuration, SendVerdict, collectVars
  <2>2. /\ pc[s][c] \notin {"unborn", "done"}
        /\ \/ pc' = pc
           \/ \E l \in PCs \ {"unborn", "done"} : Goto(s, c, l)
    BY <1>3 DEF runCollector, Ask, Try, Emit, Fork, SendSite, FanJoin, Return,
                SendDuration, SendVerdict, AtInstruction, Failed, PCs
  <2>3. Unfinished(r)' = Unfinished(r)
    <3>1. pc[s][c] # "done" /\ pc'[s][c] # "done"
      BY <2>2 DEF TypeOK, Goto
    <3>2. \A q \in Scrapes, d \in Collectors :
            q # s \/ d # c => pc'[q][d] = pc[q][d]
      BY <2>2, NestedTypes DEF Goto
    <3>3. QED
      BY <3>1, <3>2 DEF Unfinished
  <2>4. phase[s] \notin EarlyPhases
    BY <1>1, <2>2 DEF ScrapeCounts
  <2>5. r = s \/ pc'[r] = pc[r]
    BY <2>2 DEF TypeOK, Goto
  <2>6. QED
    BY <1>1, <2>1, <2>3, <2>4, <2>5 DEF ScrapeCounts
<1>4. QED
  BY <1>2, <1>3

\* A fork adds to kwg the goroutine it starts, and Update only leaves the loop
\* when kwg is zero, that is when no goroutine lives.
LEMMA runCollectorFanCounts ==
  ASSUME TypeOK, BarrierCounts, NEW s \in Scrapes, NEW c \in Collectors,
         runCollector(s, c), NEW r \in Scrapes, NEW d \in Collectors
  PROVE  FanCounts(r, d)'
<1>1. FanCounts(r, d) /\ FanCounts(s, c)
  BY CountsSplit
<1>2. /\ IsFiniteSet(LiveKids(s, c))
      /\ Cardinality(LiveKids(s, c)) \in Nat
      /\ Cardinality(LiveKids(s, c)) = 0 <=> LiveKids(s, c) = {}
  BY CountedFinite
<1>3. \A q \in Scrapes, e \in Collectors : q # s \/ e # c =>
        /\ pc'[q][e] = pc[q][e] /\ at'[q][e] = at[q][e]
        /\ kwg'[q][e] = kwg[q][e] /\ kid'[q][e] = kid[q][e]
  <2>1. \/ pc' = pc
        \/ \E l \in PCs : pc' = [pc EXCEPT ![s][c] = l]
    BY DEF runCollector, Ask, Try, Emit, Fork, SendSite, FanJoin,
           Return, SendDuration, SendVerdict, Exit, Goto, Failed, PCs
  <2>2. \/ at' = at
        \/ at' = [at EXCEPT ![s][c] = at[s][c] + 1]
    BY DEF runCollector, Ask, Try, Emit, Fork, SendSite, FanJoin,
           Return, SendDuration, SendVerdict, Exit, Advance, Failed, updateVars
  <2>3. \/ kwg' = kwg
        \/ kwg' = [kwg EXCEPT ![s][c] = kwg[s][c] + 1]
    BY DEF runCollector, Ask, Try, Emit, Fork, SendSite, FanJoin,
           Return, SendDuration, SendVerdict, Exit, fanVars
  <2>k. \/ kid' = kid
        \/ \E k \in Sites, l \in KidPCs : kid' = [kid EXCEPT ![s][c][k] = l]
    BY FanoutAssumption
       DEF runCollector, Ask, Try, Emit, Fork, SendSite, FanJoin,
           Return, SendDuration, SendVerdict, Exit, fanVars, KidPCs, KidLive
  <2>4. QED
    BY <2>1, <2>2, <2>3, <2>k, NestedTypes
<1>4. CASE r # s \/ d # c
  BY <1>1, <1>3, <1>4, FanCountsFrame
<1>5. CASE r = s /\ d = c
  <2> r = s /\ d = c
    BY <1>5
  <2>1. ASSUME NEW k \in Fanout[c], Fork(s, c, k)
        PROVE  FanCounts(s, c)'
    <3>1. k \in Sites /\ k \notin LiveKids(s, c)
      BY <2>1, FanoutAssumption DEF Fork, LiveKids, KidLive
    <3>2. AtInstruction(s, c, "fan") /\ AtInstruction(s, c, "fan")'
      BY <2>1 DEF Fork, AtInstruction, updateVars
    <3>3. CASE kid' = [kid EXCEPT ![s][c][k] = "run"]
                 /\ kwg' = [kwg EXCEPT ![s][c] = @ + 1]
      <4>1. LiveKids(s, c)' = LiveKids(s, c) \cup {k}
        BY <3>1, <3>3 DEF TypeOK, LiveKids, KidLive
      <4>2. Cardinality(LiveKids(s, c) \cup {k}) = Cardinality(LiveKids(s, c)) + 1
        BY <1>2, <3>1, FS_AddElement
      <4>3. kwg'[s][c] = kwg[s][c] + 1
        BY <3>3 DEF TypeOK
      <4>4. QED
        BY <1>1, <3>2, <4>1, <4>2, <4>3 DEF FanCounts
    <3>4. CASE kid' = [kid EXCEPT ![s][c][k] = "none"] /\ kwg' = kwg
      <4>1. LiveKids(s, c)' = LiveKids(s, c)
        BY <3>1, <3>4 DEF TypeOK, LiveKids, KidLive
      <4>2. QED
        BY <1>1, <3>2, <3>4, <4>1 DEF FanCounts
    <3>5. QED
      BY <2>1, <3>3, <3>4 DEF Fork
  <2>2. ASSUME NEW k \in Fanout[c], SendSite(s, c, k)
        PROVE  FanCounts(s, c)'
    BY <1>1, <2>2, FanCountsFrame DEF SendSite, updateVars
  <2>3. CASE /\ ~(\E k \in Fanout[c] : Fork(s, c, k) \/ SendSite(s, c, k))
             /\ ~FanJoin(s, c)
    <3>1. ~AtInstruction(s, c, "fan")
      <4>1. Return(s, c) => ~(at[s][c] \in DOMAIN Program[c])
        BY ProgramAssumption DEF Return
      <4>2. QED
        BY <2>3, <4>1 DEF runCollector, Ask, Try, Emit, Return, SendDuration,
                          SendVerdict, Exit, AtInstruction
    <3>2. kwg' = kwg /\ kid' = kid
      BY <2>3 DEF runCollector, Ask, Try, Emit, Return, SendDuration,
                  SendVerdict, Exit, fanVars
    <3>3. LiveKids(s, c)' = LiveKids(s, c) /\ LiveKids(s, c) = {}
      BY <1>1, <3>1, <3>2, LiveKidsFrame DEF FanCounts
    <3>4. QED
      BY <1>1, <3>2, <3>3 DEF FanCounts
  <2>4. CASE FanJoin(s, c)
    <3>1. LiveKids(s, c) = {}
      BY <1>1, <1>2, <2>4 DEF FanJoin, WaitReturns, FanCounts
    <3>2. LiveKids(s, c)' = LiveKids(s, c) /\ kwg' = kwg
      BY <2>4, LiveKidsFrame DEF FanJoin, fanVars
    <3>3. QED
      BY <1>1, <3>1, <3>2 DEF FanCounts
  <2>5. QED
    BY <2>1, <2>2, <2>3, <2>4
<1>6. QED
  BY <1>4, <1>5

\* A step of a per-peer goroutine preserves the invariant: its wg.Done comes
\* on the failing path too, and finds kwg above zero.
LEMMA KidStep ==
  ASSUME IInv, NEW s \in Scrapes, NEW c \in Collectors, NEW k \in Sites,
         Kid(s, c, k)
  PROVE  IInv'
<1>1. TypeOK /\ BarrierCounts
  BY DEF IInv
<1>2. \A r \in Scrapes : ScrapeCounts(r) /\ \A d \in Collectors : FanCounts(r, d)
  BY <1>1, CountsSplit
<1>3. ASSUME NEW r \in Scrapes PROVE ScrapeCounts(r)'
  BY <1>2, ScrapeCountsFrame DEF Kid, KidAsk, KidSend, KidExit, collectVars
<1>4. pc' = pc /\ at' = at
  BY DEF Kid, KidAsk, KidSend, KidExit, updateVars
<1>5. /\ IsFiniteSet(LiveKids(s, c))
      /\ Cardinality(LiveKids(s, c)) \in Nat
      /\ Cardinality(LiveKids(s, c)) = 0 <=> LiveKids(s, c) = {}
  BY CountedFinite
<1>6. k \in LiveKids(s, c)
  BY DEF Kid, KidAsk, KidSend, KidExit, LiveKids, KidLive
<1>7. \A r \in Scrapes, d \in Collectors : r # s \/ d # c =>
        kwg'[r][d] = kwg[r][d] /\ kid'[r][d] = kid[r][d]
  <2>1. \/ kwg' = kwg
        \/ kwg' = [kwg EXCEPT ![s][c] = Done(kwg[s][c])]
    BY DEF Kid, KidAsk, KidSend, KidExit
  <2>2. \E l \in KidPCs : kid' = [kid EXCEPT ![s][c][k] = l]
    BY DEF Kid, KidAsk, KidSend, KidExit, KidGoto, KidPCs, KidLive
  <2>3. QED
    BY <1>1, <2>1, <2>2, NestedTypes
<1>8. ASSUME NEW r \in Scrapes, NEW d \in Collectors, r # s \/ d # c
      PROVE  FanCounts(r, d)'
  BY <1>2, <1>4, <1>7, <1>8, FanCountsFrame
<1>9. CASE KidAsk(s, c, k) \/ KidSend(s, c, k)
  <2>1. PICK l \in {"send", "fail", "exit"} : KidGoto(s, c, k, l)
    BY <1>9 DEF KidAsk, KidSend
  <2>2. kwg' = kwg
    BY <1>9 DEF KidAsk, KidSend
  <2>3. LiveKids(s, c)' = LiveKids(s, c)
    BY <1>1, <1>6, <2>1 DEF TypeOK, LiveKids, KidLive, KidGoto
  <2>4. FanCounts(s, c)'
    BY <1>2, <1>4, <2>2, <2>3 DEF FanCounts, AtInstruction
  <2>5. kid' \in [Scrapes -> [Collectors -> [Sites -> KidPCs]]]
    BY <1>1, <2>1 DEF TypeOK, KidGoto, KidPCs, KidLive
  <2>6. /\ chan' \in [Scrapes -> Seq(Samples)]
        /\ \A r \in Scrapes : Len(chan'[r]) <= Capacity
    <3>1. Sample("kid", c, k) \in Samples
      BY DEF Sample, Samples
    <3>2. QED
      BY <1>1, <1>9, <3>1, SendType DEF KidAsk, KidSend, TypeOK
  <2>7. TypeOK'
    BY <1>1, <1>9, <2>5, <2>6
       DEF TypeOK, KidAsk, KidSend, collectVars, registryVars, updateVars
  <2>8. BarrierCounts'
    BY <1>3, <1>8, <2>4, CountsJoin
  <2>9. QED
    BY <2>7, <2>8 DEF IInv
<1>10. CASE KidExit(s, c, k)
  <2>1. LiveKids(s, c)' = LiveKids(s, c) \ {k}
    BY <1>1, <1>10 DEF TypeOK, KidExit, KidGoto, LiveKids, KidLive
  <2>2. Cardinality(LiveKids(s, c) \ {k}) = Cardinality(LiveKids(s, c)) - 1
    BY <1>5, <1>6, FS_RemoveElement
  <2>3. kwg[s][c] = Cardinality(LiveKids(s, c)) /\ kwg[s][c] # 0
    BY <1>2, <1>5, <1>6 DEF FanCounts
  <2>4. kwg'[s][c] = kwg[s][c] - 1
    BY <1>1, <1>10 DEF TypeOK, KidExit, Done
  <2>5. FanCounts(s, c)'
    BY <1>2, <1>4, <1>6, <2>1, <2>2, <2>3, <2>4 DEF FanCounts, AtInstruction
  <2>6. kid' \in [Scrapes -> [Collectors -> [Sites -> KidPCs]]]
    BY <1>1, <1>10 DEF TypeOK, KidExit, KidGoto, KidPCs, KidLive
  <2>7. kwg' \in [Scrapes -> [Collectors -> Nat]]
    BY <1>1, <1>5, <1>10, <2>3 DEF TypeOK, KidExit, Done
  <2>8. TypeOK'
    BY <1>1, <1>10, <2>6, <2>7
       DEF TypeOK, KidExit, collectVars, registryVars, updateVars
  <2>9. BarrierCounts'
    BY <1>3, <1>8, <2>5, CountsJoin
  <2>10. QED
    BY <2>8, <2>9 DEF IInv
<1>11. QED
  BY <1>9, <1>10 DEF Kid

-----------------------------------------------------------------------------
(* The invariant, and what follows from it.                                *)

\* Every step preserves the invariant.
LEMMA NextIInv == IInv /\ [Next]_vars => IInv'
<1> SUFFICES ASSUME IInv, [Next]_vars PROVE IInv'
  OBVIOUS
<1>1. TypeOK /\ BarrierCounts
  BY DEF IInv
<1>2. \A r \in Scrapes : ScrapeCounts(r) /\ \A d \in Collectors : FanCounts(r, d)
  BY <1>1, CountsSplit
<1>3. CASE UNCHANGED vars
  <2>1. TypeOK'
    BY <1>1, <1>3 DEF TypeOK, vars, collectVars, registryVars, updateVars, fanVars
  <2>2. ASSUME NEW r \in Scrapes PROVE ScrapeCounts(r)'
    BY <1>2, <1>3, ScrapeCountsFrame DEF vars, collectVars
  <2>3. ASSUME NEW r \in Scrapes, NEW d \in Collectors PROVE FanCounts(r, d)'
    BY <1>2, <1>3, FanCountsFrame DEF vars, updateVars, fanVars
  <2>4. QED
    BY <2>1, <2>2, <2>3, CountsJoin DEF IInv
<1>4. ASSUME NEW s \in Scrapes, Request(s) \/ Registry(s) PROVE IInv'
  BY <1>4, RegistryStep
<1>5. ASSUME NEW s \in Scrapes, Collect(s) PROVE IInv'
  BY <1>5, CollectStep
<1>6. ASSUME NEW s \in Scrapes, NEW c \in Collectors, Spawn(s, c) PROVE IInv'
  <2>1. TypeOK'
    BY <1>1, <1>6 DEF TypeOK, Spawn, Goto, PCs,
                      collectVars, registryVars, updateVars, fanVars
  <2>2. ASSUME NEW r \in Scrapes PROVE Unfinished(r)' = Unfinished(r)
    BY <1>1, <1>6, NestedTypes DEF Spawn, Goto, Unfinished
  <2>3. ASSUME NEW r \in Scrapes PROVE ScrapeCounts(r)'
    <3>1. r = s => phase[r] = "spawn"
      BY <1>6 DEF Spawn
    <3>2. r # s => pc'[r] = pc[r]
      BY <1>1, <1>6, NestedTypes DEF Spawn, Goto
    <3>3. QED
      BY <1>2, <1>6, <2>2, <3>1, <3>2
         DEF ScrapeCounts, EarlyPhases, LatePhases, Spawn, collectVars
  <2>4. ASSUME NEW r \in Scrapes, NEW d \in Collectors PROVE FanCounts(r, d)'
    <3>1. LiveKids(r, d)' = LiveKids(r, d) /\ kwg' = kwg /\ at' = at
      BY <1>6, LiveKidsFrame DEF Spawn, fanVars, updateVars
    <3>2. pc'[r][d] = pc[r][d] \/ pc[r][d] = "unborn"
      BY <1>1, <1>6, NestedTypes DEF Spawn, Goto
    <3>3. QED
      BY <1>2, <3>1, <3>2 DEF FanCounts, AtInstruction
  <2>5. QED
    BY <2>1, <2>3, <2>4, CountsJoin DEF IInv
<1>7. ASSUME NEW s \in Scrapes, NEW c \in Collectors, runCollector(s, c)
      PROVE  IInv'
  <2>1. TypeOK'
    BY <1>1, <1>7, runCollectorType
  <2>2. ASSUME NEW r \in Scrapes PROVE ScrapeCounts(r)'
    BY <1>1, <1>7, runCollectorScrapeCounts
  <2>3. ASSUME NEW r \in Scrapes, NEW d \in Collectors PROVE FanCounts(r, d)'
    BY <1>1, <1>7, runCollectorFanCounts
  <2>4. QED
    BY <2>1, <2>2, <2>3, CountsJoin DEF IInv
<1>8. ASSUME NEW s \in Scrapes, NEW c \in Collectors, NEW k \in Sites,
             Kid(s, c, k)
      PROVE  IInv'
  BY <1>8, KidStep
<1>9. CASE AllServed
  BY <1>3, <1>9 DEF AllServed
<1>10. QED
  BY <1>3, <1>4, <1>5, <1>6, <1>7, <1>8, <1>9 DEF Next

\* The invariant holds in every reachable state.
THEOREM SpecIInv == Spec => []IInv
BY InitIInv, NextIInv, PTL DEF Spec

\* Every reachable state is typed; in particular no WaitGroup ever goes below
\* zero (which would panic) and no channel beyond its capacity.
THEOREM TypeCorrect == Spec => []TypeOK
BY SpecIInv, PTL DEF IInv

\* wg of Collect and wg of processBGPSummary always count exactly the
\* goroutines that have not reached their deferred Done.
THEOREM BarriersCount == Spec => []BarrierCounts
BY SpecIInv, PTL DEF IInv

\* No goroutine of a scrape can send after the registry closed its channel.
THEOREM NoSendAfterClose == Spec => []NoLiveSender
<1>1. IInv => NoLiveSender
  <2> SUFFICES ASSUME IInv, NEW s \in Scrapes, phase[s] \in {"closed", "served"},
                      NEW c \in Collectors
               PROVE  pc[s][c] = "done" /\ LiveKids(s, c) = {}
    BY DEF NoLiveSender
  <2>1. ScrapeCounts(s) /\ FanCounts(s, c)
    BY CountsSplit DEF IInv
  <2>2. pc[s][c] = "done"
    BY <2>1 DEF ScrapeCounts, LatePhases, Unfinished
  <2>3. QED
    BY <2>1, <2>2 DEF FanCounts, AtInstruction
<1>2. QED
  BY <1>1, SpecIInv, PTL

-----------------------------------------------------------------------------
(* The histories: what was sent so far, and in which order.  HInv adds to  *)
(* the invariant above, for each collector, that what it has sent is what  *)
(* its program up to where it is was to send, and for each request what it *)
(* knows of the scrape counter.                                            *)

\* What was sent on the channel of s: it is in the registry, or under way.
Out(s) == got[s] \cup {chan[s][i] : i \in DOMAIN chan[s]}

\* The part of it that comes from runCollector of c and what that started.
From(s, c) == {x \in Out(s) : x.from = c /\ x.kind # "total"}

\* Where Update of c is, and whether it failed.
Course(s, c) ==
  /\ 1 <= at[s][c] /\ at[s][c] <= Len(Program[c]) + 1
  /\ pc[s][c] \in {"unborn", "update"} => fail[s][c] = 0
  /\ fail[s][c] # 0 => fail[s][c] = at[s][c]
  /\ pc[s][c] \notin {"unborn", "update"} /\ fail[s][c] = 0 => at[s][c] = Len(Program[c]) + 1

\* The loop over the peers is over.
Joined(s, c) ==
  /\ sent[s][c] = Fanout[c]
  /\ \A k \in Fanout[c] : kid[s][c][k] \in {"none", "done", "lost"}

\* What Update sent is what the steps up to the one it is at were to send.
Said(s, c) ==
  /\ \A i \in Nat : Sample("data", c, i) \in From(s, c) => i < at[s][c]
  /\ \A i \in DOMAIN Program[c] : i < at[s][c] =>
       /\ Program[c][i] = "emit" => Sample("data", c, i) \in From(s, c)
       /\ Program[c][i] = "fan" => Joined(s, c)

\* What the turns of the loop and the goroutines sent.
Loop(s, c) ==
  \A k \in Sites :
    /\ k \in sent[s][c] => kid[s][c][k] # "unborn" /\ Sample("site", c, k) \in From(s, c)
    /\ kid[s][c][k] \in {"exit", "done"} => Sample("kid", c, k) \in From(s, c)

\* The verdict is sent once, at the end, and says whether Update failed.
Verdict(s, c) ==
  \A m \in {0, 1} : Sample("up", c, m) \in From(s, c) <=>
                      pc[s][c] \in {"exit", "done"} /\ m = Success(s, c)

History(s, c) == Course(s, c) /\ Said(s, c) /\ Loop(s, c) /\ Verdict(s, c)

\* The channel keeps the order, so that nothing of c comes after its verdict.
LastWord(s) ==
  \A c \in Collectors, m \in {0, 1} :
    /\ Sample("up", c, m) \in got[s] => \A i \in DOMAIN chan[s] : chan[s][i].from # c
    /\ \A i, j \in DOMAIN chan[s] : i < j /\ chan[s][i] = Sample("up", c, m) => chan[s][j].from # c

\* The scrapes that the counter counts, and what a scrape knows of it.
Begun == {s \in Scrapes : phase[s] \notin {"idle", "inc"}}
Totals(s) ==
  /\ TotalSample \in Out(s) <=> phase[s] \notin {"idle", "inc", "announce"}
  /\ phase[s] # "idle" => prior[s] <= scrapesTotal
  /\ phase[s] \notin {"idle", "inc"} => prior[s] < scrapesTotal
  /\ TotalSample \in got[s] => prior[s] < total[s] /\ total[s] <= Cardinality(Arrived)
  /\ phase[s] = "served" => chan[s] = <<>>

Histories == \A s \in Scrapes : LastWord(s) /\ \A c \in Collectors : History(s, c)
Counts    == scrapesTotal = Cardinality(Begun) /\ \A s \in Scrapes : Totals(s)
HInv == IInv /\ Histories /\ Counts

-----------------------------------------------------------------------------
(* The channel.                                                            *)

\* What a channel holds are metrics.
LEMMA ChannelType ==
  ASSUME TypeOK, NEW s \in Scrapes
  PROVE  /\ chan[s] \in Seq(Samples) /\ Len(chan[s]) \in Nat
         /\ \A i \in DOMAIN chan[s] : chan[s][i] \in Samples
         /\ got[s] \subseteq Samples /\ Out(s) \subseteq Samples
<1>1. chan[s] \in Seq(Samples) /\ got[s] \subseteq Samples
  BY DEF TypeOK
<1>2. Len(chan[s]) \in Nat /\ \A i \in DOMAIN chan[s] : chan[s][i] \in Samples
  BY <1>1
<1>3. QED
  BY <1>1, <1>2 DEF Out

\* A metric that is sent is appended, and comes to what was sent.
LEMMA SendOut ==
  ASSUME TypeOK, NEW s \in Scrapes, NEW m \in Samples, Send(s, m), UNCHANGED got
  PROVE  /\ DOMAIN chan'[s] = DOMAIN chan[s] \cup {Len(chan[s]) + 1}
         /\ chan'[s][Len(chan[s]) + 1] = m
         /\ \A i \in DOMAIN chan[s] : chan'[s][i] = chan[s][i] /\ i < Len(chan[s]) + 1
         /\ \A r \in Scrapes \ {s} : chan'[r] = chan[r]
         /\ Out(s)' = Out(s) \cup {m}
         /\ \A r \in Scrapes \ {s} : Out(r)' = Out(r)
<1>1. chan' = [chan EXCEPT ![s] = Append(@, m)] /\ chan \in [Scrapes -> Seq(Samples)]
  BY DEF Send, TypeOK
<1>2. PICK q \in Seq(Samples) : q = chan[s]
  BY <1>1
<1>3. /\ DOMAIN Append(q, m) = DOMAIN q \cup {Len(q) + 1}
      /\ Append(q, m)[Len(q) + 1] = m
      /\ \A i \in DOMAIN q : Append(q, m)[i] = q[i] /\ i < Len(q) + 1
  BY <1>2
<1>4. chan'[s] = Append(q, m) /\ \A r \in Scrapes \ {s} : chan'[r] = chan[r]
  BY <1>1, <1>2
<1>5. Out(s)' = Out(s) \cup {m}
  BY <1>2, <1>3, <1>4 DEF Out
<1>6. \A r \in Scrapes \ {s} : Out(r)' = Out(r)
  BY <1>4 DEF Out
<1>7. QED
  BY <1>2, <1>3, <1>4, <1>5, <1>6

\* What the registry takes was sent already.
LEMMA ReceiveOut ==
  ASSUME TypeOK, NEW s \in Scrapes, Receive(s)
  PROVE  /\ got'[s] = got[s] \cup {chan[s][1]} /\ 1 \in DOMAIN chan[s]
         /\ \A i \in DOMAIN chan'[s] : chan'[s][i] = chan[s][i + 1] /\ i + 1 \in DOMAIN chan[s]
         /\ \A i \in DOMAIN chan'[s] : 1 < i + 1
         /\ \A r \in Scrapes \ {s} : chan'[r] = chan[r] /\ got'[r] = got[r]
         /\ \A r \in Scrapes : Out(r)' = Out(r)
<1>1. /\ chan' = [chan EXCEPT ![s] = Tail(@)] /\ chan \in [Scrapes -> Seq(Samples)]
      /\ got' = [got EXCEPT ![s] = @ \cup {Head(chan[s])}] /\ got \in [Scrapes -> SUBSET Samples]
      /\ chan[s] # <<>>
  BY DEF Receive, TypeOK
<1>2. PICK q \in Seq(Samples) : q = chan[s]
  BY <1>1
<1>3. /\ Head(q) = q[1] /\ 1 \in DOMAIN q
      /\ \A i \in DOMAIN Tail(q) : Tail(q)[i] = q[i + 1] /\ i + 1 \in DOMAIN q /\ 1 < i + 1
      /\ \A i \in DOMAIN q : i = 1 \/ (i - 1 \in DOMAIN Tail(q) /\ Tail(q)[i - 1] = q[i])
  BY <1>1, <1>2
<1>4. /\ chan'[s] = Tail(q) /\ \A r \in Scrapes \ {s} : chan'[r] = chan[r]
      /\ got'[s] = got[s] \cup {q[1]} /\ \A r \in Scrapes \ {s} : got'[r] = got[r]
  BY <1>1, <1>2, <1>3
<1>5. Out(s)' = Out(s)
  <2>1. ASSUME NEW x \in Out(s)' PROVE x \in Out(s)
    BY <1>2, <1>3, <1>4 DEF Out
  <2>2. ASSUME NEW x \in Out(s) PROVE x \in Out(s)'
    <3>1. CASE x \in got[s]
      BY <1>4, <3>1 DEF Out
    <3>2. CASE x \notin got[s]
      <4>1. PICK i \in DOMAIN q : x = q[i]
        BY <1>2, <3>2 DEF Out
      <4>2. CASE i = 1
        BY <1>4, <4>1, <4>2 DEF Out
      <4>3. CASE i # 1
        BY <1>3, <1>4, <4>1, <4>3 DEF Out
      <4>4. QED
        BY <4>2, <4>3
    <3>3. QED
      BY <3>1, <3>2
  <2>3. QED
    BY <2>1, <2>2
<1>6. \A r \in Scrapes \ {s} : Out(r)' = Out(r)
  BY <1>4 DEF Out
<1>7. QED
  BY <1>2, <1>3, <1>4, <1>5, <1>6

\* Sending keeps the order if the sender's verdict was not sent yet.
LEMMA SendLast ==
  ASSUME TypeOK, NEW s \in Scrapes, NEW m \in Samples, Send(s, m), UNCHANGED got,
         \A r \in Scrapes : LastWord(r),
         m.from \in Collectors => \A x \in {0, 1} : Sample("up", m.from, x) \notin Out(s)
  PROVE  \A r \in Scrapes : LastWord(r)'
<1>1. ASSUME NEW r \in Scrapes \ {s} PROVE LastWord(r)'
  <2>1. chan'[r] = chan[r] /\ got'[r] = got[r]
    BY SendOut
  <2>2. QED
    BY <2>1 DEF LastWord
<1>2. LastWord(s)'
  <2> SUFFICES ASSUME NEW c \in Collectors, NEW x \in {0, 1}
               PROVE  /\ Sample("up", c, x) \in got'[s] =>
                           \A i \in DOMAIN chan'[s] : chan'[s][i].from # c
                      /\ \A i, j \in DOMAIN chan'[s] : i < j /\ chan'[s][i] = Sample("up", c, x) =>
                           chan'[s][j].from # c
    BY DEF LastWord, Sample
  <2>1. /\ DOMAIN chan'[s] = DOMAIN chan[s] \cup {Len(chan[s]) + 1}
        /\ chan'[s][Len(chan[s]) + 1] = m
        /\ \A i \in DOMAIN chan[s] : chan'[s][i] = chan[s][i] /\ i < Len(chan[s]) + 1
        /\ Len(chan[s]) \in Nat /\ DOMAIN chan[s] \subseteq Nat /\ got'[s] = got[s]
    BY SendOut, ChannelType
  <2>2. Sample("up", c, x) \in Out(s) => m.from # c
    OBVIOUS
  <2>3. Sample("up", c, x) \in got[s] => m.from # c
    BY <2>2 DEF Out
  <2>4. \A i \in DOMAIN chan[s] : chan[s][i] = Sample("up", c, x) => m.from # c
    BY <2>2 DEF Out
  <2>5. /\ Sample("up", c, x) \in got[s] => \A i \in DOMAIN chan[s] : chan[s][i].from # c
        /\ \A i, j \in DOMAIN chan[s] : i < j /\ chan[s][i] = Sample("up", c, x) => chan[s][j].from # c
    BY DEF LastWord
  <2>6. Sample("up", c, x) \in got'[s] => \A i \in DOMAIN chan'[s] : chan'[s][i].from # c
    BY <2>1, <2>3, <2>5
  <2>7. ASSUME NEW i \in DOMAIN chan'[s], NEW j \in DOMAIN chan'[s], i < j,
               chan'[s][i] = Sample("up", c, x)
        PROVE  chan'[s][j].from # c
    <3>1. i \in DOMAIN chan[s] /\ chan[s][i] = Sample("up", c, x)
      BY <2>1, <2>7
    <3>2. CASE j \in DOMAIN chan[s]
      BY <2>1, <2>5, <2>7, <3>1, <3>2
    <3>3. CASE j = Len(chan[s]) + 1
      BY <2>1, <2>4, <3>1, <3>3
    <3>4. QED
      BY <2>1, <3>2, <3>3
  <2>8. QED
    BY <2>6, <2>7
<1>3. QED
  BY <1>1, <1>2

\* So does receiving: the registry takes from the front.
LEMMA ReceiveLast ==
  ASSUME TypeOK, NEW s \in Scrapes, Receive(s), \A r \in Scrapes : LastWord(r)
  PROVE  \A r \in Scrapes : LastWord(r)'
<1>1. ASSUME NEW r \in Scrapes \ {s} PROVE LastWord(r)'
  <2>1. chan'[r] = chan[r] /\ got'[r] = got[r]
    BY ReceiveOut
  <2>2. QED
    BY <2>1 DEF LastWord
<1>2. LastWord(s)'
  <2> SUFFICES ASSUME NEW c \in Collectors, NEW x \in {0, 1}
               PROVE  /\ Sample("up", c, x) \in got'[s] =>
                           \A i \in DOMAIN chan'[s] : chan'[s][i].from # c
                      /\ \A i, j \in DOMAIN chan'[s] : i < j /\ chan'[s][i] = Sample("up", c, x) =>
                           chan'[s][j].from # c
    BY DEF LastWord, Sample
  <2>1. /\ got'[s] = got[s] \cup {chan[s][1]} /\ 1 \in DOMAIN chan[s]
        /\ \A i \in DOMAIN chan'[s] : chan'[s][i] = chan[s][i + 1] /\ i + 1 \in DOMAIN chan[s]
        /\ \A i \in DOMAIN chan'[s] : 1 < i + 1
    BY ReceiveOut
  <2>2. /\ Sample("up", c, x) \in got[s] => \A i \in DOMAIN chan[s] : chan[s][i].from # c
        /\ \A i, j \in DOMAIN chan[s] : i < j /\ chan[s][i] = Sample("up", c, x) => chan[s][j].from # c
    BY DEF LastWord
  <2>3. Sample("up", c, x) \in got'[s] => \A i \in DOMAIN chan'[s] : chan'[s][i].from # c
    BY <2>1, <2>2
  <2>4. ASSUME NEW i \in DOMAIN chan'[s], NEW j \in DOMAIN chan'[s], i < j,
               chan'[s][i] = Sample("up", c, x)
        PROVE  chan'[s][j].from # c
    <3>1. i \in Nat /\ j \in Nat
      <4>1. Tail(chan[s]) \in Seq(Samples) /\ chan'[s] = Tail(chan[s])
        BY DEF Receive, TypeOK
      <4>2. QED
        BY <4>1
    <3>2. i + 1 < j + 1
      BY <2>4, <3>1
    <3>3. QED
      BY <2>1, <2>2, <2>4, <3>2
  <2>5. QED
    BY <2>3, <2>4
<1>3. QED
  BY <1>1, <1>2


-----------------------------------------------------------------------------
(* What is kept of one collector.                                          *)

\* What a collector is seen to have sent changes by its own metrics only.
LEMMA SendFrom ==
  ASSUME TypeOK, NEW s \in Scrapes, NEW m \in Samples, Send(s, m), UNCHANGED got
  PROVE  /\ \A c \in Collectors : m.from = c /\ m.kind # "total" =>
                                    From(s, c)' = From(s, c) \cup {m}
         /\ \A r \in Scrapes, c \in Collectors :
              r # s \/ m.from # c \/ m.kind = "total" => From(r, c)' = From(r, c)
<1>1. Out(s)' = Out(s) \cup {m} /\ \A r \in Scrapes \ {s} : Out(r)' = Out(r)
  BY SendOut
<1>2. QED
  BY <1>1 DEF From

\* Nothing new on the channel is nothing new from a collector.
LEMMA FromFrame ==
  ASSUME NEW s \in Scrapes, NEW c \in Collectors, Out(s)' = Out(s)
  PROVE  From(s, c)' = From(s, c)
BY DEF From

\* What History depends on.
LEMMA HistoryFrame ==
  ASSUME NEW s \in Scrapes, NEW c \in Collectors, History(s, c),
         pc'[s][c] = pc[s][c], at'[s][c] = at[s][c], fail'[s][c] = fail[s][c],
         kid'[s][c] = kid[s][c], sent'[s][c] = sent[s][c],
         From(s, c)' = From(s, c)
  PROVE  History(s, c)'
<1>1. Course(s, c)' /\ Loop(s, c)'
  BY DEF History, Course, Loop, Sample
<1>2. Said(s, c)'
  BY DEF History, Said, Joined, Sample
<1>3. Verdict(s, c)'
  BY DEF History, Verdict, Success, Sample
<1>4. QED
  BY <1>1, <1>2, <1>3 DEF History

\* Update goes on from the step it is at, having sent what that was to send.
LEMMA AdvanceHistory ==
  ASSUME TypeOK, NEW s \in Scrapes, NEW c \in Collectors, History(s, c),
         NEW i \in Instructions, AtInstruction(s, c, i),
         pc'[s][c] = pc[s][c], at'[s][c] = at[s][c] + 1, fail'[s][c] = fail[s][c],
         kid'[s][c] = kid[s][c], sent'[s][c] = sent[s][c],
         \/ From(s, c)' = From(s, c)
         \/ From(s, c)' = From(s, c) \cup {Sample("data", c, at[s][c])},
         i = "emit" => Sample("data", c, at[s][c]) \in From(s, c)',
         i = "fan" => Joined(s, c)
  PROVE  History(s, c)'
<1>1. /\ pc[s][c] = "update" /\ at[s][c] \in DOMAIN Program[c] /\ Program[c][at[s][c]] = i
      /\ Len(Program[c]) \in Nat /\ DOMAIN Program[c] = 1 .. Len(Program[c])
      /\ at[s][c] \in Nat
  BY ProgramAssumption, NestedTypes DEF AtInstruction
<1>2. Course(s, c)'
  BY <1>1 DEF History, Course
<1>3. Loop(s, c)'
  BY DEF History, Loop, Sample
<1>4. Verdict(s, c)'
  BY DEF History, Verdict, Success, Sample
<1>5. Joined(s, c) => Joined(s, c)'
  BY DEF Joined
<1>6. Said(s, c)'
  <2>1. ASSUME NEW n \in Nat, Sample("data", c, n) \in From(s, c)' PROVE n < at[s][c] + 1
    <3>1. CASE Sample("data", c, n) \in From(s, c)
      BY <1>1, <3>1 DEF History, Said
    <3>2. CASE Sample("data", c, n) = Sample("data", c, at[s][c])
      BY <1>1, <3>2 DEF Sample
    <3>3. QED
      BY <2>1, <3>1, <3>2
  <2>2. ASSUME NEW n \in DOMAIN Program[c], n < at[s][c] + 1
        PROVE  /\ Program[c][n] = "emit" => Sample("data", c, n) \in From(s, c)'
               /\ Program[c][n] = "fan" => Joined(s, c)'
    <3>1. n < at[s][c] \/ n = at[s][c]
      BY <1>1, <2>2
    <3>2. CASE n < at[s][c]
      BY <1>5, <3>2 DEF History, Said
    <3>3. CASE n = at[s][c]
      BY <1>1, <1>5, <3>3
    <3>4. QED
      BY <3>1, <3>2, <3>3
  <2>3. QED
    BY <2>1, <2>2 DEF Said, Sample
<1>7. QED
  BY <1>2, <1>3, <1>4, <1>6 DEF History

\* Update returns, after its last step or from one that fails.
LEMMA ReturnHistory ==
  ASSUME TypeOK, NEW s \in Scrapes, NEW c \in Collectors, History(s, c),
         pc[s][c] = "update", pc'[s][c] = "duration", at'[s][c] = at[s][c],
         \/ fail'[s][c] = at[s][c]
         \/ fail'[s][c] = fail[s][c] /\ at[s][c] = Len(Program[c]) + 1,
         kid'[s][c] = kid[s][c], sent'[s][c] = sent[s][c],
         From(s, c)' = From(s, c)
  PROVE  History(s, c)'
<1>1. at[s][c] \in Nat /\ Len(Program[c]) \in Nat
  BY ProgramAssumption, NestedTypes
<1>2. Course(s, c)'
  BY <1>1 DEF History, Course
<1>3. Loop(s, c)' /\ Said(s, c)'
  BY DEF History, Loop, Said, Joined, Sample
<1>4. Verdict(s, c)'
  BY DEF History, Verdict, Sample
<1>5. QED
  BY <1>2, <1>3, <1>4 DEF History

\* runCollector goes on after Update; a metric that is no verdict may be sent.
LEMMA EndHistory ==
  ASSUME TypeOK, NEW s \in Scrapes, NEW c \in Collectors, History(s, c),
         at'[s][c] = at[s][c], fail'[s][c] = fail[s][c],
         kid'[s][c] = kid[s][c], sent'[s][c] = sent[s][c],
         \/ /\ pc[s][c] = "duration" /\ pc'[s][c] = "verdict"
            /\ From(s, c)' = From(s, c) \cup {Sample("duration", c, 0)}
         \/ /\ pc[s][c] = "verdict" /\ pc'[s][c] = "exit"
            /\ From(s, c)' = From(s, c) \cup {Sample("up", c, Success(s, c))}
         \/ /\ pc[s][c] = "exit" /\ pc'[s][c] = "done"
            /\ From(s, c)' = From(s, c)
         \/ /\ pc[s][c] = "unborn" /\ pc'[s][c] = "update"
            /\ From(s, c)' = From(s, c)
  PROVE  History(s, c)'
<1>1. Course(s, c)'
  BY DEF History, Course
<1>2. Loop(s, c)' /\ Said(s, c)'
  BY DEF History, Loop, Said, Joined, Sample
<1>3. Verdict(s, c)'
  BY DEF History, Verdict, Success, Sample
<1>4. QED
  BY <1>1, <1>2, <1>3 DEF History

\* A turn of the loop starts a goroutine or not, or sends its metrics.
LEMMA LoopHistory ==
  ASSUME TypeOK, NEW s \in Scrapes, NEW c \in Collectors, History(s, c), NEW k \in Fanout[c],
         pc'[s][c] = pc[s][c], at'[s][c] = at[s][c], fail'[s][c] = fail[s][c],
         \/ /\ kid[s][c][k] = "unborn" /\ sent'[s][c] = sent[s][c]
            /\ From(s, c)' = From(s, c)
            /\ \E l \in {"run", "none"} : kid'[s][c] = [kid[s][c] EXCEPT ![k] = l]
         \/ /\ kid[s][c][k] # "unborn" /\ kid'[s][c] = kid[s][c]
            /\ k \notin sent[s][c] /\ sent'[s][c] = sent[s][c] \cup {k}
            /\ From(s, c)' = From(s, c) \cup {Sample("site", c, k)}
  PROVE  History(s, c)'
<1>1. k \in Sites /\ kid[s][c] \in [Sites -> KidPCs]
  BY FanoutAssumption, NestedTypes
<1>2. ~Joined(s, c)
  BY DEF Joined
<1>3. Course(s, c)'
  BY DEF History, Course
<1>4. Said(s, c)'
  BY <1>2 DEF History, Said, Sample
<1>5. Verdict(s, c)'
  BY DEF History, Verdict, Success, Sample
<1>6. Loop(s, c)'
  <2>1. CASE kid'[s][c] = kid[s][c]
    BY <1>1, <2>1 DEF History, Loop, Sample
  <2>2. CASE kid'[s][c] # kid[s][c]
    <3>1. /\ kid[s][c][k] = "unborn" /\ sent'[s][c] = sent[s][c] /\ From(s, c)' = From(s, c)
          /\ kid'[s][c][k] \in {"run", "none"}
          /\ \A j \in Sites \ {k} : kid'[s][c][j] = kid[s][c][j]
      BY <1>1, <2>2
    <3>2. k \notin sent[s][c]
      BY <1>1, <3>1 DEF History, Loop
    <3>3. QED
      BY <1>1, <3>1, <3>2 DEF History, Loop, Sample
  <2>3. QED
    BY <2>1, <2>2
<1>7. QED
  BY <1>3, <1>4, <1>5, <1>6 DEF History

\* So does a goroutine that it started: it has sent when it comes to its end
\* without having failed.
LEMMA KidHistory ==
  ASSUME TypeOK, NEW s \in Scrapes, NEW c \in Collectors, History(s, c), NEW k \in Sites,
         pc'[s][c] = pc[s][c], at'[s][c] = at[s][c], fail'[s][c] = fail[s][c],
         sent'[s][c] = sent[s][c], NEW l \in KidPCs,
         kid'[s][c] = [kid[s][c] EXCEPT ![k] = l],
         \/ kid[s][c][k] = "run" /\ l \in {"send", "fail"} /\ From(s, c)' = From(s, c)
         \/ /\ kid[s][c][k] = "send" /\ l = "exit"
            /\ From(s, c)' = From(s, c) \cup {Sample("kid", c, k)}
         \/ kid[s][c][k] = "exit" /\ l = "done" /\ From(s, c)' = From(s, c)
         \/ kid[s][c][k] = "fail" /\ l = "lost" /\ From(s, c)' = From(s, c)
  PROVE  History(s, c)'
<1>1. /\ kid'[s][c][k] = l
      /\ \A j \in Sites \ {k} : kid'[s][c][j] = kid[s][c][j]
  BY NestedTypes
<1>2. Joined(s, c) => Joined(s, c)'
  <2> SUFFICES ASSUME Joined(s, c) PROVE Joined(s, c)'
    OBVIOUS
  <2>1. k \notin Fanout[c]
    BY DEF Joined
  <2>2. Fanout[c] \subseteq Sites
    BY FanoutAssumption
  <2>3. QED
    BY <1>1, <2>1, <2>2 DEF Joined
<1>3. Course(s, c)'
  BY DEF History, Course
<1>4. Said(s, c)'
  BY <1>2 DEF History, Said, Sample
<1>5. Verdict(s, c)'
  BY DEF History, Verdict, Success, Sample
<1>6. Loop(s, c)'
  <2>1. \A j \in Sites \ {k} :
          /\ j \in sent'[s][c] => kid'[s][c][j] # "unborn" /\ Sample("site", c, j) \in From(s, c)'
          /\ kid'[s][c][j] \in {"exit", "done"} => Sample("kid", c, j) \in From(s, c)'
    BY <1>1 DEF History, Loop
  <2>2. /\ k \in sent'[s][c] => kid'[s][c][k] # "unborn" /\ Sample("site", c, k) \in From(s, c)'
        /\ kid'[s][c][k] \in {"exit", "done"} => Sample("kid", c, k) \in From(s, c)'
    BY <1>1 DEF History, Loop
  <2>3. QED
    BY <2>1, <2>2 DEF Loop, Sample
<1>7. QED
  BY <1>3, <1>4, <1>5, <1>6 DEF History

\* Until it comes to it, a collector has sent no verdict.
LEMMA NoVerdictYet ==
  ASSUME NEW s \in Scrapes, NEW c \in Collectors, Verdict(s, c),
         pc[s][c] \notin {"exit", "done"}, NEW x \in {0, 1}
  PROVE  Sample("up", c, x) \notin Out(s)
BY DEF Verdict, From, Sample

-----------------------------------------------------------------------------
(* Every step keeps the histories.                                         *)

\* A step of a collector is none of another one.
LEMMA runCollectorElsewhere ==
  ASSUME TypeOK, NEW s \in Scrapes, NEW c \in Collectors, runCollector(s, c),
         NEW r \in Scrapes, NEW d \in Collectors, r # s \/ d # c
  PROVE  /\ pc'[r][d] = pc[r][d] /\ at'[r][d] = at[r][d] /\ fail'[r][d] = fail[r][d]
         /\ kid'[r][d] = kid[r][d] /\ sent'[r][d] = sent[r][d]
<1>1. \/ pc' = pc
      \/ \E l \in PCs : pc' = [pc EXCEPT ![s][c] = l]
  BY DEF runCollector, Ask, Try, Emit, Fork, SendSite, FanJoin,
         Return, SendDuration, SendVerdict, Exit, Goto, Failed, PCs
<1>2. \/ at' = at
      \/ at' = [at EXCEPT ![s][c] = at[s][c] + 1]
  BY DEF runCollector, Ask, Try, Emit, Fork, SendSite, FanJoin,
         Return, SendDuration, SendVerdict, Exit, Advance, Failed, updateVars
<1>3. \/ fail' = fail
      \/ fail' = [fail EXCEPT ![s][c] = at[s][c]]
  BY DEF runCollector, Ask, Try, Emit, Fork, SendSite, FanJoin,
         Return, SendDuration, SendVerdict, Exit, Advance, Failed, updateVars
<1>4. \/ kid' = kid
      \/ \E k \in Sites, l \in KidPCs : kid' = [kid EXCEPT ![s][c][k] = l]
  BY FanoutAssumption
     DEF runCollector, Ask, Try, Emit, Fork, SendSite, FanJoin,
         Return, SendDuration, SendVerdict, Exit, fanVars, KidPCs, KidLive
<1>5. \/ sent' = sent
      \/ \E k \in Sites : sent' = [sent EXCEPT ![s][c] = @ \cup {k}]
  BY FanoutAssumption
     DEF runCollector, Ask, Try, Emit, Fork, SendSite, FanJoin,
         Return, SendDuration, SendVerdict, Exit, fanVars
<1>6. sent \in [Scrapes -> [Collectors -> SUBSET Sites]]
  BY DEF TypeOK
<1>7. QED
  BY <1>1, <1>2, <1>3, <1>4, <1>5, <1>6, NestedTypes

\* A step of runCollector that sends nothing.
LEMMA QuietStep ==
  ASSUME TypeOK, Histories, NEW s \in Scrapes, NEW c \in Collectors, runCollector(s, c),
         UNCHANGED <<chan, got>>, From(s, c)' = From(s, c) => History(s, c)'
  PROVE  Histories'
<1>1. \A r \in Scrapes : Out(r)' = Out(r) /\ LastWord(r)'
  BY DEF Out, Histories, LastWord
<1>2. \A r \in Scrapes, d \in Collectors : From(r, d)' = From(r, d)
  BY <1>1, FromFrame
<1>3. ASSUME NEW r \in Scrapes, NEW d \in Collectors, r # s \/ d # c PROVE History(r, d)'
  BY <1>2, <1>3, HistoryFrame, runCollectorElsewhere DEF Histories
<1>4. QED
  BY <1>1, <1>2, <1>3 DEF Histories

\* One that sends m, which is c's own.
LEMMA SendingStep ==
  ASSUME TypeOK, Histories, NEW s \in Scrapes, NEW c \in Collectors, runCollector(s, c),
         NEW m \in Samples, m.from = c, m.kind # "total", Send(s, m), UNCHANGED got,
         pc[s][c] \notin {"exit", "done"},
         From(s, c)' = From(s, c) \cup {m} => History(s, c)'
  PROVE  Histories'
<1>1. \A r \in Scrapes : LastWord(r)'
  BY SendLast, NoVerdictYet DEF Histories, History
<1>2. From(s, c)' = From(s, c) \cup {m}
  BY SendFrom
<1>3. ASSUME NEW r \in Scrapes, NEW d \in Collectors, r # s \/ d # c PROVE History(r, d)'
  <2>1. From(r, d)' = From(r, d)
    BY <1>3, SendFrom
  <2>2. QED
    BY <1>3, <2>1, HistoryFrame, runCollectorElsewhere DEF Histories
<1>4. QED
  BY <1>1, <1>2, <1>3 DEF Histories

\* runCollector keeps the histories.
LEMMA runCollectorHistories ==
  ASSUME IInv, Histories, NEW s \in Scrapes, NEW c \in Collectors, runCollector(s, c)
  PROVE  Histories'
<1>1. TypeOK /\ BarrierCounts /\ History(s, c)
  BY DEF IInv, Histories
<1>2. sent \in [Scrapes -> [Collectors -> SUBSET Sites]]
  BY <1>1 DEF TypeOK
<1> USE DEF collectVars, registryVars, updateVars, fanVars
<1>3. CASE Ask(s, c)
  <2>1. UNCHANGED <<chan, got, kid, sent>> /\ AtInstruction(s, c, "ask")
    BY <1>3 DEF Ask
  <2>2. CASE Advance(s, c) /\ UNCHANGED pc
    <3>1. at'[s][c] = at[s][c] + 1 /\ fail' = fail
      BY <1>1, <2>2, NestedTypes DEF Advance
    <3>2. From(s, c)' = From(s, c) => History(s, c)'
      BY <1>1, <2>1, <2>2, <3>1, AdvanceHistory DEF Instructions
    <3>3. QED
      BY <1>1, <2>1, <3>2, QuietStep
  <2>3. CASE Failed(s, c)
    <3>1. pc[s][c] = "update" /\ pc'[s][c] = "duration" /\ at' = at /\ fail'[s][c] = at[s][c]
      BY <1>1, <2>1, <2>3, NestedTypes DEF Failed, Goto, AtInstruction
    <3>2. From(s, c)' = From(s, c) => History(s, c)'
      BY <1>1, <2>1, <3>1, ReturnHistory
    <3>3. QED
      BY <1>1, <2>1, <3>2, QuietStep
  <2>4. QED
    BY <1>3, <2>2, <2>3 DEF Ask
<1>4. CASE Try(s, c)
  <2>1. UNCHANGED <<chan, got, kid, sent, pc, fail>> /\ AtInstruction(s, c, "try")
        /\ at'[s][c] = at[s][c] + 1
    BY <1>1, <1>4, NestedTypes DEF Try, Advance
  <2>2. From(s, c)' = From(s, c) => History(s, c)'
    BY <1>1, <2>1, AdvanceHistory DEF Instructions
  <2>3. QED
    BY <1>1, <2>1, <2>2, QuietStep
<1>5. CASE Emit(s, c)
  <2> DEFINE m == Sample("data", c, at[s][c])
  <2>1. UNCHANGED <<got, kid, sent, pc, fail>> /\ AtInstruction(s, c, "emit") /\ Send(s, m)
        /\ at'[s][c] = at[s][c] + 1 /\ pc[s][c] = "update"
    BY <1>1, <1>5, NestedTypes DEF Emit, Advance, AtInstruction
  <2>2. m \in Samples /\ m.from = c /\ m.kind # "total"
    BY <1>1, NestedTypes DEF Sample, Samples
  <2>3. From(s, c)' = From(s, c) \cup {m} => History(s, c)'
    BY <1>1, <2>1, AdvanceHistory DEF Instructions
  <2>4. QED
    BY <1>1, <2>1, <2>2, <2>3, SendingStep
<1>6. ASSUME NEW k \in Fanout[c], Fork(s, c, k) PROVE Histories'
  <2>1. UNCHANGED <<chan, got, pc, at, fail, sent>> /\ kid[s][c][k] = "unborn"
    BY <1>6 DEF Fork
  <2>2. \E l \in {"run", "none"} : kid'[s][c] = [kid[s][c] EXCEPT ![k] = l]
    <3>1. PICK l \in {"run", "none"} : kid' = [kid EXCEPT ![s][c][k] = l]
      BY <1>6 DEF Fork
    <3>2. kid'[s][c] = [kid[s][c] EXCEPT ![k] = l]
      BY <1>1, <3>1, NestedTypes
    <3>3. QED
      BY <3>2
  <2>3. From(s, c)' = From(s, c) => History(s, c)'
    BY <1>1, <2>1, <2>2, LoopHistory
  <2>4. QED
    BY <1>1, <2>1, <2>3, QuietStep
<1>7. ASSUME NEW k \in Fanout[c], SendSite(s, c, k) PROVE Histories'
  <2> DEFINE m == Sample("site", c, k)
  <2>1. /\ UNCHANGED <<got, kid, pc, at, fail>> /\ pc[s][c] = "update" /\ Send(s, m)
        /\ kid[s][c][k] # "unborn" /\ k \notin sent[s][c]
        /\ sent'[s][c] = sent[s][c] \cup {k}
    BY <1>2, <1>7 DEF SendSite, AtInstruction
  <2>2. m \in Samples /\ m.from = c /\ m.kind # "total"
    BY FanoutAssumption DEF Sample, Samples
  <2>3. From(s, c)' = From(s, c) \cup {m} => History(s, c)'
    BY <1>1, <2>1, LoopHistory
  <2>4. QED
    BY <1>1, <2>1, <2>2, <2>3, SendingStep
<1>8. CASE FanJoin(s, c)
  <2>1. /\ UNCHANGED <<chan, got, kid, sent, pc, fail>> /\ AtInstruction(s, c, "fan")
        /\ at'[s][c] = at[s][c] + 1 /\ sent[s][c] = Fanout[c]
    BY <1>1, <1>8, NestedTypes DEF FanJoin, Advance
  <2>2. LiveKids(s, c) = {}
    BY <1>1, <1>8, CountsSplit, CountedFinite DEF FanJoin, WaitReturns, FanCounts
  <2>3. Joined(s, c)
    <3>1. ASSUME NEW k \in Fanout[c] PROVE kid[s][c][k] \in {"none", "done", "lost"}
      <4>1. k \in Sites /\ kid[s][c][k] \in KidPCs /\ kid[s][c][k] \notin KidLive
        BY <1>1, <2>2, FanoutAssumption, NestedTypes DEF LiveKids
      <4>2. kid[s][c][k] # "unborn"
        BY <1>1, <2>1, <4>1 DEF History, Loop
      <4>3. QED
        BY <4>1, <4>2 DEF KidPCs
    <3>2. QED
      BY <2>1, <3>1 DEF Joined
  <2>4. From(s, c)' = From(s, c) => History(s, c)'
    BY <1>1, <2>1, <2>3, AdvanceHistory DEF Instructions
  <2>5. QED
    BY <1>1, <2>1, <2>4, QuietStep
<1>9. CASE Return(s, c)
  <2>1. /\ UNCHANGED <<chan, got, kid, sent, at, fail>> /\ pc[s][c] = "update"
        /\ pc'[s][c] = "duration" /\ at[s][c] = Len(Program[c]) + 1
    BY <1>1, <1>9, NestedTypes DEF Return, Goto
  <2>2. From(s, c)' = From(s, c) => History(s, c)'
    BY <1>1, <2>1, ReturnHistory
  <2>3. QED
    BY <1>1, <2>1, <2>2, QuietStep
<1>10. CASE SendDuration(s, c)
  <2> DEFINE m == Sample("duration", c, 0)
  <2>1. /\ UNCHANGED <<got, kid, sent, at, fail>> /\ pc[s][c] = "duration" /\ Send(s, m)
        /\ pc'[s][c] = "verdict"
    BY <1>1, <1>10, NestedTypes DEF SendDuration, Goto
  <2>2. m \in Samples /\ m.from = c /\ m.kind # "total"
    BY DEF Sample, Samples
  <2>3. From(s, c)' = From(s, c) \cup {m} => History(s, c)'
    BY <1>1, <2>1, EndHistory
  <2>4. QED
    BY <1>1, <2>1, <2>2, <2>3, SendingStep
<1>11. CASE SendVerdict(s, c)
  <2> DEFINE m == Sample("up", c, Success(s, c))
  <2>1. /\ UNCHANGED <<got, kid, sent, at, fail>> /\ pc[s][c] = "verdict" /\ Send(s, m)
        /\ pc'[s][c] = "exit"
    BY <1>1, <1>11, NestedTypes DEF SendVerdict, Goto
  <2>2. m \in Samples /\ m.from = c /\ m.kind # "total"
    BY DEF Sample, Samples, Success
  <2>3. From(s, c)' = From(s, c) \cup {m} => History(s, c)'
    BY <1>1, <2>1, EndHistory
  <2>4. QED
    BY <1>1, <2>1, <2>2, <2>3, SendingStep
<1>12. CASE Exit(s, c)
  <2>1. /\ UNCHANGED <<chan, got, kid, sent, at, fail>> /\ pc[s][c] = "exit"
        /\ pc'[s][c] = "done"
    BY <1>1, <1>12, NestedTypes DEF Exit, Goto
  <2>2. From(s, c)' = From(s, c) => History(s, c)'
    BY <1>1, <2>1, EndHistory
  <2>3. QED
    BY <1>1, <2>1, <2>2, QuietStep
<1>13. QED
  BY <1>3, <1>4, <1>5, <1>6, <1>7, <1>8, <1>9, <1>10, <1>11, <1>12 DEF runCollector

\* So does a goroutine that runCollector started, which lives in the loop.
LEMMA KidHistories ==
  ASSUME IInv, Histories, NEW s \in Scrapes, NEW c \in Collectors, NEW k \in Sites,
         Kid(s, c, k)
  PROVE  Histories'
<1>1. TypeOK /\ BarrierCounts /\ History(s, c)
  BY DEF IInv, Histories
<1>2. /\ UNCHANGED <<got, pc, at, fail, sent>>
      /\ kid[s][c][k] \in KidLive
      /\ \E l \in KidPCs : kid' = [kid EXCEPT ![s][c][k] = l]
  BY DEF Kid, KidAsk, KidSend, KidExit, KidGoto, KidLive, KidPCs, registryVars, updateVars
<1>3. PICK l \in KidPCs : kid' = [kid EXCEPT ![s][c][k] = l]
  BY <1>2
<1>4. /\ kid'[s][c] = [kid[s][c] EXCEPT ![k] = l] /\ kid'[s][c][k] = l
      /\ \A r \in Scrapes, d \in Collectors : r # s \/ d # c => kid'[r][d] = kid[r][d]
  <2>1. kid'[s][c] = [kid[s][c] EXCEPT ![k] = l]
    BY <1>1, <1>3, NestedTypes
  <2>2. kid'[s][c][k] = l
    BY <1>1, <2>1, NestedTypes
  <2>3. \A r \in Scrapes, d \in Collectors : r # s \/ d # c => kid'[r][d] = kid[r][d]
    BY <1>1, <1>3, NestedTypes
  <2>4. QED
    BY <2>1, <2>2, <2>3
<1>5. pc[s][c] = "update"
  <2>1. LiveKids(s, c) # {} /\ FanCounts(s, c)
    BY <1>1, <1>2, CountsSplit DEF LiveKids
  <2>2. QED
    BY <2>1 DEF FanCounts, AtInstruction
<1>6. CASE KidSend(s, c, k)
  <2> DEFINE m == Sample("kid", c, k)
  <2>1. Send(s, m) /\ kid[s][c][k] = "send" /\ l = "exit"
    <3>1. Send(s, m) /\ kid[s][c][k] = "send" /\ kid' = [kid EXCEPT ![s][c][k] = "exit"]
      BY <1>6 DEF KidSend, KidGoto
    <3>2. QED
      BY <1>1, <1>4, <3>1, NestedTypes
  <2>2. m \in Samples /\ m.from = c /\ m.kind # "total"
    BY DEF Sample, Samples
  <2>3. \A r \in Scrapes : LastWord(r)'
    BY <1>1, <1>2, <1>5, <2>1, <2>2, SendLast, NoVerdictYet DEF Histories, History
  <2>4. From(s, c)' = From(s, c) \cup {m}
    BY <1>1, <1>2, <2>1, <2>2, SendFrom
  <2>5. History(s, c)'
    BY <1>1, <1>2, <1>4, <2>1, <2>4, KidHistory
  <2>6. ASSUME NEW r \in Scrapes, NEW d \in Collectors, r # s \/ d # c PROVE History(r, d)'
    <3>1. From(r, d)' = From(r, d)
      BY <1>1, <1>2, <2>1, <2>2, <2>6, SendFrom
    <3>2. QED
      BY <1>2, <1>4, <2>6, <3>1, HistoryFrame DEF Histories
  <2>7. QED
    BY <2>3, <2>5, <2>6 DEF Histories
<1>7. CASE KidAsk(s, c, k) \/ KidExit(s, c, k)
  <2>1. UNCHANGED chan
    BY <1>7 DEF KidAsk, KidExit
  <2>2. \A r \in Scrapes : Out(r)' = Out(r) /\ LastWord(r)'
    BY <1>2, <2>1 DEF Out, Histories, LastWord
  <2>3. \A r \in Scrapes, d \in Collectors : From(r, d)' = From(r, d)
    BY <2>2, FromFrame
  <2>4. \/ kid[s][c][k] = "run" /\ l \in {"send", "fail"}
        \/ kid[s][c][k] = "exit" /\ l = "done"
        \/ kid[s][c][k] = "fail" /\ l = "lost"
    <3>1. \/ kid[s][c][k] = "run" /\ \E x \in {"send", "fail"} : kid' = [kid EXCEPT ![s][c][k] = x]
          \/ kid[s][c][k] = "exit" /\ kid' = [kid EXCEPT ![s][c][k] = "done"]
          \/ kid[s][c][k] = "fail" /\ kid' = [kid EXCEPT ![s][c][k] = "lost"]
      BY <1>7 DEF KidAsk, KidExit, KidGoto
    <3>2. QED
      BY <1>1, <1>4, <3>1, NestedTypes
  <2>5. History(s, c)'
    BY <1>1, <1>2, <1>4, <2>3, <2>4, KidHistory
  <2>6. ASSUME NEW r \in Scrapes, NEW d \in Collectors, r # s \/ d # c PROVE History(r, d)'
    BY <1>2, <1>4, <2>3, <2>6, HistoryFrame DEF Histories
  <2>7. QED
    BY <2>2, <2>5, <2>6 DEF Histories
<1>8. QED
  BY <1>6, <1>7 DEF Kid

\* Of the other steps only two touch a channel: the registry takes from it,
\* and Collect sends its counter before there is any collector.
LEMMA OtherHistories ==
  ASSUME IInv, Histories, NEW s \in Scrapes,
         \/ Request(s) \/ Registry(s) \/ Collect(s)
         \/ \E c \in Collectors : Spawn(s, c)
  PROVE  Histories'
<1>1. TypeOK /\ BarrierCounts
  BY DEF IInv
<1> USE DEF registryVars, updateVars, fanVars
<1>2. UNCHANGED <<at, fail, kid, sent>>
  BY DEF Request, Registry, Receive, CloseChan, Respond, Collect, Inc, SendTotal, AddAll,
         WaitAll, Spawn
<1>3. ASSUME \A r \in Scrapes, d \in Collectors : From(r, d)' = From(r, d), UNCHANGED pc
      PROVE  \A r \in Scrapes, d \in Collectors : History(r, d)'
  BY <1>2, <1>3, HistoryFrame DEF Histories
<1>4. CASE Receive(s)
  <2>1. \A r \in Scrapes, d \in Collectors : From(r, d)' = From(r, d)
    BY <1>1, <1>4, ReceiveOut, FromFrame
  <2>2. UNCHANGED pc
    BY <1>4 DEF Receive
  <2>3. QED
    BY <1>1, <1>3, <1>4, <2>1, <2>2, ReceiveLast DEF Histories
<1>5. CASE SendTotal(s)
  <2>1. TotalSample \in Samples /\ TotalSample.kind = "total"
    BY DEF TotalSample, Sample, Samples
  <2>2. UNCHANGED <<pc, got>> /\ Send(s, TotalSample)
    BY <1>5 DEF SendTotal
  <2>3. \A c \in Collectors : pc[s][c] = "unborn"
    BY <1>1, <1>5 DEF BarrierCounts, SendTotal
  <2>4. \A c \in Collectors, x \in {0, 1} : Sample("up", c, x) \notin Out(s)
    BY <2>3, NoVerdictYet DEF Histories, History
  <2>5. \A r \in Scrapes : LastWord(r)'
    BY <1>1, <2>1, <2>2, <2>4, SendLast DEF Histories
  <2>6. \A r \in Scrapes, d \in Collectors : From(r, d)' = From(r, d)
    BY <1>1, <2>1, <2>2, SendFrom
  <2>7. QED
    BY <1>3, <2>2, <2>5, <2>6 DEF Histories
<1>6. CASE ~Receive(s) /\ ~SendTotal(s)
  <2>1. UNCHANGED <<chan, got>>
    BY <1>6 DEF Request, Registry, CloseChan, Respond, Collect, Inc, AddAll, WaitAll, Spawn
  <2>2. \A r \in Scrapes : Out(r)' = Out(r) /\ LastWord(r)'
    BY <2>1 DEF Out, Histories, LastWord
  <2>3. \A r \in Scrapes, d \in Collectors : From(r, d)' = From(r, d)
    BY <2>2, FromFrame
  <2>4. CASE UNCHANGED pc
    BY <1>3, <2>2, <2>3, <2>4 DEF Histories
  <2>5. ASSUME NEW c \in Collectors, Spawn(s, c) PROVE Histories'
    <3>1. /\ pc[s][c] = "unborn" /\ pc'[s][c] = "update"
          /\ \A r \in Scrapes, d \in Collectors : r # s \/ d # c => pc'[r][d] = pc[r][d]
      BY <1>1, <2>5, NestedTypes DEF Spawn, Goto
    <3>2. History(s, c)'
      BY <1>1, <1>2, <2>3, <3>1, EndHistory DEF Histories
    <3>3. ASSUME NEW r \in Scrapes, NEW d \in Collectors, r # s \/ d # c PROVE History(r, d)'
      BY <1>2, <2>3, <3>1, <3>3, HistoryFrame DEF Histories
    <3>4. QED
      BY <2>2, <3>2, <3>3 DEF Histories
  <2>6. QED
    BY <1>6, <2>4, <2>5
       DEF Request, Registry, CloseChan, Respond, Collect, Inc, AddAll, WaitAll
<1>7. QED
  BY <1>4, <1>5, <1>6

-----------------------------------------------------------------------------
(* The scrape counter.                                                     *)

\* The sets that are counted.
LEMMA CountedSets ==
  /\ IsFiniteSet(Begun) /\ IsFiniteSet(Arrived)
  /\ Cardinality(Begun) \in Nat /\ Cardinality(Arrived) \in Nat
  /\ Cardinality(Begun) <= Cardinality(Arrived)
<1>1. Begun \subseteq Arrived /\ Arrived \subseteq Scrapes
  BY DEF Begun, Arrived
<1>2. QED
  BY <1>1, ScrapesAssumption, FS_Subset, FS_CardinalityType

\* The steps of collectors and their goroutines do not touch the counter, and
\* what they send on the channel of a scrape that is not over is no total.
LEMMA SenderCounts ==
  ASSUME TypeOK, Counts, NEW s \in Scrapes, UNCHANGED <<phase, scrapesTotal, prior, total, got>>,
         \/ UNCHANGED chan
         \/ /\ phase[s] # "served"
            /\ \E m \in Samples : m.kind # "total" /\ Send(s, m)
  PROVE  Counts'
<1>1. Begun' = Begun /\ Arrived' = Arrived
  BY DEF Begun, Arrived
<1> DEFINE Kept ==
      /\ \A r \in Scrapes : TotalSample \in Out(r)' <=> TotalSample \in Out(r)
      /\ \A r \in Scrapes : r # s \/ phase[s] = "served" => chan'[r] = chan[r]
<1>2. Kept
  <2>1. CASE UNCHANGED chan
    BY <2>1 DEF Out
  <2>2. ASSUME NEW m \in Samples, m.kind # "total", Send(s, m), phase[s] # "served"
        PROVE  Kept
    <3>1. m # TotalSample
      BY <2>2 DEF TotalSample, Sample
    <3>2. QED
      BY <2>2, <3>1, SendOut
  <2>3. QED
    BY <2>1, <2>2
<1>3. ASSUME NEW r \in Scrapes PROVE Totals(r)'
  <2>1. Totals(r)
    BY DEF Counts
  <2>2. phase[r] = "served" => chan'[r] = <<>>
    BY <1>2, <2>1 DEF Totals
  <2>3. /\ TotalSample' = TotalSample
        /\ TotalSample \in Out(r)' <=> phase[r] \notin {"idle", "inc", "announce"}
    BY <1>2, <2>1 DEF Totals, TotalSample, Sample
  <2>4. QED
    BY <1>1, <2>1, <2>2, <2>3 DEF Totals
<1>4. QED
  BY <1>1, <1>3 DEF Counts

\* A collector is between its start and its end when it moves, and then its
\* scrape is not over.
LEMMA NotServed ==
  ASSUME BarrierCounts, NEW s \in Scrapes, NEW c \in Collectors,
         runCollector(s, c) \/ \E k \in Sites : Kid(s, c, k)
  PROVE  phase[s] # "served"
<1>1. pc[s][c] # "done"
  <2>1. CASE runCollector(s, c)
    BY <2>1 DEF runCollector, Ask, Try, Emit, Fork, SendSite, FanJoin, Return,
                SendDuration, SendVerdict, Exit, AtInstruction
  <2>2. ASSUME NEW k \in Sites, Kid(s, c, k) PROVE pc[s][c] # "done"
    <3>1. LiveKids(s, c) # {} /\ FanCounts(s, c)
      BY <2>2, CountsSplit DEF Kid, KidAsk, KidSend, KidExit, LiveKids, KidLive
    <3>2. QED
      BY <3>1 DEF FanCounts, AtInstruction
  <2>3. QED
    BY <2>1, <2>2
<1>2. ScrapeCounts(s)
  BY CountsSplit
<1>3. QED
  BY <1>1, <1>2 DEF ScrapeCounts, LatePhases, Unfinished

\* So they keep the counts.
LEMMA CollectorCounts ==
  ASSUME IInv, Counts, NEW s \in Scrapes, NEW c \in Collectors,
         runCollector(s, c) \/ \E k \in Sites : Kid(s, c, k)
  PROVE  Counts'
<1>1. TypeOK /\ BarrierCounts /\ phase[s] # "served"
  BY NotServed DEF IInv
<1> USE DEF collectVars, registryVars
<1>2. UNCHANGED <<phase, scrapesTotal, prior, total, got>>
  BY DEF runCollector, Ask, Try, Emit, Fork, SendSite, FanJoin, Return, SendDuration,
         SendVerdict, Exit, Kid, KidAsk, KidSend, KidExit
<1>3. UNCHANGED chan \/ \E m \in Samples : m.kind # "total" /\ Send(s, m)
  <2>1. \A k \in Sites \cup Nat, t \in {"data", "site", "kid", "duration", "up"} :
          Sample(t, c, k) \in Samples /\ Sample(t, c, k).kind # "total"
    BY DEF Sample, Samples
  <2>2. CASE Emit(s, c) \/ SendDuration(s, c) \/ SendVerdict(s, c)
    BY <1>1, <2>1, <2>2, NestedTypes DEF Emit, SendDuration, SendVerdict, Success
  <2>3. ASSUME NEW k \in Fanout[c], SendSite(s, c, k)
        PROVE  \E m \in Samples : m.kind # "total" /\ Send(s, m)
    BY <2>1, <2>3, FanoutAssumption DEF SendSite
  <2>4. ASSUME NEW k \in Sites, KidSend(s, c, k)
        PROVE  \E m \in Samples : m.kind # "total" /\ Send(s, m)
    BY <2>1, <2>4 DEF KidSend
  <2>5. QED
    BY <2>2, <2>3, <2>4 DEF runCollector, Ask, Try, Fork, FanJoin, Return, Exit,
                            Kid, KidAsk, KidExit
<1>4. QED
  BY <1>1, <1>2, <1>3, SenderCounts

\* What Totals of a scrape depends on; the counter and the number of arrivals
\* may grow.
LEMMA TotalsFrame ==
  ASSUME TypeOK, NEW r \in Scrapes, Totals(r),
         phase'[r] = phase[r], prior'[r] = prior[r], total'[r] = total[r],
         got'[r] = got[r], chan'[r] = chan[r], scrapesTotal' \in Nat,
         scrapesTotal <= scrapesTotal', Cardinality(Arrived) <= Cardinality(Arrived')
  PROVE  Totals(r)'
<1>1. Out(r)' = Out(r) /\ TotalSample' = TotalSample
  BY DEF Out, TotalSample, Sample
<1>2. /\ prior[r] \in Nat /\ total[r] \in Nat /\ scrapesTotal \in Nat
      /\ Cardinality(Arrived) \in Nat /\ Cardinality(Arrived') \in Nat
  <2>1. IsFiniteSet(Arrived')
    BY ScrapesAssumption, FS_Subset DEF Arrived
  <2>2. QED
    BY <2>1, CountedSets, FS_CardinalityType DEF TypeOK
<1>3. QED
  BY <1>1, <1>2 DEF Totals

\* The registry and Collect keep the counts.
LEMMA ServiceCounts ==
  ASSUME IInv, Counts, NEW s \in Scrapes,
         \/ Request(s) \/ Registry(s) \/ Collect(s)
         \/ \E c \in Collectors : Spawn(s, c)
  PROVE  Counts'
<1>1. /\ TypeOK /\ BarrierCounts /\ Totals(s) /\ scrapesTotal = Cardinality(Begun)
      /\ prior[s] \in Nat /\ total[s] \in Nat /\ scrapesTotal \in Nat
  BY DEF IInv, Counts, TypeOK
<1>2. /\ Cardinality(Begun) \in Nat /\ Cardinality(Arrived) \in Nat
      /\ Cardinality(Begun) <= Cardinality(Arrived) /\ IsFiniteSet(Begun) /\ IsFiniteSet(Arrived)
  BY CountedSets
<1>3. phase \in [Scrapes -> Phases] /\ TotalSample' = TotalSample
  BY <1>1 DEF TypeOK, TotalSample, Sample
<1> USE DEF collectVars, registryVars
<1>4. ASSUME scrapesTotal' \in Nat, scrapesTotal <= scrapesTotal',
             Cardinality(Arrived) <= Cardinality(Arrived')
      PROVE  \A r \in Scrapes \ {s} : Totals(r)'
  <2> SUFFICES ASSUME NEW r \in Scrapes \ {s} PROVE Totals(r)'
    OBVIOUS
  <2>1. /\ phase'[r] = phase[r] /\ prior'[r] = prior[r] /\ total'[r] = total[r]
        /\ got'[r] = got[r] /\ chan'[r] = chan[r]
    BY <1>1 DEF TypeOK, Request, Registry, Receive, CloseChan, Respond, Collect, Inc,
                SendTotal, AddAll, WaitAll, Spawn, Send
  <2>2. QED
    BY <1>1, <1>4, <2>1, TotalsFrame DEF Counts
<1>5. CASE Request(s)
  <2>1. /\ phase[s] = "idle" /\ phase' = [phase EXCEPT ![s] = "inc"]
        /\ UNCHANGED <<scrapesTotal, chan, got, total>>
        /\ prior'[s] = Cardinality({r \in Scrapes : phase[r] = "served"})
    BY <1>1, <1>5 DEF Request, TypeOK
  <2>2. Begun' = Begun /\ Arrived' = Arrived \cup {s}
    BY <1>3, <2>1 DEF Begun, Arrived
  <2>3. Cardinality(Arrived) <= Cardinality(Arrived')
    <3>1. s \notin Arrived
      BY <2>1 DEF Arrived
    <3>2. Cardinality(Arrived \cup {s}) = Cardinality(Arrived) + 1
      BY <1>2, <3>1, FS_AddElement
    <3>3. QED
      BY <1>2, <2>2, <3>2
  <2>4. prior'[s] <= scrapesTotal
    <3>1. {r \in Scrapes : phase[r] = "served"} \subseteq Begun
      BY DEF Begun
    <3>2. QED
      BY <1>1, <1>2, <2>1, <3>1, FS_Subset
  <2>5. Totals(s)'
    BY <1>1, <1>3, <2>1, <2>4 DEF Totals, Out
  <2>6. QED
    BY <1>1, <1>4, <2>1, <2>2, <2>3, <2>5 DEF Counts
<1>6. CASE Receive(s)
  <2>1. /\ UNCHANGED <<phase, scrapesTotal, prior>> /\ phase[s] # "served"
        /\ got'[s] = got[s] \cup {Head(chan[s])}
        /\ Head(chan[s]) = TotalSample => total'[s] = scrapesTotal
        /\ Head(chan[s]) # TotalSample => total'[s] = total[s]
    BY <1>1, <1>6 DEF Receive, Totals, TypeOK
  <2>2. Out(s)' = Out(s) /\ Head(chan[s]) \in Out(s)
    <3>1. chan[s] \in Seq(Samples) /\ chan[s] # <<>>
      BY <1>1, <1>6, ChannelType DEF Receive
    <3>2. Head(chan[s]) = chan[s][1] /\ 1 \in DOMAIN chan[s]
      BY <3>1
    <3>3. QED
      BY <1>1, <1>6, <3>2, ReceiveOut DEF Out
  <2>3. Begun' = Begun /\ Arrived' = Arrived
    BY <2>1 DEF Begun, Arrived
  <2>4. TotalSample \in got'[s] => prior[s] < total'[s] /\ total'[s] <= Cardinality(Arrived)
    <3>1. CASE Head(chan[s]) = TotalSample
      <4>1. prior[s] < scrapesTotal
        BY <1>1, <2>2, <3>1 DEF Totals
      <4>2. QED
        BY <1>1, <1>2, <2>1, <3>1, <4>1
    <3>2. CASE Head(chan[s]) # TotalSample
      BY <1>1, <2>1, <3>2 DEF Totals
    <3>3. QED
      BY <3>1, <3>2
  <2>5. Totals(s)'
    BY <1>1, <1>3, <2>1, <2>2, <2>3, <2>4 DEF Totals
  <2>6. QED
    BY <1>1, <1>2, <1>4, <2>1, <2>3, <2>5 DEF Counts
<1>7. CASE Inc(s)
  <2>1. /\ phase[s] = "inc" /\ phase' = [phase EXCEPT ![s] = "announce"]
        /\ UNCHANGED <<chan, got, prior, total>> /\ scrapesTotal' = scrapesTotal + 1
    BY <1>7 DEF Inc, Counted
  <2>2. Begun' = Begun \cup {s} /\ s \notin Begun /\ Arrived' = Arrived
    BY <1>3, <2>1 DEF Begun, Arrived
  <2>3. Cardinality(Begun') = Cardinality(Begun) + 1
    BY <1>2, <2>2, FS_AddElement
  <2>4. prior[s] < scrapesTotal'
    BY <1>1, <2>1 DEF Totals
  <2>5. Totals(s)'
    BY <1>1, <1>3, <2>1, <2>2, <2>4 DEF Totals, Out
  <2>6. QED
    BY <1>1, <1>2, <1>4, <2>1, <2>2, <2>3, <2>5 DEF Counts
<1>8. CASE SendTotal(s)
  <2>1. /\ phase[s] = "announce" /\ phase' = [phase EXCEPT ![s] = "add"]
        /\ UNCHANGED <<scrapesTotal, got, prior, total>> /\ Send(s, TotalSample)
    BY <1>8 DEF SendTotal
  <2>2. TotalSample \in Samples
    BY DEF TotalSample, Sample, Samples
  <2>3. TotalSample \in Out(s)'
    BY <1>1, <2>1, <2>2, SendOut
  <2>4. Begun' = Begun /\ Arrived' = Arrived
    BY <1>3, <2>1 DEF Begun, Arrived
  <2>5. Totals(s)'
    BY <1>1, <1>3, <2>1, <2>3, <2>4 DEF Totals
  <2>6. QED
    BY <1>1, <1>2, <1>4, <2>1, <2>4, <2>5 DEF Counts
<1>9. CASE ~(Request(s) \/ Receive(s) \/ Inc(s) \/ SendTotal(s))
  <2>1. /\ UNCHANGED <<scrapesTotal, chan, got, prior, total>>
        /\ \/ phase[s] = "returned" /\ phase' = [phase EXCEPT ![s] = "closed"]
           \/ phase[s] = "closed" /\ chan[s] = <<>> /\ phase' = [phase EXCEPT ![s] = "served"]
           \/ phase[s] = "add" /\ phase' = [phase EXCEPT ![s] = "spawn"]
           \/ phase[s] = "spawn" /\ phase' = [phase EXCEPT ![s] = "returned"]
           \/ phase' = phase
    BY <1>9 DEF Registry, CloseChan, Respond, Collect, AddAll, WaitAll, Spawn
  <2>2. Begun' = Begun /\ Arrived' = Arrived
    BY <1>3, <2>1 DEF Begun, Arrived
  <2>3. Out(s)' = Out(s)
    BY <2>1 DEF Out
  <2>4. Totals(s)'
    BY <1>1, <1>3, <2>1, <2>2, <2>3 DEF Totals
  <2>5. QED
    BY <1>1, <1>2, <1>4, <2>1, <2>2, <2>4 DEF Counts
<1>10. QED
  BY <1>5, <1>6, <1>7, <1>8, <1>9

-----------------------------------------------------------------------------
(* The invariant of the histories, and what follows from it.               *)

\* Initially nothing was sent, and nothing counted.
LEMMA InitHInv == Init => HInv
<1> SUFFICES ASSUME Init PROVE HInv
  OBVIOUS
<1>1. \A s \in Scrapes : Out(s) = {} /\ chan[s] = <<>> /\ got[s] = {}
  BY DEF Init, Out
<1>2. Histories
  <2>1. \A s \in Scrapes : LastWord(s)
    BY <1>1 DEF LastWord
  <2>2. ASSUME NEW s \in Scrapes, NEW c \in Collectors PROVE History(s, c)
    <3>1. From(s, c) = {} /\ at[s][c] = 1 /\ pc[s][c] = "unborn" /\ fail[s][c] = 0
          /\ sent[s][c] = {} /\ \A k \in Sites : kid[s][c][k] = "unborn"
      BY <1>1 DEF Init, From
    <3>2. Len(Program[c]) \in Nat /\ DOMAIN Program[c] = 1 .. Len(Program[c])
      BY ProgramAssumption
    <3>3. QED
      BY <3>1, <3>2 DEF History, Course, Said, Loop, Verdict
  <2>3. QED
    BY <2>1, <2>2 DEF Histories
<1>3. Counts
  <2>1. Begun = {} /\ Cardinality(Begun) = 0
    BY FS_EmptySet DEF Init, Begun
  <2>2. QED
    BY <1>1, <2>1 DEF Init, Counts, Totals
<1>4. QED
  BY <1>2, <1>3, InitIInv DEF HInv

\* Every step preserves the histories and the counts.
LEMMA NextHInv == HInv /\ [Next]_vars => HInv'
<1> SUFFICES ASSUME HInv, [Next]_vars PROVE HInv'
  OBVIOUS
<1>1. IInv /\ IInv' /\ Histories /\ Counts
  BY NextIInv DEF HInv
<1>2. ASSUME NEW s \in Scrapes,
             Request(s) \/ Registry(s) \/ Collect(s) \/ \E c \in Collectors : Spawn(s, c)
      PROVE  Histories' /\ Counts'
  BY <1>1, <1>2, OtherHistories, ServiceCounts
<1>3. ASSUME NEW s \in Scrapes, NEW c \in Collectors, runCollector(s, c)
      PROVE  Histories' /\ Counts'
  BY <1>1, <1>3, runCollectorHistories, CollectorCounts
<1>4. ASSUME NEW s \in Scrapes, NEW c \in Collectors, NEW k \in Sites, Kid(s, c, k)
      PROVE  Histories' /\ Counts'
  BY <1>1, <1>4, KidHistories, CollectorCounts
<1>5. CASE UNCHANGED vars
  <2> USE <1>5 DEF vars, collectVars, registryVars, updateVars, fanVars
  <2>1. \A s \in Scrapes : Out(s)' = Out(s) /\ LastWord(s)'
    BY <1>1 DEF Out, Histories, LastWord
  <2>2. \A s \in Scrapes, c \in Collectors : From(s, c)' = From(s, c)
    BY <2>1, FromFrame
  <2>3. \A s \in Scrapes, c \in Collectors : History(s, c)'
    BY <1>1, <2>2, HistoryFrame DEF Histories
  <2>4. Begun' = Begun /\ Arrived' = Arrived /\ TotalSample' = TotalSample
    BY DEF Begun, Arrived, TotalSample, Sample
  <2>5. \A s \in Scrapes : Totals(s)'
    BY <1>1, <2>1, <2>4 DEF Counts, Totals
  <2>6. QED
    BY <1>1, <2>1, <2>3, <2>4, <2>5 DEF HInv, Histories, Counts
<1>6. CASE AllServed
  BY <1>5, <1>6 DEF AllServed
<1>7. QED
  BY <1>1, <1>2, <1>3, <1>4, <1>5, <1>6 DEF Next, HInv

\* In every reachable state what was sent, and counted, is what the positions
\* of the collectors and requests say.
THEOREM SpecHInv == Spec => []HInv
BY InitHInv, NextHInv, PTL DEF Spec

\* What was sent by a scrape that is served is in the reply.
LEMMA AllReceived ==
  ASSUME HInv, NEW s \in Scrapes, phase[s] = "served"
  PROVE  Out(s) = got[s]
<1>1. chan[s] = <<>>
  BY DEF HInv, Counts, Totals
<1>2. QED
  BY <1>1 DEF Out

\* The reply of such a scrape holds all of every step that Update has passed.
LEMMA PassedReported ==
  ASSUME HInv, NEW s \in Scrapes, NEW c \in Collectors, phase[s] = "served",
         NEW i \in DOMAIN Program[c], i < at[s][c]
  PROVE  Reported(s, c, i)
<1>1. History(s, c)
  BY DEF HInv, Histories
<1>2. From(s, c) \subseteq got[s]
  BY AllReceived DEF From
<1>3. Program[c][i] = "emit" => Sample("data", c, i) \in got[s]
  BY <1>1, <1>2 DEF History, Said
<1>4. ASSUME Program[c][i] = "fan", NEW k \in Fanout[c]
      PROVE  /\ Sample("site", c, k) \in got[s]
             /\ kid[s][c][k] \in {"none", "lost"} \/ Sample("kid", c, k) \in got[s]
  <2>1. k \in Sites /\ Joined(s, c)
    BY <1>1, <1>4, FanoutAssumption DEF History, Said
  <2>2. k \in sent[s][c] /\ kid[s][c][k] \in {"none", "done", "lost"}
    BY <2>1 DEF Joined
  <2>3. QED
    BY <1>1, <1>2, <2>1, <2>2 DEF History, Loop
<1>5. QED
  BY <1>3, <1>4 DEF Reported

\* collector_up 1 hides no partial result.
THEOREM UpMeansComplete == Spec => []CompleteWhenUp
<1>1. HInv => CompleteWhenUp
  <2> SUFFICES ASSUME HInv, NEW s \in Scrapes, NEW c \in Collectors, phase[s] = "served",
                      Sample("up", c, 1) \in got[s], NEW i \in DOMAIN Program[c]
               PROVE  Reported(s, c, i)
    BY DEF CompleteWhenUp
  <2>1. History(s, c) /\ Len(Program[c]) \in Nat /\ DOMAIN Program[c] = 1 .. Len(Program[c])
    BY ProgramAssumption DEF HInv, Histories
  <2>2. From(s, c) \subseteq got[s] /\ Sample("up", c, 1) \in From(s, c)
    BY AllReceived DEF From, Sample
  <2>3. pc[s][c] \in {"exit", "done"} /\ fail[s][c] = 0
    BY <2>1, <2>2 DEF History, Verdict, Success
  <2>4. i < at[s][c]
    BY <2>1, <2>3 DEF History, Course
  <2>5. QED
    BY <2>4, PassedReported
<1>2. QED
  BY <1>1, SpecHInv, PTL

\* The registry takes nothing from a collector after its verdict.
THEOREM NothingAfterVerdict == Spec => VerdictIsLast
<1> DEFINE Last == \A s \in Scrapes, c \in Collectors, m \in {0, 1} :
                     Sample("up", c, m) \in got[s] =>
                       {x \in got'[s] : x.from = c} = {x \in got[s] : x.from = c}
<1>1. HInv /\ [Next]_vars => Last
  <2> SUFFICES ASSUME HInv, [Next]_vars PROVE Last
    OBVIOUS
  <2>1. CASE UNCHANGED got
    BY <2>1
  <2>2. ASSUME NEW s \in Scrapes, Receive(s) PROVE Last
    <3> SUFFICES ASSUME NEW r \in Scrapes, NEW c \in Collectors, NEW m \in {0, 1},
                        Sample("up", c, m) \in got[r]
                 PROVE  {x \in got'[r] : x.from = c} = {x \in got[r] : x.from = c}
      OBVIOUS
    <3>1. LastWord(r) /\ TypeOK
      BY DEF HInv, IInv, Histories
    <3>2. CASE r # s
      BY <2>2, <3>1, <3>2, ReceiveOut
    <3>3. CASE r = s
      <4>1. got'[s] = got[s] \cup {chan[s][1]} /\ 1 \in DOMAIN chan[s]
        BY <2>2, <3>1, ReceiveOut
      <4>2. chan[s][1].from # c
        BY <3>1, <3>3, <4>1 DEF LastWord
      <4>3. QED
        BY <3>3, <4>1, <4>2
    <3>4. QED
      BY <3>2, <3>3
  <2>3. UNCHANGED got \/ \E s \in Scrapes : Receive(s)
    <3>1. ASSUME NEW s \in Scrapes, Request(s) \/ Registry(s) \/ Collect(s)
          PROVE  UNCHANGED got \/ Receive(s)
      BY <3>1 DEF registryVars, Registry, Request, CloseChan, Respond, Collect, Inc, SendTotal,
                  AddAll, WaitAll
    <3>2. ASSUME NEW s \in Scrapes, NEW c \in Collectors,
                 Spawn(s, c) \/ runCollector(s, c) \/ \E k \in Sites : Kid(s, c, k)
          PROVE  UNCHANGED got
      BY <3>2 DEF registryVars, Spawn, runCollector, Ask, Try, Emit, Fork, SendSite, FanJoin,
                  Return, SendDuration, SendVerdict, Exit, Kid, KidAsk, KidSend, KidExit
    <3>3. AllServed \/ UNCHANGED vars => UNCHANGED got
      BY DEF AllServed, vars, registryVars
    <3>4. QED
      BY <3>1, <3>2, <3>3 DEF Next
  <2>4. QED
    BY <2>1, <2>2, <2>3
<1>2. QED
  BY <1>1, SpecHInv, PTL DEF Spec, VerdictIsLast

-----------------------------------------------------------------------------
(* Every step goes forward.  y comes after x in an order of positions:     *)
Follows(order, x, y) == \E i, j \in DOMAIN order : i < j /\ order[i] = x /\ order[j] = y

\* A scrape is where it was, or further.
Onward(s) ==
  /\ phase'[s] = phase[s] \/ Follows(PhaseOrder, phase[s], phase'[s])
  /\ got[s] \subseteq got'[s]
  /\ \A c \in Collectors :
       /\ pc'[s][c] = pc[s][c] \/ Follows(PCOrder, pc[s][c], pc'[s][c])
       /\ at[s][c] <= at'[s][c]
       /\ sent[s][c] \subseteq sent'[s][c] /\ sent'[s][c] \subseteq sent[s][c] \cup Fanout[c]
       /\ \A k \in Sites : \/ kid'[s][c][k] = kid[s][c][k]
                           \/ Follows(KidOrder, kid[s][c][k], kid'[s][c][k])

\* In some respect it is further.
Moves(s) ==
  \/ Follows(PhaseOrder, phase[s], phase'[s])
  \/ \E m \in Metrics : m \in got'[s] \ got[s]
  \/ \E c \in Collectors :
       \/ Follows(PCOrder, pc[s][c], pc'[s][c])
       \/ at[s][c] < at'[s][c] /\ at[s][c] <= Len(Program[c])
       \/ \E k \in Sites : \/ k \in sent'[s][c] \ sent[s][c]
                           \/ Follows(KidOrder, kid[s][c][k], kid'[s][c][k])

\* Nothing of it has changed that its progress depends on.
Stays(s) ==
  UNCHANGED <<phase[s], pc[s], at[s], kid[s], sent[s], got[s]>>

\* An order lists n positions, each of them once.
Lists(order, n) == DOMAIN order = 1 .. n /\ \A i, j \in 1 .. n : order[i] = order[j] => i = j

\* In such an order a position that follows has less after it.
LEMMA LaterShrinks ==
  ASSUME NEW order,
         \E n \in Nat : Lists(order, n),
         NEW x, NEW y, Follows(order, x, y)
  PROVE  /\ Later(order, y) \subseteq Later(order, x)
         /\ \E j \in DOMAIN order : j \in Later(order, x) \ Later(order, y)
<1>n. PICK n \in Nat : Lists(order, n)
  OBVIOUS
<1>1. PICK i \in 1 .. n, j \in 1 .. n : i < j /\ order[i] = x /\ order[j] = y
  BY <1>n DEF Follows, Lists
<1>2. j \in Later(order, x)
  BY <1>n, <1>1 DEF Later, Lists
<1>3. j \notin Later(order, y)
  BY <1>n, <1>1 DEF Later, Lists
<1>4. ASSUME NEW k \in Later(order, y) PROVE k \in Later(order, x)
  <2>1. k \in 1 .. n /\ j < k
    BY <1>n, <1>1 DEF Later, Lists
  <2>2. i \in 1 .. k - 1
    BY <1>1, <2>1
  <2>3. QED
    BY <1>n, <1>1, <2>1, <2>2 DEF Later, Lists
<1>5. QED
  BY <1>n, <1>1, <1>2, <1>3, <1>4 DEF Lists

\* The three orders are such.
LEMMA Orders ==
  ASSUME NEW order \in {PhaseOrder, PCOrder, KidOrder}, NEW x, NEW y, Follows(order, x, y)
  PROVE  /\ Later(order, y) \subseteq Later(order, x)
         /\ \E j \in DOMAIN order : j \in Later(order, x) \ Later(order, y)
<1>1. CASE order = PhaseOrder
  <2>1. Lists(order, 8)
    BY <1>1 DEF Lists, PhaseOrder
  <2>2. QED
    BY <2>1, LaterShrinks
<1>2. CASE order = PCOrder
  <2>1. Lists(order, 6)
    BY <1>2 DEF Lists, PCOrder
  <2>2. QED
    BY <2>1, LaterShrinks
<1>3. CASE order = KidOrder
  <2>1. Lists(order, 8)
    BY <1>3 DEF Lists, KidOrder
  <2>2. QED
    BY <2>1, LaterShrinks
<1>4. QED
  BY <1>1, <1>2, <1>3

\* The steps that follow one another, and what a metric comes after.
LEMMA Successors ==
  /\ Follows(PhaseOrder, "idle", "inc") /\ Follows(PhaseOrder, "inc", "announce")
  /\ Follows(PhaseOrder, "announce", "add") /\ Follows(PhaseOrder, "add", "spawn")
  /\ Follows(PhaseOrder, "spawn", "returned") /\ Follows(PhaseOrder, "returned", "closed")
  /\ Follows(PhaseOrder, "closed", "served")
  /\ Follows(PCOrder, "unborn", "update") /\ Follows(PCOrder, "update", "duration")
  /\ Follows(PCOrder, "duration", "verdict") /\ Follows(PCOrder, "verdict", "exit")
  /\ Follows(PCOrder, "exit", "done")
  /\ Follows(KidOrder, "unborn", "run") /\ Follows(KidOrder, "unborn", "none")
  /\ Follows(KidOrder, "run", "send") /\ Follows(KidOrder, "run", "fail")
  /\ Follows(KidOrder, "send", "exit") /\ Follows(KidOrder, "exit", "done")
  /\ Follows(KidOrder, "fail", "lost")
<1> DEFINE po == PhaseOrder  co == PCOrder  ko == KidOrder
<1>1. /\ DOMAIN po = 1 .. 8
      /\ po[1] = "idle" /\ po[2] = "inc" /\ po[3] = "announce" /\ po[4] = "add"
      /\ po[5] = "spawn" /\ po[6] = "returned" /\ po[7] = "closed" /\ po[8] = "served"
  BY DEF PhaseOrder
<1>2. /\ DOMAIN co = 1 .. 6
      /\ co[1] = "unborn" /\ co[2] = "update" /\ co[3] = "duration"
      /\ co[4] = "verdict" /\ co[5] = "exit" /\ co[6] = "done"
  BY DEF PCOrder
<1>3. /\ DOMAIN ko = 1 .. 8
      /\ ko[1] = "unborn" /\ ko[2] = "run" /\ ko[3] = "send" /\ ko[4] = "exit"
      /\ ko[5] = "fail" /\ ko[6] = "none" /\ ko[7] = "done" /\ ko[8] = "lost"
  BY DEF KidOrder
<1> HIDE DEF po, co, ko
<1>4. \A i, j \in 1 .. 8 : i < j => Follows(po, po[i], po[j]) /\ Follows(ko, ko[i], ko[j])
  BY <1>1, <1>3 DEF Follows
<1>5. \A i, j \in 1 .. 6 : i < j => Follows(co, co[i], co[j])
  BY <1>2 DEF Follows
<1>6. Follows(po, "idle", "inc") /\ Follows(po, "inc", "announce")
      /\ Follows(po, "announce", "add") /\ Follows(po, "add", "spawn")
      /\ Follows(po, "spawn", "returned") /\ Follows(po, "returned", "closed")
      /\ Follows(po, "closed", "served")
  BY <1>1, <1>4
<1>7. Follows(co, "unborn", "update") /\ Follows(co, "update", "duration")
      /\ Follows(co, "duration", "verdict") /\ Follows(co, "verdict", "exit")
      /\ Follows(co, "exit", "done")
  BY <1>2, <1>5
<1>8. Follows(ko, "unborn", "run") /\ Follows(ko, "unborn", "none")
      /\ Follows(ko, "run", "send") /\ Follows(ko, "run", "fail")
      /\ Follows(ko, "send", "exit") /\ Follows(ko, "exit", "done")
      /\ Follows(ko, "fail", "lost")
  BY <1>3, <1>4
<1>9. QED
  BY <1>6, <1>7, <1>8 DEF po, co, ko

\* The set of metrics is the same at all times.
LEMMA SameMetrics == Metrics' = Metrics
BY DEF Metrics, TotalSample, Sample

\* A scrape on which nothing changes has the same ahead of it as before.
LEMMA StaysAhead ==
  ASSUME NEW s, Stays(s) PROVE Ahead(s)' = Ahead(s)
BY SameMetrics DEF Ahead, Stays, Later, PhaseOrder, PCOrder, KidOrder

\* A scrape that is further has less ahead of it.
LEMMA OnwardShrinks ==
  ASSUME TypeOK, TypeOK', NEW s \in Scrapes, Onward(s), Moves(s)
  PROVE  Shrinks(Ahead(s), Ahead(s)')
<1> DEFINE a == Ahead(s)  b == Ahead(s)'
<1>a. /\ DOMAIN a = {"phases", "pcs", "steps", "kids", "sites", "metrics"}
      /\ a.phases = Later(PhaseOrder, phase[s])
      /\ a.pcs = {x \in Collectors \X DOMAIN PCOrder : x[2] \in Later(PCOrder, pc[s][x[1]])}
      /\ a.steps = UNION {{<<c, i>> : i \in at[s][c] .. Len(Program[c])} : c \in Collectors}
      /\ a.kids = {x \in Collectors \X Sites \X DOMAIN KidOrder :
                    x[3] \in Later(KidOrder, kid[s][x[1]][x[2]])}
      /\ a.sites = {x \in Collectors \X Sites : x[2] \notin sent[s][x[1]]}
      /\ a.metrics = Metrics \ got[s]
  BY DEF Ahead
<1>b. /\ b.phases = Later(PhaseOrder, phase'[s])
      /\ b.pcs = {x \in Collectors \X DOMAIN PCOrder : x[2] \in Later(PCOrder, pc'[s][x[1]])}
      /\ b.steps = UNION {{<<c, i>> : i \in at'[s][c] .. Len(Program[c])} : c \in Collectors}
      /\ b.kids = {x \in Collectors \X Sites \X DOMAIN KidOrder :
                    x[3] \in Later(KidOrder, kid'[s][x[1]][x[2]])}
      /\ b.sites = {x \in Collectors \X Sites : x[2] \notin sent'[s][x[1]]}
      /\ b.metrics = Metrics \ got'[s]
  BY SameMetrics DEF Ahead, Later, PhaseOrder, PCOrder, KidOrder
<1> HIDE DEF a, b
<1>t. \A c \in Collectors : at[s][c] \in Nat /\ at'[s][c] \in Nat /\ Len(Program[c]) \in Nat
  BY ProgramAssumption DEF TypeOK
<1>1. b.phases \subseteq a.phases
  BY <1>a, <1>b, Orders DEF Onward
<1>2. ASSUME NEW x \in b.pcs PROVE x \in a.pcs
  <2>1. x \in Collectors \X DOMAIN PCOrder /\ x[1] \in Collectors /\ x[2] \in Later(PCOrder, pc'[s][x[1]])
    BY <1>b
  <2>2. Later(PCOrder, pc'[s][x[1]]) \subseteq Later(PCOrder, pc[s][x[1]])
    BY <2>1, Orders DEF Onward
  <2>3. QED
    BY <1>a, <2>1, <2>2
<1>3. b.steps \subseteq a.steps
  <2>1. \A c \in Collectors : at'[s][c] .. Len(Program[c]) \subseteq at[s][c] .. Len(Program[c])
    BY <1>t DEF Onward
  <2>2. QED
    BY <1>a, <1>b, <2>1
<1>4. ASSUME NEW x \in b.kids PROVE x \in a.kids
  <2>1. /\ x \in Collectors \X Sites \X DOMAIN KidOrder /\ x[1] \in Collectors /\ x[2] \in Sites
        /\ x[3] \in Later(KidOrder, kid'[s][x[1]][x[2]])
    BY <1>b
  <2>2. Later(KidOrder, kid'[s][x[1]][x[2]]) \subseteq Later(KidOrder, kid[s][x[1]][x[2]])
    BY <2>1, Orders DEF Onward
  <2>3. QED
    BY <1>a, <2>1, <2>2
<1>5. ASSUME NEW x \in b.sites PROVE x \in a.sites
  <2>1. x \in Collectors \X Sites /\ x[1] \in Collectors /\ x[2] \notin sent'[s][x[1]]
    BY <1>b
  <2>2. QED
    BY <1>a, <2>1 DEF Onward
<1>6. b.metrics \subseteq a.metrics
  BY <1>a, <1>b DEF Onward
<1>7. a # b
  <2>1. CASE Follows(PhaseOrder, phase[s], phase'[s])
    BY <1>a, <1>b, <2>1, Orders
  <2>2. ASSUME NEW m \in Metrics, m \in got'[s] \ got[s] PROVE a # b
    <3>1. m \in a.metrics /\ m \notin b.metrics
      BY <1>a, <1>b, <2>2
    <3>2. QED
      BY <3>1
  <2>3. ASSUME NEW c \in Collectors, Follows(PCOrder, pc[s][c], pc'[s][c]) PROVE a # b
    <3>1. PICK j \in DOMAIN PCOrder : j \in Later(PCOrder, pc[s][c]) \ Later(PCOrder, pc'[s][c])
      BY <2>3, Orders
    <3>2. <<c, j>> \in a.pcs /\ <<c, j>> \notin b.pcs
      BY <1>a, <1>b, <3>1
    <3>3. QED
      BY <3>2
  <2>4. ASSUME NEW c \in Collectors, at[s][c] < at'[s][c], at[s][c] <= Len(Program[c]) PROVE a # b
    <3>1. at[s][c] \in at[s][c] .. Len(Program[c]) /\ at[s][c] \notin at'[s][c] .. Len(Program[c])
      BY <1>t, <2>4
    <3>2. <<c, at[s][c]>> \in a.steps
      BY <1>a, <3>1
    <3>3. <<c, at[s][c]>> \notin b.steps
      BY <1>b, <3>1
    <3>4. QED
      BY <3>2, <3>3
  <2>5. ASSUME NEW c \in Collectors, NEW k \in Sites, k \in sent'[s][c] \ sent[s][c] PROVE a # b
    <3>1. <<c, k>> \in a.sites /\ <<c, k>> \notin b.sites
      BY <1>a, <1>b, <2>5
    <3>2. QED
      BY <3>1
  <2>6. ASSUME NEW c \in Collectors, NEW k \in Sites, Follows(KidOrder, kid[s][c][k], kid'[s][c][k])
        PROVE  a # b
    <3>1. PICK j \in DOMAIN KidOrder : j \in Later(KidOrder, kid[s][c][k]) \ Later(KidOrder, kid'[s][c][k])
      BY <2>6, Orders
    <3>2. <<c, k, j>> \in a.kids /\ <<c, k, j>> \notin b.kids
      BY <1>a, <1>b, <3>1
    <3>3. QED
      BY <3>2
  <2>7. QED
    BY <2>1, <2>2, <2>3, <2>4, <2>5, <2>6 DEF Moves
<1>8. \A f \in DOMAIN a : b[f] \subseteq a[f]
  BY <1>a, <1>1, <1>2, <1>3, <1>4, <1>5, <1>6
<1>9. QED
  BY <1>7, <1>8 DEF Shrinks, a, b

-----------------------------------------------------------------------------
(* No metric is sent a second time.  Where the histories do not say that a *)
(* metric that is about to be sent was not sent yet, Placed does: it was   *)
(* only sent if its sender is past the place that sends it.                *)
NothingTwice ==
  \A s \in Scrapes :
    /\ \A i, j \in DOMAIN chan[s] : chan[s][i] = chan[s][j] => i = j
    /\ \A i \in DOMAIN chan[s] : chan[s][i] \notin got[s]

Placed(s, m) ==
  \A c \in Collectors :
    /\ m = Sample("duration", c, 0) => pc[s][c] \notin {"unborn", "update", "duration"}
    /\ \A k \in Sites :
         /\ m = Sample("site", c, k) => k \in sent[s][c]
         /\ m = Sample("kid", c, k) => kid[s][c][k] \notin {"unborn", "run", "send"}

Once ==
  \A s \in Scrapes :
    /\ \A m \in Out(s) : m \in Metrics /\ Placed(s, m)
    /\ \A c \in Collectors : sent[s][c] \subseteq Fanout[c]

OInv == HInv /\ NothingTwice /\ Once

\* A step that sends m, a metric that was not sent yet.
Sends(s, m) ==
  /\ Send(s, m) /\ UNCHANGED got
  /\ m \in Metrics /\ m \notin Out(s)
  /\ Placed(s, m)'

\* A step of s and of nothing else: it goes forward, and on the channel it
\* sends a new metric, takes one, or does nothing.
StepOf(s) ==
  /\ Onward(s) /\ Moves(s) /\ \A r \in Scrapes \ {s} : Stays(r)
  /\ UNCHANGED <<chan, got>> \/ Receive(s) \/ \E m \in Samples : Sends(s, m)

\* What is no position before a given one is none further on either.
LEMMA StillPast ==
  /\ \A x, y : Follows(PCOrder, x, y) /\ x \notin {"unborn", "update", "duration"} =>
                y \notin {"unborn", "update", "duration"}
  /\ \A x, y : Follows(KidOrder, x, y) /\ x \notin {"unborn", "run", "send"} =>
                y \notin {"unborn", "run", "send"}
BY DEF Follows, PCOrder, KidOrder

\* A scrape on which nothing changes is onward.
LEMMA StaysOnward ==
  ASSUME TypeOK, NEW s \in Scrapes, Stays(s) PROVE Onward(s)
BY DEF Stays, Onward, TypeOK

\* What is placed stays so.
LEMMA StillPlaced ==
  ASSUME NEW s \in Scrapes, Onward(s), NEW m, Placed(s, m) PROVE Placed(s, m)'
BY StillPast DEF Onward, Placed, Sample

\* Such a step keeps the channels free of duplicates.
LEMMA StepOnce ==
  ASSUME TypeOK, NothingTwice, Once, NEW s \in Scrapes, StepOf(s)
  PROVE  NothingTwice' /\ Once'
<1>1. \A r \in Scrapes : Onward(r)
  BY StaysOnward DEF StepOf
<1>2. ASSUME NEW r \in Scrapes, NEW c \in Collectors PROVE sent'[r][c] \subseteq Fanout[c]
  BY <1>1 DEF Onward, Once
<1>3. \A r \in Scrapes : \A m \in Out(r) : m \in Metrics' /\ Placed(r, m)'
  BY <1>1, StillPlaced, SameMetrics DEF Once
<1>4. CASE UNCHANGED <<chan, got>>
  <2>1. \A r \in Scrapes : Out(r)' = Out(r)
    BY <1>4 DEF Out
  <2>2. QED
    BY <1>2, <1>3, <1>4, <2>1 DEF NothingTwice, Once
<1>5. CASE Receive(s)
  <2>1. \A r \in Scrapes : Out(r)' = Out(r)
    BY <1>5, ReceiveOut
  <2>2. /\ got'[s] = got[s] \cup {chan[s][1]} /\ 1 \in DOMAIN chan[s]
        /\ \A i \in DOMAIN chan'[s] : chan'[s][i] = chan[s][i + 1] /\ i + 1 \in DOMAIN chan[s]
        /\ \A i \in DOMAIN chan'[s] : 1 < i + 1
        /\ \A r \in Scrapes \ {s} : chan'[r] = chan[r] /\ got'[r] = got[r]
    BY <1>5, ReceiveOut
  <2>3. \A i \in DOMAIN chan'[s] : i \in Nat
    <3>1. Tail(chan[s]) \in Seq(Samples) /\ chan'[s] = Tail(chan[s])
      BY <1>5 DEF Receive, TypeOK
    <3>2. QED
      BY <3>1
  <2>4. /\ \A i, j \in DOMAIN chan[s] : chan[s][i] = chan[s][j] => i = j
        /\ \A i \in DOMAIN chan[s] : chan[s][i] \notin got[s]
    BY DEF NothingTwice
  <2>5. ASSUME NEW i \in DOMAIN chan'[s], NEW j \in DOMAIN chan'[s], chan'[s][i] = chan'[s][j]
        PROVE  i = j
    <3>1. i + 1 = j + 1
      BY <2>2, <2>4, <2>5
    <3>2. QED
      BY <2>3, <3>1
  <2>6. ASSUME NEW i \in DOMAIN chan'[s] PROVE chan'[s][i] \notin got'[s]
    <3>1. i + 1 \in DOMAIN chan[s] /\ i + 1 # 1 /\ chan'[s][i] = chan[s][i + 1]
      BY <2>2, <2>3
    <3>2. chan[s][i + 1] # chan[s][1] /\ chan[s][i + 1] \notin got[s]
      BY <2>2, <2>4, <3>1
    <3>3. QED
      BY <2>2, <3>1, <3>2
  <2>7. NothingTwice'
    BY <2>2, <2>5, <2>6 DEF NothingTwice
  <2>8. QED
    BY <1>2, <1>3, <2>1, <2>7 DEF Once
<1>6. ASSUME NEW m \in Samples, Sends(s, m) PROVE NothingTwice' /\ Once'
  <2>1. Send(s, m) /\ UNCHANGED got /\ m \in Metrics /\ m \notin Out(s) /\ Placed(s, m)'
    BY <1>6 DEF Sends
  <2>2. /\ DOMAIN chan'[s] = DOMAIN chan[s] \cup {Len(chan[s]) + 1}
        /\ chan'[s][Len(chan[s]) + 1] = m
        /\ \A i \in DOMAIN chan[s] : chan'[s][i] = chan[s][i] /\ i < Len(chan[s]) + 1
        /\ \A r \in Scrapes \ {s} : chan'[r] = chan[r]
        /\ Out(s)' = Out(s) \cup {m}
        /\ \A r \in Scrapes \ {s} : Out(r)' = Out(r)
    BY <2>1, SendOut
  <2>3. m \notin got[s] /\ \A i \in DOMAIN chan[s] : chan[s][i] # m
    BY <2>1 DEF Out
  <2>4. NothingTwice'
    BY <2>1, <2>2, <2>3 DEF NothingTwice
  <2>5. \A r \in Scrapes : \A x \in Out(r)' : x \in Metrics' /\ Placed(r, x)'
    BY <1>3, <2>1, <2>2, SameMetrics
  <2>6. QED
    BY <1>2, <2>4, <2>5 DEF Once
<1>7. QED
  BY <1>4, <1>5, <1>6 DEF StepOf

\* Everything that can be sent is a metric.
LEMMA KnownMetrics ==
  /\ TotalSample \in Metrics
  /\ \A c \in Collectors :
       /\ \A i \in DOMAIN Program[c] : Sample("data", c, i) \in Metrics
       /\ \A k \in Sites : Sample("site", c, k) \in Metrics /\ Sample("kid", c, k) \in Metrics
       /\ \A n \in {0, 1} : Sample("duration", c, n) \in Metrics /\ Sample("up", c, n) \in Metrics
BY DEF Metrics, Sample

-----------------------------------------------------------------------------
(* Every step is a step of one scrape.                                     *)

\* A step that changes nothing of a scrape but its phase, which it moves on.
LEMMA PhaseStep ==
  ASSUME TypeOK, NEW s \in Scrapes, NEW q, phase' = [phase EXCEPT ![s] = q],
         Follows(PhaseOrder, phase[s], q), UNCHANGED <<got, pc, at, kid, sent>>
  PROVE  Onward(s) /\ Moves(s) /\ \A r \in Scrapes \ {s} : Stays(r)
<1>1. phase'[s] = q /\ \A r \in Scrapes \ {s} : phase'[r] = phase[r]
  BY DEF TypeOK
<1>2. Onward(s)
  BY <1>1 DEF TypeOK, Onward
<1>3. Moves(s)
  BY <1>1 DEF Moves
<1>4. QED
  BY <1>1, <1>2, <1>3 DEF Stays

\* The registry and Collect.
LEMMA ServiceMoves ==
  ASSUME OInv, NEW s \in Scrapes, Request(s) \/ Registry(s) \/ Collect(s)
  PROVE  StepOf(s)
<1>1. TypeOK /\ BarrierCounts /\ Totals(s)
  BY DEF OInv, HInv, IInv, Counts
<1> USE DEF registryVars, updateVars, fanVars, collectVars
<1>2. CASE Receive(s)
  <2>1. /\ got'[s] = got[s] \cup {chan[s][1]} /\ 1 \in DOMAIN chan[s]
        /\ \A r \in Scrapes \ {s} : got'[r] = got[r]
    BY <1>1, <1>2, ReceiveOut
  <2>2. UNCHANGED <<phase, pc, at, kid, sent>>
    BY <1>2 DEF Receive
  <2>3. chan[s][1] \in Metrics /\ chan[s][1] \notin got[s]
    BY <2>1 DEF OInv, Once, NothingTwice, Out
  <2>4. Onward(s)
    BY <1>1, <2>1, <2>2 DEF TypeOK, Onward
  <2>5. Moves(s)
    BY <2>1, <2>3 DEF Moves
  <2>6. QED
    BY <1>2, <2>1, <2>2, <2>4, <2>5 DEF StepOf, Stays
<1>3. CASE SendTotal(s)
  <2>1. /\ phase[s] = "announce" /\ phase' = [phase EXCEPT ![s] = "add"]
        /\ Send(s, TotalSample) /\ UNCHANGED <<got, pc, at, kid, sent>>
    BY <1>3 DEF SendTotal
  <2>2. TotalSample \notin Out(s)
    BY <1>1, <2>1 DEF Totals
  <2>3. TotalSample \in Samples /\ Placed(s, TotalSample)'
    BY DEF TotalSample, Sample, Samples, Placed
  <2>4. Sends(s, TotalSample)
    BY <2>1, <2>2, <2>3, KnownMetrics DEF Sends, Placed, TotalSample, Sample
  <2>5. QED
    BY <1>1, <2>1, <2>3, <2>4, PhaseStep, Successors DEF StepOf
<1>4. CASE ~Receive(s) /\ ~SendTotal(s)
  <2>1. UNCHANGED <<chan, got, pc, at, kid, sent>>
    BY <1>4 DEF Request, Registry, CloseChan, Respond, Collect, Inc, AddAll, WaitAll
  <2>2. \E q \in Phases : phase' = [phase EXCEPT ![s] = q] /\ Follows(PhaseOrder, phase[s], q)
    BY <1>4, Successors
       DEF Request, Registry, CloseChan, Respond, Collect, Inc, AddAll, WaitAll, Phases
  <2>3. QED
    BY <1>1, <2>1, <2>2, PhaseStep DEF StepOf
<1>5. QED
  BY <1>2, <1>3, <1>4

\* What a step of a collector c of s has to show: the others stay, and c goes
\* forward in one respect.
LEMMA CollectorStep ==
  ASSUME TypeOK, TypeOK', NEW s \in Scrapes, NEW c \in Collectors, UNCHANGED <<phase, got>>,
         \A r \in Scrapes, d \in Collectors : r # s \/ d # c =>
            /\ pc'[r][d] = pc[r][d] /\ at'[r][d] = at[r][d]
            /\ kid'[r][d] = kid[r][d] /\ sent'[r][d] = sent[r][d],
         pc'[s][c] = pc[s][c] \/ Follows(PCOrder, pc[s][c], pc'[s][c]),
         at'[s][c] = at[s][c] \/ (at'[s][c] = at[s][c] + 1 /\ at[s][c] <= Len(Program[c])),
         sent'[s][c] = sent[s][c] \/ \E k \in Fanout[c] \ sent[s][c] : sent'[s][c] = sent[s][c] \cup {k},
         \A k \in Sites : kid'[s][c][k] = kid[s][c][k] \/ Follows(KidOrder, kid[s][c][k], kid'[s][c][k]),
         pc'[s][c] # pc[s][c] \/ at'[s][c] # at[s][c] \/ sent'[s][c] # sent[s][c]
           \/ \E k \in Sites : kid'[s][c][k] # kid[s][c][k]
  PROVE  Onward(s) /\ Moves(s) /\ \A r \in Scrapes \ {s} : Stays(r)
<1>1. /\ pc \in [Scrapes -> [Collectors -> PCs]] /\ pc' \in [Scrapes -> [Collectors -> PCs]]
      /\ at \in [Scrapes -> [Collectors -> Nat]] /\ at' \in [Scrapes -> [Collectors -> Nat]]
      /\ sent \in [Scrapes -> [Collectors -> SUBSET Sites]]
      /\ sent' \in [Scrapes -> [Collectors -> SUBSET Sites]]
      /\ kid \in [Scrapes -> [Collectors -> [Sites -> KidPCs]]]
      /\ kid' \in [Scrapes -> [Collectors -> [Sites -> KidPCs]]]
      /\ \A d \in Collectors : Fanout[d] \subseteq Sites
  BY FanoutAssumption DEF TypeOK
<1>2. \A r \in Scrapes \ {s} : Stays(r)
  <2> SUFFICES ASSUME NEW r \in Scrapes \ {s}
               PROVE  pc'[r] = pc[r] /\ at'[r] = at[r] /\ kid'[r] = kid[r] /\ sent'[r] = sent[r]
    BY DEF Stays
  <2>1. pc'[r] = pc[r]
    BY <1>1
  <2>2. at'[r] = at[r]
    BY <1>1
  <2>3. kid'[r] = kid[r]
    BY <1>1
  <2>4. sent'[r] = sent[r]
    BY <1>1
  <2>5. QED
    BY <2>1, <2>2, <2>3, <2>4
<1>3. Onward(s)
  <2>1. ASSUME NEW d \in Collectors
        PROVE  /\ pc'[s][d] = pc[s][d] \/ Follows(PCOrder, pc[s][d], pc'[s][d])
               /\ at[s][d] <= at'[s][d]
               /\ sent[s][d] \subseteq sent'[s][d] /\ sent'[s][d] \subseteq sent[s][d] \cup Fanout[d]
               /\ \A k \in Sites : \/ kid'[s][d][k] = kid[s][d][k]
                                   \/ Follows(KidOrder, kid[s][d][k], kid'[s][d][k])
    <3>1. at[s][d] \in Nat
      BY <1>1
    <3>2. CASE d # c
      BY <3>1, <3>2
    <3>3. CASE d = c
      BY <3>1, <3>3
    <3>4. QED
      BY <3>2, <3>3
  <2>2. QED
    BY <2>1 DEF Onward
<1>4. Moves(s)
  <2>1. at[s][c] \in Nat
    BY <1>1
  <2>2. QED
    BY <1>1, <2>1 DEF Moves
<1>5. QED
  BY <1>2, <1>3, <1>4

\* runCollector: each of its actions moves one of its positions on.
LEMMA runCollectorMoves ==
  ASSUME OInv, TypeOK', NEW s \in Scrapes, NEW c \in Collectors, runCollector(s, c)
  PROVE  StepOf(s)
<1>1. TypeOK /\ History(s, c) /\ Fanout[c] \subseteq Sites
  BY FanoutAssumption DEF OInv, HInv, IInv, Histories
<1>2. sent \in [Scrapes -> [Collectors -> SUBSET Sites]]
  BY <1>1 DEF TypeOK
<1>3. \A r \in Scrapes, d \in Collectors : r # s \/ d # c =>
        /\ pc'[r][d] = pc[r][d] /\ at'[r][d] = at[r][d]
        /\ kid'[r][d] = kid[r][d] /\ sent'[r][d] = sent[r][d]
  BY <1>1, runCollectorElsewhere
<1>4. /\ at[s][c] \in Nat /\ Len(Program[c]) \in Nat /\ DOMAIN Program[c] = 1 .. Len(Program[c])
      /\ at[s][c] + 1 # at[s][c]
  BY <1>1, ProgramAssumption, NestedTypes
<1> USE DEF collectVars, registryVars, updateVars, fanVars
<1>5. UNCHANGED <<phase, got>>
  BY DEF runCollector, Ask, Try, Emit, Fork, SendSite, FanJoin, Return, SendDuration,
         SendVerdict, Exit
<1> DEFINE Moved == Onward(s) /\ Moves(s) /\ \A r \in Scrapes \ {s} : Stays(r)
           Ends(x, y) == pc[s][c] = x /\ pc'[s][c] = y
<1>a. ASSUME at'[s][c] = at[s][c] + 1, at[s][c] <= Len(Program[c]), UNCHANGED <<pc, kid, sent>>
      PROVE  Moved
  BY <1>1, <1>3, <1>4, <1>5, <1>a, CollectorStep
<1>b. ASSUME Follows(PCOrder, pc[s][c], pc'[s][c]), pc'[s][c] # pc[s][c], UNCHANGED <<at, kid, sent>>
      PROVE  Moved
  BY <1>1, <1>3, <1>5, <1>b, CollectorStep
<1>n. ASSUME NEW x \in {0, 1}, pc[s][c] \notin {"exit", "done"} PROVE Sample("up", c, x) \notin Out(s)
  BY <1>1, <1>n, NoVerdictYet DEF History
<1>6. CASE Ask(s, c)
  <2>1. UNCHANGED <<chan, kid, sent>> /\ pc[s][c] = "update" /\ at[s][c] <= Len(Program[c])
    BY <1>4, <1>6 DEF Ask, AtInstruction
  <2>2. CASE Advance(s, c) /\ UNCHANGED pc
    <3>1. at'[s][c] = at[s][c] + 1
      BY <1>1, <2>2, NestedTypes DEF Advance
    <3>2. QED
      BY <1>5, <1>a, <2>1, <2>2, <3>1 DEF StepOf
  <2>3. CASE Failed(s, c)
    <3>1. pc'[s][c] = "duration" /\ at' = at
      BY <1>1, <2>3, NestedTypes DEF Failed, Goto
    <3>2. QED
      BY <1>5, <1>b, <2>1, <3>1, Successors DEF StepOf
  <2>4. QED
    BY <1>6, <2>2, <2>3 DEF Ask
<1>7. CASE Try(s, c) \/ FanJoin(s, c)
  <2>1. UNCHANGED <<chan, kid, sent, pc>> /\ at[s][c] <= Len(Program[c])
        /\ at'[s][c] = at[s][c] + 1
    BY <1>1, <1>4, <1>7, NestedTypes DEF Try, FanJoin, Advance, AtInstruction
  <2>2. QED
    BY <1>5, <1>a, <2>1 DEF StepOf
<1>8. CASE Emit(s, c)
  <2> DEFINE m == Sample("data", c, at[s][c])
  <2>1. UNCHANGED <<kid, sent, pc>> /\ at[s][c] \in DOMAIN Program[c] /\ Send(s, m)
        /\ at'[s][c] = at[s][c] + 1 /\ at[s][c] <= Len(Program[c])
    BY <1>1, <1>4, <1>8, NestedTypes DEF Emit, Advance, AtInstruction
  <2>2. m \notin Out(s)
    <3>1. m \notin From(s, c)
      BY <1>1, <1>4 DEF History, Said
    <3>2. QED
      BY <3>1 DEF From, Sample
  <2>3. m \in Samples /\ Placed(s, m)'
    BY <1>4 DEF Sample, Samples, Placed
  <2>4. Sends(s, m)
    BY <1>5, <2>1, <2>2, <2>3, KnownMetrics DEF Sends
  <2>5. QED
    BY <1>a, <2>1, <2>3, <2>4 DEF StepOf
<1>9. ASSUME NEW k \in Fanout[c], Fork(s, c, k) PROVE StepOf(s)
  <2>1. UNCHANGED <<chan, pc, at, sent>> /\ kid[s][c][k] = "unborn"
    BY <1>9 DEF Fork
  <2>2. \E l \in {"run", "none"} : kid'[s][c][k] = l /\ \A j \in Sites \ {k} : kid'[s][c][j] = kid[s][c][j]
    <3>1. PICK l \in {"run", "none"} : kid' = [kid EXCEPT ![s][c][k] = l]
      BY <1>9 DEF Fork
    <3>2. kid'[s][c] = [kid[s][c] EXCEPT ![k] = l] /\ kid[s][c] \in [Sites -> KidPCs]
      BY <1>1, <3>1, NestedTypes
    <3>3. QED
      BY <1>1, <3>2
  <2>3. \A j \in Sites : kid'[s][c][j] = kid[s][c][j] \/ Follows(KidOrder, kid[s][c][j], kid'[s][c][j])
    BY <2>1, <2>2, Successors
  <2>4. \E j \in Sites : kid'[s][c][j] # kid[s][c][j]
    BY <1>1, <2>1, <2>2
  <2>5. Moved
    BY <1>1, <1>3, <1>5, <2>1, <2>3, <2>4, CollectorStep
  <2>6. QED
    BY <1>5, <2>1, <2>5 DEF StepOf
<1>10. ASSUME NEW k \in Fanout[c], SendSite(s, c, k) PROVE StepOf(s)
  <2> DEFINE m == Sample("site", c, k)
  <2>1. /\ UNCHANGED <<kid, pc, at>> /\ Send(s, m) /\ k \notin sent[s][c]
        /\ sent'[s][c] = sent[s][c] \cup {k}
    BY <1>2, <1>10 DEF SendSite
  <2>2. m \notin Out(s)
    BY <1>1, <2>1 DEF OInv, Once, Placed
  <2>3. m \in Samples /\ m \in Metrics
    BY <1>1, KnownMetrics DEF Sample, Samples
  <2>4. Placed(s, m)'
    BY <2>1 DEF Placed, Sample
  <2>5. Sends(s, m)
    BY <1>5, <2>1, <2>2, <2>3, <2>4 DEF Sends
  <2>6. Moved
    BY <1>1, <1>3, <1>5, <2>1, CollectorStep
  <2>7. QED
    BY <2>3, <2>5, <2>6 DEF StepOf
<1>11. CASE Return(s, c)
  <2>1. UNCHANGED <<chan, kid, sent, at>> /\ pc[s][c] = "update" /\ pc'[s][c] = "duration"
    BY <1>1, <1>11, NestedTypes DEF Return, Goto
  <2>2. QED
    BY <1>5, <1>b, <2>1, Successors DEF StepOf
<1>12. CASE SendDuration(s, c)
  <2> DEFINE m == Sample("duration", c, 0)
  <2>1. /\ UNCHANGED <<kid, sent, at>> /\ pc[s][c] = "duration" /\ Send(s, m)
        /\ pc'[s][c] = "verdict"
    BY <1>1, <1>12, NestedTypes DEF SendDuration, Goto
  <2>2. m \notin Out(s)
    BY <2>1 DEF OInv, Once, Placed
  <2>3. m \in Samples /\ m \in Metrics
    BY KnownMetrics DEF Sample, Samples
  <2>4. Placed(s, m)'
    BY <2>1 DEF Placed, Sample
  <2>5. Sends(s, m)
    BY <1>5, <2>1, <2>2, <2>3, <2>4 DEF Sends
  <2>6. QED
    BY <1>b, <2>1, <2>3, <2>5, Successors DEF StepOf
<1>13. CASE SendVerdict(s, c)
  <2> DEFINE m == Sample("up", c, Success(s, c))
  <2>1. /\ UNCHANGED <<kid, sent, at>> /\ pc[s][c] = "verdict" /\ Send(s, m)
        /\ pc'[s][c] = "exit"
    BY <1>1, <1>13, NestedTypes DEF SendVerdict, Goto
  <2>2. m \in Samples /\ m \in Metrics /\ m \notin Out(s)
    <3>1. Success(s, c) \in {0, 1}
      BY DEF Success
    <3>2. m \in Samples
      BY <3>1 DEF Sample, Samples
    <3>3. QED
      BY <1>n, <2>1, <3>1, <3>2, KnownMetrics
  <2>3. Placed(s, m)'
    BY DEF Placed, Sample
  <2>4. Sends(s, m)
    BY <1>5, <2>1, <2>2, <2>3 DEF Sends
  <2>5. QED
    BY <1>b, <2>1, <2>2, <2>4, Successors DEF StepOf
<1>14. CASE Exit(s, c)
  <2>1. UNCHANGED <<chan, kid, sent, at>> /\ pc[s][c] = "exit" /\ pc'[s][c] = "done"
    BY <1>1, <1>14, NestedTypes DEF Exit, Goto
  <2>2. QED
    BY <1>5, <1>b, <2>1, Successors DEF StepOf
<1>15. QED
  BY <1>6, <1>7, <1>8, <1>9, <1>10, <1>11, <1>12, <1>13, <1>14 DEF runCollector

\* The start of a collector, and the goroutines that it starts.
LEMMA SpawnMoves ==
  ASSUME OInv, TypeOK', NEW s \in Scrapes, NEW c \in Collectors, Spawn(s, c)
  PROVE  StepOf(s)
<1>1. TypeOK
  BY DEF OInv, HInv, IInv
<1>2. UNCHANGED <<phase, chan, got, at, kid, sent>>
  BY DEF Spawn, collectVars, registryVars, updateVars, fanVars
<1>3. /\ pc[s][c] = "unborn" /\ pc'[s][c] = "update"
      /\ \A r \in Scrapes, d \in Collectors : r # s \/ d # c => pc'[r][d] = pc[r][d]
  BY <1>1, NestedTypes DEF Spawn, Goto
<1>4. QED
  BY <1>1, <1>2, <1>3, CollectorStep, Successors DEF StepOf

LEMMA KidMoves ==
  ASSUME OInv, TypeOK', NEW s \in Scrapes, NEW c \in Collectors, NEW k \in Sites, Kid(s, c, k)
  PROVE  StepOf(s)
<1>1. TypeOK
  BY DEF OInv, HInv, IInv
<1>2. UNCHANGED <<phase, got, pc, at, sent>>
  BY DEF Kid, KidAsk, KidSend, KidExit, collectVars, registryVars, updateVars
<1>3. PICK l \in KidPCs : /\ KidGoto(s, c, k, l) /\ Follows(KidOrder, kid[s][c][k], l)
                          /\ KidSend(s, c, k) => l = "exit"
  BY Successors DEF Kid, KidAsk, KidSend, KidExit, KidPCs, KidLive
<1>4. l # kid[s][c][k]
  BY <1>3 DEF Follows, KidOrder
<1>5. /\ kid'[s][c][k] = l
      /\ \A j \in Sites \ {k} : kid'[s][c][j] = kid[s][c][j]
      /\ \A r \in Scrapes, d \in Collectors : r # s \/ d # c => kid'[r][d] = kid[r][d]
  <2>1. kid'[s][c] = [kid[s][c] EXCEPT ![k] = l] /\ kid[s][c] \in [Sites -> KidPCs]
    BY <1>1, <1>3, NestedTypes DEF KidGoto
  <2>2. \A r \in Scrapes, d \in Collectors : r # s \/ d # c => kid'[r][d] = kid[r][d]
    BY <1>1, <1>3, NestedTypes DEF KidGoto
  <2>3. QED
    BY <2>1, <2>2
<1>6. Onward(s) /\ Moves(s) /\ \A r \in Scrapes \ {s} : Stays(r)
  BY <1>1, <1>2, <1>3, <1>4, <1>5, CollectorStep
<1>7. CASE KidSend(s, c, k)
  <2> DEFINE m == Sample("kid", c, k)
  <2>1. Send(s, m) /\ kid[s][c][k] = "send" /\ l = "exit"
    BY <1>3, <1>7 DEF KidSend
  <2>2. m \notin Out(s)
    BY <2>1 DEF OInv, Once, Placed
  <2>3. m \in Samples /\ m \in Metrics
    BY KnownMetrics DEF Sample, Samples
  <2>4. Placed(s, m)'
    BY <1>5, <2>1 DEF Placed, Sample
  <2>5. Sends(s, m)
    BY <1>2, <2>1, <2>2, <2>3, <2>4 DEF Sends
  <2>6. QED
    BY <1>6, <2>3, <2>5 DEF StepOf
<1>8. CASE KidAsk(s, c, k) \/ KidExit(s, c, k)
  BY <1>2, <1>6, <1>8 DEF StepOf, KidAsk, KidExit
<1>9. QED
  BY <1>7, <1>8 DEF Kid

\* A step of the system is a step of one scrape, or nothing happens.
LEMMA OneStep ==
  ASSUME OInv, TypeOK', [Next]_vars
  PROVE  UNCHANGED vars \/ \E s \in Scrapes : StepOf(s)
<1>1. ASSUME NEW s \in Scrapes, Request(s) \/ Registry(s) \/ Collect(s) PROVE StepOf(s)
  BY <1>1, ServiceMoves
<1>2. ASSUME NEW s \in Scrapes, NEW c \in Collectors, Spawn(s, c) \/ runCollector(s, c)
      PROVE  StepOf(s)
  BY <1>2, SpawnMoves, runCollectorMoves
<1>3. ASSUME NEW s \in Scrapes, NEW c \in Collectors, NEW k \in Sites, Kid(s, c, k)
      PROVE  StepOf(s)
  BY <1>3, KidMoves
<1>4. AllServed => UNCHANGED vars
  BY DEF AllServed
<1>5. QED
  BY <1>1, <1>2, <1>3, <1>4 DEF Next

\* At the start nothing was sent.
LEMMA InitOInv == Init => OInv
<1> SUFFICES ASSUME Init PROVE OInv
  OBVIOUS
<1>1. \A s \in Scrapes : Out(s) = {} /\ chan[s] = <<>> /\ got[s] = {}
  BY DEF Init, Out
<1>2. NothingTwice
  BY <1>1 DEF NothingTwice
<1>3. Once
  BY <1>1 DEF Init, Once
<1>4. QED
  BY <1>2, <1>3, InitHInv DEF OInv

\* Every step preserves it.
LEMMA NextOInv == OInv /\ [Next]_vars => OInv'
<1> SUFFICES ASSUME OInv, [Next]_vars PROVE OInv'
  OBVIOUS
<1>1. HInv /\ HInv' /\ TypeOK /\ TypeOK' /\ NothingTwice /\ Once
  BY NextHInv DEF OInv, HInv, IInv
<1>2. CASE UNCHANGED vars
  <2> USE <1>2 DEF vars, collectVars, registryVars, updateVars, fanVars
  <2>1. NothingTwice'
    BY <1>1 DEF NothingTwice
  <2>2. \A s \in Scrapes : Out(s)' = Out(s)
    BY DEF Out
  <2>3. ASSUME NEW s \in Scrapes, NEW m \in Out(s) PROVE m \in Metrics' /\ Placed(s, m)'
    <3>1. Stays(s)
      BY DEF Stays
    <3>2. QED
      BY <1>1, <2>3, <3>1, StaysOnward, StillPlaced, SameMetrics DEF Once
  <2>4. Once'
    BY <1>1, <2>2, <2>3 DEF Once
  <2>5. QED
    BY <1>1, <2>1, <2>4 DEF OInv
<1>3. ASSUME NEW s \in Scrapes, StepOf(s) PROVE OInv'
  BY <1>1, <1>3, StepOnce DEF OInv
<1>4. QED
  BY <1>1, <1>2, <1>3, OneStep

\* It holds in every reachable state.
THEOREM SpecOInv == Spec => []OInv
BY InitOInv, NextOInv, PTL DEF Spec

\* What of Update may fail, and where the loop over the peers was: only a
\* command fails, and a turn of the loop, or a goroutine, is of a loop that
\* Update has come to.
Entered(s, c) == \E i \in DOMAIN Program[c] : i <= at[s][c] /\ Program[c][i] = "fan"
LoopFirst ==
  \A s \in Scrapes, c \in Collectors :
    /\ fail[s][c] # 0 => fail[s][c] = at[s][c] /\ Program[c][at[s][c]] = "ask"
    /\ \A k \in Sites : kid[s][c][k] # "unborn" \/ k \in sent[s][c] => Entered(s, c)

\* At the start nothing has failed and no loop was come to.
LEMMA InitLoopFirst == Init => LoopFirst
BY DEF Init, LoopFirst

\* A step of Update does not go back in its program.
LEMMA NextLoopFirst == IInv /\ HInv /\ LoopFirst /\ [Next]_vars => LoopFirst'
<1> SUFFICES ASSUME TypeOK, HInv, LoopFirst, [Next]_vars,
                    NEW s \in Scrapes, NEW c \in Collectors
             PROVE  /\ fail'[s][c] # 0 => fail'[s][c] = at'[s][c] /\ Program[c][at'[s][c]] = "ask"
                    /\ \A k \in Sites : kid'[s][c][k] # "unborn" \/ k \in sent'[s][c] =>
                         Entered(s, c)'
  BY DEF IInv, LoopFirst
<1> DEFINE Mine == /\ at'[s][c] = at[s][c] /\ fail'[s][c] = fail[s][c]
                   /\ kid'[s][c] = kid[s][c] /\ sent'[s][c] = sent[s][c]
<1>1. /\ fail[s][c] # 0 => fail[s][c] = at[s][c] /\ Program[c][at[s][c]] = "ask"
      /\ \A k \in Sites : kid[s][c][k] # "unborn" \/ k \in sent[s][c] => Entered(s, c)
      /\ at[s][c] \in Nat
      /\ pc[s][c] = "update" => fail[s][c] = 0
  BY DEF LoopFirst, TypeOK, HInv, Histories, History, Course
<1>2. CASE Mine
  BY <1>1, <1>2 DEF Entered
<1>3. ASSUME NEW r \in Scrapes, NEW d \in Collectors, runCollector(r, d), s # r \/ c # d PROVE Mine
  <2>1. UNCHANGED <<at, fail>> \/ Advance(r, d) \/ Failed(r, d)
    BY <1>3 DEF runCollector, Ask, Try, Emit, Fork, SendSite, FanJoin, Return, SendDuration,
                SendVerdict, Exit, updateVars
  <2>2. at'[s][c] = at[s][c] /\ fail'[s][c] = fail[s][c]
    <3>1. at \in [Scrapes -> [Collectors -> Nat]] /\ fail \in [Scrapes -> [Collectors -> Nat]]
      BY DEF TypeOK
    <3>2. \E n, m \in Nat : /\ at' = at \/ at' = [at EXCEPT ![r][d] = n]
                            /\ fail' = fail \/ fail' = [fail EXCEPT ![r][d] = m]
      <4>1. at[r][d] \in Nat
        BY <3>1
      <4>2. at[r][d] + 1 \in Nat
        BY <4>1
      <4>3. QED
        BY <2>1, <4>1, <4>2 DEF Advance, Failed
    <3>3. QED
      BY <1>3, <3>1, <3>2
  <2>3. UNCHANGED <<kid, sent>> \/ \E k \in Fanout[d] : Fork(r, d, k) \/ SendSite(r, d, k)
    BY <1>3 DEF runCollector, Ask, Try, Emit, FanJoin, Return, SendDuration, SendVerdict, Exit, fanVars
  <2>4. kid'[s][c] = kid[s][c] /\ sent'[s][c] = sent[s][c]
    <3>1. /\ kid \in [Scrapes -> [Collectors -> [Sites -> KidPCs]]]
          /\ sent \in [Scrapes -> [Collectors -> SUBSET Sites]]
          /\ sent[r][d] \subseteq Sites /\ Fanout[d] \subseteq Sites
          /\ {"run", "none"} \subseteq KidPCs
      BY FanoutAssumption DEF TypeOK, KidPCs, KidLive
    <3>2. ASSUME NEW k \in Fanout[d], Fork(r, d, k) PROVE kid'[s][c] = kid[s][c] /\ sent' = sent
      <4>1. sent' = sent /\ \E l \in KidPCs : kid' = [kid EXCEPT ![r][d][k] = l]
        BY <3>1, <3>2 DEF Fork
      <4>2. QED
        BY <1>3, <3>1, <4>1
    <3>3. ASSUME NEW k \in Fanout[d], SendSite(r, d, k) PROVE sent'[s][c] = sent[s][c] /\ kid' = kid
      <4>1. kid' = kid /\ \E v \in SUBSET Sites : sent' = [sent EXCEPT ![r][d] = v]
        BY <3>1, <3>3 DEF SendSite
      <4>2. QED
        BY <1>3, <3>1, <4>1
    <3>4. QED
      BY <2>3, <3>2, <3>3
  <2>5. QED
    BY <2>2, <2>4
<1>4. ASSUME runCollector(s, c)
      PROVE  /\ fail'[s][c] # 0 => fail'[s][c] = at'[s][c] /\ Program[c][at'[s][c]] = "ask"
             /\ \A k \in Sites : kid'[s][c][k] # "unborn" \/ k \in sent'[s][c] => Entered(s, c)'
  <2>1. CASE Ask(s, c) \/ Try(s, c) \/ Emit(s, c) \/ FanJoin(s, c)
    <3>1. kid' = kid /\ sent' = sent /\ pc[s][c] = "update"
      BY <2>1 DEF Ask, Try, Emit, FanJoin, AtInstruction, fanVars
    <3>2. \/ at'[s][c] = at[s][c] + 1 /\ fail' = fail
          \/ at' = at /\ fail'[s][c] = at[s][c] /\ Program[c][at[s][c]] = "ask"
      BY <2>1 DEF Ask, Try, Emit, FanJoin, AtInstruction, Advance, Failed, TypeOK
    <3>3. Entered(s, c) => Entered(s, c)'
      <4>1. \A i \in DOMAIN Program[c] : i \in Nat
        BY ProgramAssumption
      <4>2. QED
        BY <1>1, <3>2, <4>1 DEF Entered
    <3>4. QED
      BY <1>1, <3>1, <3>2, <3>3
  <2>2. ASSUME NEW k \in Fanout[c], Fork(s, c, k) \/ SendSite(s, c, k)
        PROVE  Entered(s, c)' /\ fail'[s][c] = 0
    <3>1. AtInstruction(s, c, "fan") /\ at' = at /\ fail' = fail
      BY <2>2 DEF Fork, SendSite, updateVars
    <3>2. QED
      BY <1>1, <3>1 DEF AtInstruction, Entered
  <2>3. CASE Return(s, c) \/ SendDuration(s, c) \/ SendVerdict(s, c) \/ Exit(s, c)
    BY <1>2, <2>3 DEF Return, SendDuration, SendVerdict, Exit, updateVars, fanVars
  <2>4. QED
    BY <1>4, <2>1, <2>2, <2>3 DEF runCollector
<1>5. ASSUME NEW r \in Scrapes, NEW d \in Collectors, NEW k \in Sites, Kid(r, d, k)
      PROVE  /\ at'[s][c] = at[s][c] /\ fail'[s][c] = fail[s][c] /\ sent'[s][c] = sent[s][c]
             /\ \A j \in Sites : kid'[s][c][j] # "unborn" => kid[s][c][j] # "unborn"
  <2>1. UNCHANGED <<at, fail, sent>> /\ kid[r][d][k] # "unborn"
    BY <1>5 DEF Kid, KidAsk, KidSend, KidExit, updateVars
  <2>2. \E l \in KidPCs : kid' = [kid EXCEPT ![r][d][k] = l]
    BY <1>5 DEF Kid, KidAsk, KidSend, KidExit, KidGoto, KidPCs, KidLive
  <2>3. kid \in [Scrapes -> [Collectors -> [Sites -> KidPCs]]]
    BY DEF TypeOK
  <2>4. QED
    BY <2>1, <2>2, <2>3
<1>6. ASSUME NEW r \in Scrapes,
             Request(r) \/ Registry(r) \/ Collect(r) \/ \E d \in Collectors : Spawn(r, d)
      PROVE  Mine
  BY <1>6 DEF Request, Registry, Receive, CloseChan, Respond, Collect, Inc, SendTotal, AddAll, WaitAll,
              Spawn, updateVars, fanVars
<1>7. UNCHANGED vars => Mine
  BY DEF vars, updateVars, fanVars
<1>8. CASE \E r \in Scrapes, d \in Collectors, k \in Sites : Kid(r, d, k)
  BY <1>1, <1>5, <1>8 DEF Entered
<1>9. QED
  BY <1>2, <1>3, <1>4, <1>6, <1>7, <1>8 DEF Next, AllServed

\* What a failed Update leaves behind is what comes before the failing step, all
\* of it and no more, whoever was to send it.
THEOREM NothingAfterFailure == Spec => []StopsAtFailure
<1>1. OInv /\ LoopFirst => StopsAtFailure
  <2> SUFFICES ASSUME OInv, LoopFirst, NEW s \in Scrapes, NEW c \in Collectors, fail[s][c] # 0
               PROVE  /\ \A i \in DOMAIN Program[c] : Sample("data", c, i) \in got[s] => i < fail[s][c]
                      /\ \A k \in Sites : {Sample("site", c, k), Sample("kid", c, k)} \cap got[s] # {} =>
                           \E i \in DOMAIN Program[c] : i < fail[s][c] /\ Program[c][i] = "fan"
                      /\ phase[s] = "served" =>
                           \A i \in DOMAIN Program[c] : i < fail[s][c] => Reported(s, c, i)
    BY DEF StopsAtFailure
  <2>1. /\ HInv /\ TypeOK /\ History(s, c) /\ fail[s][c] = at[s][c]
        /\ Program[c][at[s][c]] = "ask" /\ at[s][c] \in Nat
        /\ \A i \in DOMAIN Program[c] : i \in Nat
    BY ProgramAssumption DEF OInv, HInv, Histories, LoopFirst, IInv, TypeOK
  <2>2. ASSUME NEW i \in DOMAIN Program[c], Sample("data", c, i) \in got[s] PROVE i < fail[s][c]
    <3>1. Sample("data", c, i) \in From(s, c)
      BY <2>2 DEF From, Out, Sample
    <3>2. QED
      BY <2>1, <3>1 DEF History, Said
  <2>3. ASSUME NEW k \in Sites, {Sample("site", c, k), Sample("kid", c, k)} \cap got[s] # {}
        PROVE  \E i \in DOMAIN Program[c] : i < fail[s][c] /\ Program[c][i] = "fan"
    <3>1. k \in sent[s][c] \/ kid[s][c][k] # "unborn"
      BY <2>3 DEF OInv, Once, Placed, Out
    <3>2. PICK i \in DOMAIN Program[c] : i <= at[s][c] /\ Program[c][i] = "fan"
      BY <3>1 DEF LoopFirst, Entered
    <3>3. i # at[s][c]
      BY <2>1, <3>2
    <3>4. QED
      BY <2>1, <3>2, <3>3
  <2>4. ASSUME phase[s] = "served", NEW i \in DOMAIN Program[c], i < fail[s][c]
        PROVE  Reported(s, c, i)
    BY <2>1, <2>4, PassedReported
  <2>5. QED
    BY <2>2, <2>3, <2>4
<1>2. Spec => []LoopFirst
  <2>1. HInv => IInv
    BY DEF HInv
  <2>2. QED
    BY <2>1, InitLoopFirst, NextLoopFirst, SpecHInv, PTL DEF Spec
<1>3. QED
  BY <1>1, <1>2, SpecOInv, PTL

\* Every step takes something from what its scrape has ahead.
THEOREM AlwaysProgress == Spec => EveryStepCounts
<1> DEFINE Counting == \E s \in Scrapes : /\ Shrinks(Ahead(s), Ahead(s)')
                                          /\ \A r \in Scrapes \ {s} : Ahead(r)' = Ahead(r)
<1>1. OInv /\ [Next]_vars => Counting \/ UNCHANGED vars
  <2> SUFFICES ASSUME OInv, [Next]_vars, NEW s \in Scrapes, StepOf(s) PROVE Counting
    <3>1. OInv /\ [Next]_vars => TypeOK'
      BY NextOInv DEF OInv, HInv, IInv
    <3>2. QED
      BY <3>1, OneStep
  <2>1. TypeOK /\ TypeOK'
    BY NextOInv DEF OInv, HInv, IInv
  <2>2. Shrinks(Ahead(s), Ahead(s)')
    BY <2>1, OnwardShrinks DEF StepOf
  <2>3. \A r \in Scrapes \ {s} : Ahead(r)' = Ahead(r)
    BY StaysAhead DEF StepOf
  <2>4. QED
    BY <2>2, <2>3
<1>2. QED
  BY <1>1, SpecOInv, PTL DEF Spec, EveryStepCounts

\* The goroutines of a scrape never all wait for one another.
THEOREM DeadlockFree == Spec => []NoDeadlock
<1>1. OInv => NoDeadlock
  <2> SUFFICES ASSUME OInv, NEW s \in Scrapes, phase[s] \notin {"idle", "served"},
                      ~RegistryReady(s), ~CollectReady(s)
               PROVE  \E c \in Collectors : RunnerReady(s, c) \/ \E k \in Sites : KidReady(s, c, k)
    BY DEF NoDeadlock
  <2>1. /\ TypeOK /\ ScrapeCounts(s) /\ \A c \in Collectors : FanCounts(s, c) /\ History(s, c)
        /\ \A c \in Collectors : sent[s][c] \subseteq Fanout[c] /\ Fanout[c] \subseteq Sites
    BY CountsSplit, FanoutAssumption DEF OInv, HInv, IInv, Histories, Once
  <2>2. chan[s] = <<>> /\ SenderReady(s)
    BY CapacityAssumption DEF RegistryReady, SenderReady, HasRoom
  <2>3. phase[s] = "spawn"
    BY <2>1, <2>2 DEF TypeOK, Phases, RegistryReady, CollectReady
  <2>4. PICK c \in Collectors : pc[s][c] \notin {"unborn", "done"}
    <3>1. wg[s] = Cardinality(Unfinished(s)) /\ wg[s] # 0 /\ \A c \in Collectors : pc[s][c] # "unborn"
      BY <2>1, <2>3 DEF ScrapeCounts, EarlyPhases, CollectReady, WaitReturns
    <3>2. Unfinished(s) # {}
      BY <3>1, FS_EmptySet
    <3>3. QED
      BY <3>1, <3>2 DEF Unfinished
  <2>5. pc[s][c] \in PCs /\ at[s][c] \in Nat /\ Len(Program[c]) \in Nat
        /\ DOMAIN Program[c] = 1 .. Len(Program[c])
        /\ \A i \in DOMAIN Program[c] : Program[c][i] \in Instructions
    BY <2>1, ProgramAssumption, NestedTypes
  <2>6. CASE pc[s][c] # "update"
    BY <2>2, <2>4, <2>5, <2>6 DEF RunnerReady, PCs
  <2>7. CASE pc[s][c] = "update" /\ at[s][c] = Len(Program[c]) + 1
    BY <2>7 DEF RunnerReady
  <2>8. CASE pc[s][c] = "update" /\ at[s][c] # Len(Program[c]) + 1
    <3>1. at[s][c] \in DOMAIN Program[c] /\ Program[c][at[s][c]] \in Instructions
      BY <2>1, <2>5, <2>8 DEF History, Course
    <3>2. CASE ~AtInstruction(s, c, "fan")
      BY <2>2, <2>8, <3>1, <3>2 DEF RunnerReady, AtInstruction, Instructions
    <3>3. CASE AtInstruction(s, c, "fan")
      <4>1. ASSUME NEW k \in LiveKids(s, c) PROVE KidReady(s, c, k) /\ k \in Sites
        BY <2>2, <4>1 DEF LiveKids, KidLive, KidReady
      <4>2. CASE LiveKids(s, c) = {}
        <5>1. WaitReturns(kwg[s][c])
          BY <2>1, <4>2, FS_EmptySet DEF FanCounts, WaitReturns
        <5>2. LoopReady(s, c)
          BY <2>1, <2>2, <5>1 DEF LoopReady
        <5>3. QED
          BY <3>3, <5>2 DEF RunnerReady
      <4>3. QED
        BY <4>1, <4>2
    <3>4. QED
      BY <3>2, <3>3
  <2>9. QED
    BY <2>6, <2>7, <2>8
<1>2. QED
  BY <1>1, SpecOInv, PTL

-----------------------------------------------------------------------------
(* What a scrape has ahead is finite.                                      *)

\* The values of a function on a finite set.
LEMMA FiniteImage ==
  ASSUME NEW S, IsFiniteSet(S), NEW f, DOMAIN f = S, f = [x \in S |-> f[x]]
  PROVE  IsFiniteSet({f[x] : x \in S})
<1> DEFINE T == {f[x] : x \in S}
<1>1. f \in Surjection(S, T)
  BY DEF Surjection
<1>2. QED
  BY <1>1, FS_Surjection

\* The union of finitely many finite sets that are given one by one.
LEMMA FiniteUnion ==
  ASSUME NEW S, IsFiniteSet(S), NEW f, f = [x \in S |-> f[x]], \A x \in S : IsFiniteSet(f[x])
  PROVE  IsFiniteSet(UNION {f[x] : x \in S})
<1>1. DOMAIN f = S
  OBVIOUS
<1>2. IsFiniteSet({f[x] : x \in S})
  BY <1>1, FiniteImage
<1>3. QED
  BY <1>2, FS_UNION

\* There are finitely many metrics.
LEMMA FiniteMetrics == IsFiniteSet(Metrics)
<1> DEFINE Records(K, N) == [kind : K, from : Collectors, n : N]
<1>1. ASSUME NEW K, NEW N, IsFiniteSet(K), IsFiniteSet(N) PROVE IsFiniteSet(Records(K, N))
  <2> DEFINE Pairs == K \X Collectors
             f == [r \in Records(K, N) |-> <<<<r.kind, r.from>>, r.n>>]
  <2>1. IsFiniteSet(Pairs \X N)
    BY <1>1, CollectorsAssumption, FS_Product
  <2>2. f \in [Records(K, N) -> Pairs \X N]
    OBVIOUS
  <2>3. ASSUME NEW a \in Records(K, N), NEW b \in Records(K, N), f[a] = f[b] PROVE a = b
    BY <2>3
  <2>4. f \in Injection(Records(K, N), Pairs \X N)
    BY <2>2, <2>3 DEF Injection, IsInjective
  <2>5. QED
    BY <2>1, <2>4, FS_Injection
<1>p. ASSUME NEW x, NEW y PROVE IsFiniteSet({x, y})
  <2>1. IsFiniteSet({x}) /\ IsFiniteSet({y}) /\ {x, y} = {x} \cup {y}
    BY FS_Singleton
  <2>2. QED
    BY <2>1, FS_Union
<1>2. IsFiniteSet(Records({"site", "kid"}, Sites))
  BY <1>1, <1>p, SitesAssumption
<1>3. IsFiniteSet(Records({"duration", "up"}, {0, 1}))
  BY <1>1, <1>p
<1>4. IsFiniteSet(UNION {{Sample("data", c, i) : i \in DOMAIN Program[c]} : c \in Collectors})
  <2> DEFINE data(c) == [i \in DOMAIN Program[c] |-> Sample("data", c, i)]
             all == [c \in Collectors |-> {Sample("data", c, i) : i \in DOMAIN Program[c]}]
  <2>1. ASSUME NEW c \in Collectors PROVE IsFiniteSet({Sample("data", c, i) : i \in DOMAIN Program[c]})
    <3>1. Len(Program[c]) \in Nat /\ DOMAIN Program[c] = 1 .. Len(Program[c])
      BY ProgramAssumption
    <3>2. IsFiniteSet(DOMAIN Program[c])
      BY <3>1, FS_Interval
    <3>3. IsFiniteSet({data(c)[i] : i \in DOMAIN Program[c]})
      BY <3>2, FiniteImage
    <3>4. QED
      BY <3>3
  <2> HIDE DEF data
  <2>2. \A c \in Collectors : IsFiniteSet(all[c])
    BY <2>1
  <2>3. all = [c \in Collectors |-> all[c]] /\ \A c \in Collectors :
           all[c] = {Sample("data", c, i) : i \in DOMAIN Program[c]}
    OBVIOUS
  <2> HIDE DEF all
  <2>4. IsFiniteSet(UNION {all[c] : c \in Collectors})
    BY <2>2, <2>3, CollectorsAssumption, FiniteUnion
  <2>5. QED
    BY <2>3, <2>4
<1>5. QED
  BY <1>2, <1>3, <1>4, FS_Singleton, FS_Union DEF Metrics

\* What any scrape has ahead of it is finite, in every respect.
THEOREM AheadFinite ==
  ASSUME TypeOK, NEW s \in Scrapes
  PROVE  \A f \in DOMAIN Ahead(s) : IsFiniteSet(Ahead(s)[f])
<1>1. /\ IsFiniteSet(DOMAIN PhaseOrder) /\ IsFiniteSet(DOMAIN PCOrder)
      /\ IsFiniteSet(DOMAIN KidOrder)
  <2>1. /\ DOMAIN PhaseOrder = 1 .. 8 /\ DOMAIN PCOrder = 1 .. 6 /\ DOMAIN KidOrder = 1 .. 8
    BY DEF PhaseOrder, PCOrder, KidOrder
  <2>2. 1 \in Int /\ 6 \in Int /\ 8 \in Int
    OBVIOUS
  <2>3. IsFiniteSet(1 .. 8) /\ IsFiniteSet(1 .. 6)
    BY <2>2, FS_Interval, Zenon
  <2>4. QED
    BY <2>1, <2>3
<1>2. IsFiniteSet(Later(PhaseOrder, phase[s]))
  BY <1>1, FS_Subset DEF Later
<1>3. IsFiniteSet({x \in Collectors \X DOMAIN PCOrder : x[2] \in Later(PCOrder, pc[s][x[1]])})
  <2>1. IsFiniteSet(Collectors \X DOMAIN PCOrder)
    BY <1>1, CollectorsAssumption, FS_Product
  <2>2. QED
    BY <2>1, FS_Subset
<1>4. IsFiniteSet(UNION {{<<c, i>> : i \in at[s][c] .. Len(Program[c])} : c \in Collectors})
  <2> DEFINE all == [c \in Collectors |-> {<<c, i>> : i \in at[s][c] .. Len(Program[c])}]
  <2>1. ASSUME NEW c \in Collectors PROVE IsFiniteSet(all[c])
    <3>1. at[s][c] \in Int /\ Len(Program[c]) \in Int
      BY ProgramAssumption DEF TypeOK
    <3>2. IsFiniteSet(at[s][c] .. Len(Program[c]))
      BY <3>1, FS_Interval
    <3>3. IsFiniteSet({c} \X (at[s][c] .. Len(Program[c])))
      BY <3>2, FS_Singleton, FS_Product
    <3>4. all[c] \subseteq {c} \X (at[s][c] .. Len(Program[c]))
      OBVIOUS
    <3>5. QED
      BY <3>3, <3>4, FS_Subset
  <2>2. all = [c \in Collectors |-> all[c]] /\ \A c \in Collectors :
           all[c] = {<<c, i>> : i \in at[s][c] .. Len(Program[c])}
    OBVIOUS
  <2> HIDE DEF all
  <2>3. IsFiniteSet(UNION {all[c] : c \in Collectors})
    BY <2>1, <2>2, CollectorsAssumption, FiniteUnion
  <2>4. UNION {all[c] : c \in Collectors}
          = UNION {{<<c, i>> : i \in at[s][c] .. Len(Program[c])} : c \in Collectors}
    BY <2>2
  <2>5. QED
    BY <2>3, <2>4
<1>5. IsFiniteSet({x \in Collectors \X Sites \X DOMAIN KidOrder :
                     x[3] \in Later(KidOrder, kid[s][x[1]][x[2]])})
  <2> DEFINE T == Collectors \X Sites \X DOMAIN KidOrder
             P == (Collectors \X Sites) \X DOMAIN KidOrder
             f == [x \in T |-> <<<<x[1], x[2]>>, x[3]>>]
  <2>1. IsFiniteSet(P)
    BY <1>1, CollectorsAssumption, SitesAssumption, FS_Product
  <2>2. f \in [T -> P]
    OBVIOUS
  <2>3. ASSUME NEW a \in T, NEW b \in T, f[a] = f[b] PROVE a = b
    BY <2>3
  <2>4. f \in Injection(T, P)
    BY <2>2, <2>3 DEF Injection, IsInjective
  <2>5. IsFiniteSet(T)
    BY <2>1, <2>4, FS_Injection
  <2>6. QED
    BY <2>5, FS_Subset
<1>6. IsFiniteSet({x \in Collectors \X Sites : x[2] \notin sent[s][x[1]]})
  <2>1. IsFiniteSet(Collectors \X Sites)
    BY CollectorsAssumption, SitesAssumption, FS_Product
  <2>2. QED
    BY <2>1, FS_Subset
<1>7. IsFiniteSet(Metrics \ got[s])
  BY FiniteMetrics, FS_Subset
<1>8. /\ IsFiniteSet(Ahead(s).phases) /\ IsFiniteSet(Ahead(s).metrics)
      /\ IsFiniteSet(Ahead(s).sites)
  BY <1>2, <1>6, <1>7 DEF Ahead
<1>9. IsFiniteSet(Ahead(s).pcs)
  BY <1>3 DEF Ahead
<1>10. IsFiniteSet(Ahead(s).steps)
  BY <1>4 DEF Ahead
<1>11. IsFiniteSet(Ahead(s).kids)
  BY <1>5 DEF Ahead
<1>12. DOMAIN Ahead(s) = {"phases", "pcs", "steps", "kids", "sites", "metrics"}
  BY DEF Ahead
<1>13. QED
  BY <1>8, <1>9, <1>10, <1>11, <1>12

\* How much that is.
Remaining(s) ==
  Cardinality(Ahead(s).phases) + Cardinality(Ahead(s).pcs) + Cardinality(Ahead(s).steps)
    + Cardinality(Ahead(s).kids) + Cardinality(Ahead(s).sites) + Cardinality(Ahead(s).metrics)

\* It is a number, and taking from a record of finite sets makes it smaller.
LEMMA RemainingShrinks ==
  ASSUME TypeOK, TypeOK', NEW s \in Scrapes
  PROVE  /\ Remaining(s) \in Nat
         /\ Shrinks(Ahead(s), Ahead(s)') => Remaining(s)' < Remaining(s)
         /\ Ahead(s)' = Ahead(s) => Remaining(s)' = Remaining(s)
<1> DEFINE a == Ahead(s)
           b == Ahead(s)'
           Fields == {"phases", "pcs", "steps", "kids", "sites", "metrics"}
<1>1. DOMAIN a = Fields /\ DOMAIN b = Fields /\ a = [f \in Fields |-> a[f]] /\ b = [f \in Fields |-> b[f]]
  BY DEF Ahead
<1>2. /\ \A f \in Fields : IsFiniteSet(a[f])
  BY <1>1, AheadFinite
<1> HIDE DEF a, b
<1>3. \A f \in Fields : Cardinality(a[f]) \in Nat
  BY <1>2, FS_CardinalityType
<1>4. ASSUME Shrinks(a, b), NEW f \in Fields
      PROVE  /\ Cardinality(b[f]) \in Nat /\ Cardinality(b[f]) <= Cardinality(a[f])
             /\ Cardinality(b[f]) = Cardinality(a[f]) => b[f] = a[f]
  <2>1. b[f] \subseteq a[f] /\ IsFiniteSet(a[f])
    BY <1>1, <1>2, <1>4 DEF Shrinks
  <2>2. /\ IsFiniteSet(b[f]) /\ Cardinality(b[f]) <= Cardinality(a[f])
        /\ Cardinality(a[f]) = Cardinality(b[f]) => a[f] = b[f]
    BY <2>1, FS_Subset
  <2>3. QED
    BY <2>2, FS_CardinalityType
<1>5. ASSUME Shrinks(a, b) PROVE \E f \in Fields : Cardinality(b[f]) # Cardinality(a[f])
  <2>1. PICK f \in Fields : a[f] # b[f]
    BY <1>1, <1>5 DEF Shrinks
  <2>2. QED
    BY <1>4, <1>5, <2>1
<1> DEFINE Sum(r) == Cardinality(r.phases) + Cardinality(r.pcs) + Cardinality(r.steps)
                       + Cardinality(r.kids) + Cardinality(r.sites) + Cardinality(r.metrics)
<1>6. Remaining(s) = Sum(a) /\ Remaining(s)' = Sum(b)
  BY DEF Remaining, a, b
<1>7. Sum(a) \in Nat
  BY <1>3
<1>8. ASSUME Shrinks(a, b) PROVE Sum(b) < Sum(a)
  <2>1. \A f \in Fields : /\ Cardinality(b[f]) \in Nat /\ Cardinality(a[f]) \in Nat
                          /\ Cardinality(b[f]) <= Cardinality(a[f])
    BY <1>3, <1>4, <1>8
  <2>2. \E f \in Fields : Cardinality(b[f]) < Cardinality(a[f])
    BY <1>5, <1>8, <2>1
  <2>3. QED
    BY <2>1, <2>2
<1>9. QED
  BY <1>6, <1>7, <1>8 DEF a, b

\* Every step takes at least one from a number that its scrape started with:
\* no execution gives a scrape more steps than that, whatever FRR answers and
\* whichever goroutine runs first.
THEOREM ScrapesEnd ==
  Spec => [][\E s \in Scrapes : /\ Remaining(s) \in Nat /\ Remaining(s)' < Remaining(s)
                                /\ \A r \in Scrapes \ {s} : Remaining(r)' = Remaining(r)]_vars
<1> DEFINE Fewer == \E s \in Scrapes : /\ Remaining(s) \in Nat /\ Remaining(s)' < Remaining(s)
                                       /\ \A r \in Scrapes \ {s} : Remaining(r)' = Remaining(r)
<1>1. OInv /\ [Next]_vars => Fewer \/ UNCHANGED vars
  <2> SUFFICES ASSUME OInv, [Next]_vars, NEW s \in Scrapes, StepOf(s) PROVE Fewer
    <3>1. OInv /\ [Next]_vars => TypeOK'
      BY NextOInv DEF OInv, HInv, IInv
    <3>2. QED
      BY <3>1, OneStep
  <2>1. TypeOK /\ TypeOK'
    BY NextOInv DEF OInv, HInv, IInv
  <2>2. Shrinks(Ahead(s), Ahead(s)')
    BY <2>1, OnwardShrinks DEF StepOf
  <2>3. \A r \in Scrapes \ {s} : Ahead(r)' = Ahead(r)
    BY StaysAhead DEF StepOf
  <2>4. QED
    BY <2>1, <2>2, <2>3, RemainingShrinks
<1>2. QED
  BY <1>1, SpecOInv, PTL DEF Spec

-----------------------------------------------------------------------------
(* Scrape implements the safety part of ScrapeService.                     *)

\* The reply of a scrape that is served keeps the two bounds, and has one
\* verdict per collector.
LEMMA GoodReply ==
  ASSUME HInv, NEW s \in Scrapes, phase[s] \in {"closed", "served"}, chan[s] = <<>>
  PROVE  /\ prior[s] < total[s] /\ total[s] <= Cardinality(Arrived)
         /\ \A c \in Collectors : UpOf(s, c) = {Success(s, c)} /\ Success(s, c) \in {0, 1}
<1>1. Out(s) = got[s] /\ Totals(s) /\ IInv
  BY DEF Out, HInv, Counts
<1>2. prior[s] < total[s] /\ total[s] <= Cardinality(Arrived)
  BY <1>1 DEF Totals
<1>3. ASSUME NEW c \in Collectors
      PROVE  UpOf(s, c) = {Success(s, c)} /\ Success(s, c) \in {0, 1}
  <2>1. pc[s][c] = "done"
    BY <1>1, CountsSplit DEF IInv, ScrapeCounts, LatePhases, Unfinished
  <2>2. Verdict(s, c) /\ \A m \in {0, 1} : Sample("up", c, m) \in From(s, c) <=>
                                             Sample("up", c, m) \in got[s]
    BY <1>1 DEF HInv, Histories, History, From, Sample
  <2>3. Success(s, c) \in {0, 1}
    BY DEF Success
  <2>4. QED
    BY <2>1, <2>2, <2>3 DEF Verdict, UpOf
<1>4. QED
  BY <1>2, <1>3

\* So the scrapes that are served are those that the service has answered.
LEMMA ServedAnswered ==
  ASSUME HInv
  PROVE  Service!Answered = {s \in Scrapes : phase[s] = "served"}
<1>1. ASSUME NEW s \in Scrapes, phase[s] = "served" PROVE Replies[s] # NoReply
  <2>1. prior[s] < total[s] /\ prior[s] \in Nat /\ total[s] \in Nat
    BY <1>1, GoodReply DEF HInv, IInv, TypeOK, Counts, Totals
  <2>2. Replies[s].total = total[s] /\ NoReply.total = 0
    BY <1>1 DEF Replies, Reply, NoReply
  <2>3. QED
    BY <2>1, <2>2
<1>2. ASSUME NEW s \in Scrapes, phase[s] # "served" PROVE Replies[s] = NoReply
  BY <1>2 DEF Replies
<1>3. Service!NoReply = NoReply
  BY DEF Service!NoReply, NoReply
<1>4. QED
  BY <1>1, <1>2, <1>3 DEF Service!Answered

\* What the service sees of a step that changes nothing of what it sees.
LEMMA Unseen ==
  ASSUME UNCHANGED <<phase, prior>>,
         \A r \in Scrapes : phase[r] = "served" => got'[r] = got[r] /\ total'[r] = total[r]
  PROVE  UNCHANGED <<Arrived, prior, Replies>>
<1>1. Arrived' = Arrived
  BY DEF Arrived
<1>2. \A r \in Scrapes, c \in Collectors : phase[r] = "served" => UpOf(r, c)' = UpOf(r, c)
  BY DEF UpOf, Sample
<1>3. \A r \in Scrapes : phase[r] = "served" => Reply(r)' = Reply(r)
  BY <1>2 DEF Reply
<1>4. NoReply' = NoReply
  BY DEF NoReply
<1>5. Replies' = Replies
  BY <1>3, <1>4 DEF Replies
<1>6. QED
  BY <1>1, <1>5

\* A step of Collect or of the registry towards a reply, seen from outside.
LEMMA PhaseUnseen ==
  ASSUME TypeOK, NEW s \in Scrapes, NEW l \in Phases \ {"idle", "served"},
         phase[s] \notin {"idle", "served"}, phase' = [phase EXCEPT ![s] = l],
         UNCHANGED <<prior, got, total>>
  PROVE  UNCHANGED <<Arrived, prior, Replies>>
<1>1. /\ \A r \in Scrapes : phase'[r] = "served" <=> phase[r] = "served"
      /\ \A r \in Scrapes : phase'[r] = "idle" <=> phase[r] = "idle"
  BY DEF TypeOK
<1>2. Arrived' = Arrived
  BY <1>1 DEF Arrived
<1>3. \A r \in Scrapes : Reply(r)' = Reply(r)
  BY DEF Reply, UpOf, Sample
<1>4. NoReply' = NoReply
  BY DEF NoReply
<1>5. Replies' = Replies
  BY <1>1, <1>3, <1>4 DEF Replies
<1>6. QED
  BY <1>2, <1>5

\* The service counts with an operator that it takes from FiniteSets itself.
LEMMA SameCardinality == \A S : Service!Cardinality(S) = Cardinality(S)
BY DEF Service!Cardinality, Cardinality

\* Every step is one of the service, or none.
LEMMA StepServes == HInv /\ [Next]_vars => [Service!Next]_<<Arrived, prior, Replies>>
<1> SUFFICES ASSUME HInv, [Next]_vars PROVE [Service!Next]_<<Arrived, prior, Replies>>
  OBVIOUS
<1>1. TypeOK /\ BarrierCounts /\ phase \in [Scrapes -> Phases]
      /\ \A s \in Scrapes : phase[s] = "served" => chan[s] = <<>>
  BY DEF HInv, IInv, TypeOK, Counts, Totals
<1> USE DEF collectVars, registryVars
<1>2. ASSUME NEW s \in Scrapes, Request(s) PROVE Service!Next
  <2>1. /\ phase[s] = "idle" /\ phase' = [phase EXCEPT ![s] = "inc"] /\ UNCHANGED <<got, total>>
        /\ prior' = [prior EXCEPT ![s] = Cardinality(Service!Answered)]
    BY <1>2, ServedAnswered DEF Request
  <2>2. s \notin Arrived /\ Arrived' = Arrived \cup {s}
    BY <1>1, <2>1 DEF Arrived
  <2>3. Replies' = Replies
    <3>1. \A r \in Scrapes : phase'[r] = "served" <=> phase[r] = "served"
      BY <1>1, <2>1
    <3>2. \A r \in Scrapes : Reply(r)' = Reply(r)
      BY <2>1 DEF Reply, UpOf, Sample
    <3>3. NoReply' = NoReply
      BY DEF NoReply
    <3>4. QED
      BY <3>1, <3>2, <3>3 DEF Replies
  <2>4. Service!Request(s)
    BY <2>1, <2>2, <2>3, SameCardinality DEF Service!Request
  <2>5. QED
    BY <2>4 DEF Service!Next
<1>3. ASSUME NEW s \in Scrapes, Respond(s) PROVE Service!Next
  <2>1. /\ phase[s] = "closed" /\ chan[s] = <<>> /\ phase' = [phase EXCEPT ![s] = "served"]
        /\ UNCHANGED <<prior, got, total>>
    BY <1>3 DEF Respond
  <2>2. Arrived' = Arrived /\ s \in Arrived
    BY <1>1, <2>1 DEF Arrived
  <2>3. s \notin Service!Answered
    BY <2>1, ServedAnswered
  <2>4. total[s] \in prior[s] + 1 .. Cardinality(Arrived)
    <3>1. /\ prior[s] < total[s] /\ total[s] <= Cardinality(Arrived)
          /\ prior[s] \in Nat /\ total[s] \in Nat /\ Cardinality(Arrived) \in Nat
      BY <1>1, <2>1, GoodReply, CountedSets DEF TypeOK
    <3>2. QED
      BY <3>1
  <2> DEFINE verdict == [c \in Collectors |-> Success(s, c)]
             answer  == [total |-> total[s], up |-> [c \in Collectors |-> {verdict[c]}]]
  <2>5. verdict \in [Collectors -> {0, 1}]
    BY <2>1, GoodReply
  <2>6. Reply(s)' = answer
    <3>1. \A c \in Collectors : UpOf(s, c)' = {verdict[c]}
      BY <2>1, GoodReply DEF UpOf, Sample
    <3>2. QED
      BY <2>1, <3>1 DEF Reply
  <2>7. Replies' = [Replies EXCEPT ![s] = answer]
    <3>1. /\ phase'[s] = "served"
          /\ \A r \in Scrapes \ {s} : phase'[r] = phase[r]
      BY <1>1, <2>1
    <3>2. \A r \in Scrapes \ {s} : Reply(r)' = Reply(r)
      BY <2>1 DEF Reply, UpOf, Sample
    <3>3. NoReply' = NoReply
      BY DEF NoReply
    <3>4. Replies'[s] = answer /\ \A r \in Scrapes \ {s} : Replies'[r] = Replies[r]
      BY <2>6, <3>1, <3>2, <3>3 DEF Replies
    <3>5. DOMAIN Replies = Scrapes /\ DOMAIN Replies' = Scrapes
      BY DEF Replies
    <3>6. Replies' = [r \in Scrapes |-> Replies'[r]] /\ Replies = [r \in Scrapes |-> Replies[r]]
      BY DEF Replies
    <3>7. QED
      BY <3>4, <3>5, <3>6
  <2>8. Service!Answer(s)
    <3>1. total[s] \in prior[s] + 1 .. Service!Cardinality(Arrived)
      BY <2>4, SameCardinality
    <3>2. /\ s \in Arrived \ Service!Answered /\ UNCHANGED <<Arrived, prior>>
          /\ Replies' = [Replies EXCEPT ![s] = [total |-> total[s],
                                               up |-> [c \in Collectors |-> {verdict[c]}]]]
      BY <2>1, <2>2, <2>3, <2>7
    <3>3. QED
      BY <2>5, <3>1, <3>2 DEF Service!Answer
  <2>9. QED
    BY <2>8 DEF Service!Next
<1>4. ASSUME NEW s \in Scrapes, Receive(s) PROVE UNCHANGED <<Arrived, prior, Replies>>
  <2>1. phase[s] # "served" /\ UNCHANGED <<phase, prior>>
    BY <1>1, <1>4 DEF Receive
  <2>2. \A r \in Scrapes \ {s} : got'[r] = got[r] /\ total'[r] = total[r]
    BY <1>1, <1>4 DEF Receive, TypeOK
  <2>3. QED
    BY <2>1, <2>2, Unseen
<1>5. ASSUME NEW s \in Scrapes, CloseChan(s) \/ Collect(s)
      PROVE  UNCHANGED <<Arrived, prior, Replies>>
  <2>1. \E l \in Phases \ {"idle", "served"} :
          phase' = [phase EXCEPT ![s] = l] /\ phase[s] \notin {"idle", "served"}
    BY <1>5 DEF CloseChan, Collect, Inc, SendTotal, AddAll, WaitAll, Phases
  <2>2. UNCHANGED <<prior, got, total>>
    BY <1>5 DEF CloseChan, Collect, Inc, SendTotal, AddAll, WaitAll
  <2>3. QED
    BY <1>1, <2>1, <2>2, PhaseUnseen
<1>6. ASSUME NEW s \in Scrapes, NEW c \in Collectors,
             Spawn(s, c) \/ runCollector(s, c) \/ \E k \in Sites : Kid(s, c, k)
      PROVE  UNCHANGED <<Arrived, prior, Replies>>
  <2>1. UNCHANGED <<phase, prior, got, total>>
    BY <1>6 DEF Spawn, runCollector, Ask, Try, Emit, Fork, SendSite, FanJoin, Return,
                SendDuration, SendVerdict, Exit, Kid, KidAsk, KidSend, KidExit
  <2>2. QED
    BY <2>1, Unseen
<1>7. CASE AllServed \/ UNCHANGED vars
  <2>1. UNCHANGED <<phase, prior, got, total>>
    BY <1>7 DEF AllServed, vars
  <2>2. QED
    BY <2>1, Unseen
<1>8. QED
  BY <1>2, <1>3, <1>4, <1>5, <1>6, <1>7 DEF Next, Registry

\* A request is answered once, with one verdict per collector and a total
\* between the service's bounds.
THEOREM Refinement == Spec => Service!Init /\ [][Service!Next]_<<Arrived, prior, Replies>>
<1>1. Init => Service!Init
  <2> SUFFICES ASSUME Init PROVE Service!Init
    OBVIOUS
  <2>1. Arrived = {} /\ prior = [s \in Scrapes |-> 0]
    BY DEF Init, Arrived
  <2>2. Replies = [s \in Scrapes |-> Service!NoReply]
    BY DEF Init, Replies, NoReply, Service!NoReply
  <2>3. QED
    BY <2>1, <2>2 DEF Service!Init
<1>2. QED
  BY <1>1, SpecHInv, StepServes, PTL DEF Spec

-----------------------------------------------------------------------------
(* Scrape implements the safety part of UpdateService.                     *)

\* What Update of c has sent is what was sent and carries its name.
LEMMA SentByUpdateOut ==
  \A s \in Scrapes, c \in Collectors :
    SentByUpdate(s, c) = {m \in Out(s) : m.from = c /\ m.kind \in {"data", "site", "kid"}}
BY DEF SentByUpdate, Out

\* A step that touches one Update at most, and that one as the promise allows.
LEMMA PromiseStep ==
  ASSUME NEW s \in Scrapes, NEW c \in Collectors,
         \A r \in Scrapes, d \in Collectors : r # s \/ d # c =>
           Outcome(r, d)' = Outcome(r, d) /\ SentByUpdate(r, d)' = SentByUpdate(r, d),
         \/ Outcome(s, c) = "none" /\ Outcome(s, c)' = "running"
              /\ SentByUpdate(s, c)' = SentByUpdate(s, c)
         \/ Outcome(s, c) = "running" /\ Outcome(s, c)' \in {"running", "ok", "err"}
              /\ SentByUpdate(s, c) \subseteq SentByUpdate(s, c)'
         \/ Outcome(s, c)' = Outcome(s, c) /\ SentByUpdate(s, c)' = SentByUpdate(s, c)
  PROVE  [Promise!Next]_<<Outcomes, SentByUpdates>>
<1> DEFINE u == <<s, c>>
           Runs == Scrapes \X Collectors
<1>1. u \in Runs /\ u[1] = s /\ u[2] = c
  OBVIOUS
<1>2. /\ Outcomes[u] = Outcome(s, c) /\ SentByUpdates[u] = SentByUpdate(s, c)
      /\ Outcomes'[u] = Outcome(s, c)' /\ SentByUpdates'[u] = SentByUpdate(s, c)'
  BY <1>1 DEF Outcomes, SentByUpdates
<1>3. \A v \in Runs \ {u} : Outcomes'[v] = Outcomes[v] /\ SentByUpdates'[v] = SentByUpdates[v]
  <2> SUFFICES ASSUME NEW v \in Runs \ {u}
               PROVE  Outcomes'[v] = Outcomes[v] /\ SentByUpdates'[v] = SentByUpdates[v]
    OBVIOUS
  <2>1. v[1] \in Scrapes /\ v[2] \in Collectors /\ (v[1] # s \/ v[2] # c)
    OBVIOUS
  <2>2. Outcome(v[1], v[2])' = Outcome(v[1], v[2])
        /\ SentByUpdate(v[1], v[2])' = SentByUpdate(v[1], v[2])
    BY <2>1
  <2>3. QED
    BY <2>2 DEF Outcomes, SentByUpdates
<1>4. /\ DOMAIN Outcomes = Runs /\ DOMAIN Outcomes' = Runs
      /\ DOMAIN SentByUpdates = Runs /\ DOMAIN SentByUpdates' = Runs
      /\ Outcomes = [v \in Runs |-> Outcomes[v]] /\ Outcomes' = [v \in Runs |-> Outcomes'[v]]
      /\ SentByUpdates = [v \in Runs |-> SentByUpdates[v]]
      /\ SentByUpdates' = [v \in Runs |-> SentByUpdates'[v]]
  BY DEF Outcomes, SentByUpdates
<1>5. Outcomes' = [Outcomes EXCEPT ![u] = Outcomes'[u]]
  BY <1>1, <1>3, <1>4
<1>6. SentByUpdates' = [SentByUpdates EXCEPT ![u] = SentByUpdates'[u]]
  BY <1>1, <1>3, <1>4
<1>7. /\ Outcomes'[u] = Outcomes[u] => Outcomes' = Outcomes
      /\ SentByUpdates'[u] = SentByUpdates[u] => SentByUpdates' = SentByUpdates
  <2>1. ASSUME Outcomes'[u] = Outcomes[u] PROVE Outcomes' = Outcomes
    <3>1. \A v \in Runs : Outcomes'[v] = Outcomes[v]
      BY <1>3, <2>1
    <3>2. QED
      BY <1>4, <3>1
  <2>2. ASSUME SentByUpdates'[u] = SentByUpdates[u] PROVE SentByUpdates' = SentByUpdates
    <3>1. \A v \in Runs : SentByUpdates'[v] = SentByUpdates[v]
      BY <1>3, <2>2
    <3>2. QED
      BY <1>4, <3>1
  <2>3. QED
    BY <2>1, <2>2
<1>8. CASE Outcome(s, c) = "none" /\ Outcome(s, c)' = "running"
             /\ SentByUpdate(s, c)' = SentByUpdate(s, c)
  <2>1. SentByUpdates' = SentByUpdates
    BY <1>2, <1>7, <1>8
  <2>2. Promise!Begin(u)
    BY <1>2, <1>5, <1>8, <2>1 DEF Promise!Begin
  <2>3. QED
    BY <1>1, <2>2 DEF Promise!Next
<1>9. CASE Outcome(s, c) = "running" /\ Outcome(s, c)' \in {"running", "ok", "err"}
             /\ SentByUpdate(s, c) \subseteq SentByUpdate(s, c)'
  <2>1. Promise!Adds(u)
    BY <1>2, <1>6, <1>9 DEF Promise!Adds
  <2>2. CASE Outcome(s, c)' = "running"
    <3>1. Outcomes' = Outcomes
      BY <1>2, <1>7, <1>9, <2>2
    <3>2. Promise!Send(u)
      BY <1>2, <1>9, <2>1, <3>1 DEF Promise!Send
    <3>3. QED
      BY <1>1, <3>2 DEF Promise!Next
  <2>3. CASE Outcome(s, c)' \in {"ok", "err"}
    <3>1. Promise!Return(u)
      BY <1>2, <1>5, <1>9, <2>1, <2>3 DEF Promise!Return, Promise!Results
    <3>2. QED
      BY <1>1, <3>1 DEF Promise!Next
  <2>4. QED
    BY <1>9, <2>2, <2>3
<1>10. CASE Outcome(s, c)' = Outcome(s, c) /\ SentByUpdate(s, c)' = SentByUpdate(s, c)
  BY <1>2, <1>7, <1>10
<1>11. QED
  BY <1>8, <1>9, <1>10

\* Where nothing is sent Update sends nothing.
LEMMA NothingSent ==
  ASSUME NEW s \in Scrapes, Out(s)' = Out(s), NEW c \in Collectors
  PROVE  SentByUpdate(s, c)' = SentByUpdate(s, c)
BY DEF SentByUpdate, Out

\* What is sent comes to what its own Update has sent, and to that of no other.
LEMMA SentOnce ==
  ASSUME TypeOK, NEW s \in Scrapes, NEW c \in Collectors, NEW m \in Samples,
         Send(s, m), UNCHANGED got, m.from = c
  PROVE  /\ SentByUpdate(s, c) \subseteq SentByUpdate(s, c)'
         /\ m.kind \in {"duration", "up"} => SentByUpdate(s, c)' = SentByUpdate(s, c)
         /\ \A r \in Scrapes, d \in Collectors : r # s \/ d # c =>
              SentByUpdate(r, d)' = SentByUpdate(r, d)
<1>1. Out(s)' = Out(s) \cup {m} /\ \A r \in Scrapes \ {s} : Out(r)' = Out(r)
  BY SendOut
<1>2. ASSUME NEW d \in Collectors
      PROVE  /\ SentByUpdate(s, d) \subseteq SentByUpdate(s, d)'
             /\ m.kind \in {"duration", "up"} \/ c # d =>
                  SentByUpdate(s, d)' = SentByUpdate(s, d)
  <2> DEFINE mine(S) == {x \in S : x.from = d /\ x.kind \in {"data", "site", "kid"}}
  <2>1. SentByUpdate(s, d) = mine(Out(s)) /\ SentByUpdate(s, d)' = mine(Out(s)')
    BY DEF SentByUpdate, Out
  <2>2. \A S : S \subseteq S \cup {m} /\ mine(S) \subseteq mine(S \cup {m})
    OBVIOUS
  <2>3. m.kind \in {"duration", "up"} \/ c # d => \A S : mine(S \cup {m}) = mine(S)
    OBVIOUS
  <2>4. QED
    BY <1>1, <2>1, <2>2, <2>3
<1>3. QED
  BY <1>1, <1>2, NothingSent

\* runCollector calls Update, which goes on, or returns; after that it sends
\* what is not Update's.
LEMMA runCollectorUpdates ==
  ASSUME IInv, Histories, NEW s \in Scrapes, NEW c \in Collectors, runCollector(s, c)
  PROVE  [Promise!Next]_<<Outcomes, SentByUpdates>>
<1>1. TypeOK /\ at[s][c] >= 1 /\ at[s][c] \in Nat
  BY NestedTypes DEF IInv, Histories, History, Course
<1>2. \A r \in Scrapes, d \in Collectors : r # s \/ d # c => Outcome(r, d)' = Outcome(r, d)
  BY <1>1, runCollectorElsewhere DEF Outcome
<1> USE DEF collectVars, registryVars, updateVars, fanVars
<1>3. CASE Ask(s, c) \/ Try(s, c) \/ (\E k \in Fanout[c] : Fork(s, c, k)) \/ FanJoin(s, c)
             \/ Return(s, c) \/ Exit(s, c)
  <2>1. UNCHANGED <<chan, got>>
    BY <1>3 DEF Ask, Try, Fork, FanJoin, Return, Exit
  <2>2. \A r \in Scrapes, d \in Collectors : SentByUpdate(r, d)' = SentByUpdate(r, d)
    BY <2>1, NothingSent DEF Out
  <2>3. \/ pc[s][c] = "update" /\ pc'[s][c] \in {"update", "duration"}
        \/ pc[s][c] = "exit" /\ pc'[s][c] = "done" /\ fail' = fail
    BY <1>1, <1>3, NestedTypes
       DEF Ask, Try, Fork, FanJoin, Return, Exit, Failed, Goto, Advance, AtInstruction
  <2>4. \/ Outcome(s, c) = "running" /\ Outcome(s, c)' \in {"running", "ok", "err"}
        \/ Outcome(s, c)' = Outcome(s, c)
    <3>1. CASE pc[s][c] = "update"
      <4>1. Outcome(s, c) = "running" /\ pc'[s][c] \in {"update", "duration"}
        BY <2>3, <3>1 DEF Outcome
      <4>2. Outcome(s, c)' \in {"running", "ok", "err"}
        BY <4>1 DEF Outcome
      <4>3. QED
        BY <4>1, <4>2
    <3>2. CASE pc[s][c] = "exit" /\ pc'[s][c] = "done" /\ fail' = fail
      BY <3>2 DEF Outcome
    <3>3. QED
      BY <2>3, <3>1, <3>2
  <2>5. QED
    BY <1>2, <2>2, <2>4, PromiseStep
<1>4. CASE Emit(s, c) \/ (\E k \in Fanout[c] : SendSite(s, c, k))
  <2>1. pc[s][c] = "update" /\ UNCHANGED <<pc, fail, got>>
    BY <1>4 DEF Emit, SendSite, AtInstruction, Advance
  <2>2. \E m \in Samples : m.from = c /\ Send(s, m)
    BY <1>1, <1>4, FanoutAssumption DEF Emit, SendSite, Sample, Samples
  <2>3. Outcome(s, c) = "running" /\ Outcome(s, c)' = "running"
    BY <2>1 DEF Outcome
  <2>4. QED
    BY <1>1, <1>2, <2>1, <2>2, <2>3, SentOnce, PromiseStep
<1>5. CASE SendDuration(s, c) \/ SendVerdict(s, c)
  <2>1. pc[s][c] \in {"duration", "verdict"} /\ pc'[s][c] \in {"verdict", "exit"} /\ UNCHANGED <<fail, got>>
    BY <1>1, <1>5, NestedTypes DEF SendDuration, SendVerdict, Goto
  <2>2. \E m \in Samples : m.from = c /\ m.kind \in {"duration", "up"} /\ Send(s, m)
    BY <1>5 DEF SendDuration, SendVerdict, Success, Sample, Samples
  <2>3. Outcome(s, c)' = Outcome(s, c)
    BY <2>1 DEF Outcome
  <2>4. QED
    BY <1>1, <1>2, <2>1, <2>2, <2>3, SentOnce, PromiseStep
<1>6. QED
  BY <1>3, <1>4, <1>5 DEF runCollector

\* A per-peer goroutine is only there while the Update that started it runs.
LEMMA KidUpdates ==
  ASSUME IInv, NEW s \in Scrapes, NEW c \in Collectors, NEW k \in Sites, Kid(s, c, k)
  PROVE  [Promise!Next]_<<Outcomes, SentByUpdates>>
<1>1. TypeOK /\ UNCHANGED <<got, pc, fail>>
  BY DEF IInv, Kid, KidAsk, KidSend, KidExit, registryVars, updateVars
<1>2. \A r \in Scrapes, d \in Collectors : Outcome(r, d)' = Outcome(r, d)
  BY <1>1 DEF Outcome
<1>3. CASE KidAsk(s, c, k) \/ KidExit(s, c, k)
  <2>1. \A r \in Scrapes, d \in Collectors : SentByUpdate(r, d)' = SentByUpdate(r, d)
    BY <1>1, <1>3, NothingSent DEF KidAsk, KidExit, Out
  <2>2. QED
    BY <1>2, <2>1, PromiseStep
<1>4. CASE KidSend(s, c, k)
  <2>1. k \in LiveKids(s, c)
    BY <1>4 DEF KidSend, LiveKids, KidLive
  <2>2. Outcome(s, c) = "running"
    BY <2>1 DEF IInv, BarrierCounts, AtInstruction, Outcome
  <2>3. \E m \in Samples : m.from = c /\ Send(s, m)
    BY <1>4 DEF KidSend, Sample, Samples
  <2>4. QED
    BY <1>1, <1>2, <2>2, <2>3, SentOnce, PromiseStep
<1>5. QED
  BY <1>3, <1>4 DEF Kid

\* Collect begins an Update; the registry and Collect do nothing else to one.
LEMMA OtherUpdates ==
  ASSUME IInv, NEW s \in Scrapes,
         \/ Request(s) \/ Registry(s) \/ Collect(s)
         \/ \E c \in Collectors : Spawn(s, c)
  PROVE  [Promise!Next]_<<Outcomes, SentByUpdates>>
<1>1. TypeOK
  BY DEF IInv
<1> USE DEF collectVars, registryVars, updateVars
<1>2. ASSUME NEW c \in Collectors, Spawn(s, c)
      PROVE  [Promise!Next]_<<Outcomes, SentByUpdates>>
  <2>1. \A r \in Scrapes, d \in Collectors : SentByUpdate(r, d)' = SentByUpdate(r, d)
    BY <1>2, NothingSent DEF Spawn, Out
  <2>2. /\ pc[s][c] = "unborn" /\ pc'[s][c] = "update" /\ UNCHANGED fail
        /\ \A r \in Scrapes, d \in Collectors : r # s \/ d # c => pc'[r][d] = pc[r][d]
    BY <1>1, <1>2, NestedTypes DEF Spawn, Goto
  <2>3. /\ Outcome(s, c) = "none" /\ Outcome(s, c)' = "running"
        /\ \A r \in Scrapes, d \in Collectors : r # s \/ d # c => Outcome(r, d)' = Outcome(r, d)
    BY <2>2 DEF Outcome
  <2>4. QED
    BY <2>1, <2>3, PromiseStep
<1>3. CASE Request(s) \/ Registry(s) \/ Collect(s)
  <2>1. UNCHANGED <<pc, fail>>
    BY <1>3 DEF Request, Registry, Receive, CloseChan, Respond, Collect, Inc, SendTotal, AddAll, WaitAll
  <2>2. ASSUME NEW r \in Scrapes, NEW d \in Collectors
        PROVE  SentByUpdate(r, d)' = SentByUpdate(r, d)
    <3>1. CASE UNCHANGED <<chan, got>>
      BY <3>1, NothingSent DEF Out
    <3>2. CASE Receive(s)
      BY <1>1, <3>2, ReceiveOut, NothingSent
    <3>3. CASE SendTotal(s)
      <4>1. TotalSample \in Samples /\ TotalSample.kind = "total"
        BY DEF TotalSample, Sample, Samples
      <4>2. Send(s, TotalSample) /\ UNCHANGED got
        BY <3>3 DEF SendTotal
      <4>3. Out(r)' = Out(r) \/ Out(r)' = Out(r) \cup {TotalSample}
        BY <1>1, <4>1, <4>2, SendOut
      <4>4. QED
        BY <4>1, <4>3 DEF SentByUpdate, Out
    <3>4. QED
      BY <1>3, <3>1, <3>2, <3>3
         DEF Request, Registry, CloseChan, Respond, Collect, Inc, AddAll, WaitAll
  <2>3. \A r \in Scrapes, d \in Collectors : Outcome(r, d)' = Outcome(r, d)
    BY <2>1 DEF Outcome
  <2>4. Outcomes' = Outcomes /\ SentByUpdates' = SentByUpdates
    BY <2>2, <2>3 DEF Outcomes, SentByUpdates
  <2>5. QED
    BY <2>4
<1>4. QED
  BY <1>2, <1>3

\* An Update sends only between its call and its return, however it returns and
\* whichever goroutines it started.
THEOREM PromiseKept == Spec => Promise!Init /\ [][Promise!Next]_<<Outcomes, SentByUpdates>>
<1>1. Init => Promise!Init
  <2> SUFFICES ASSUME Init PROVE Promise!Init
    OBVIOUS
  <2>1. \A s \in Scrapes, c \in Collectors : Outcome(s, c) = "none" /\ SentByUpdate(s, c) = {}
    BY DEF Init, Outcome, SentByUpdate
  <2>2. \A u \in Scrapes \X Collectors : Outcomes[u] = "none" /\ SentByUpdates[u] = {}
    BY <2>1 DEF Outcomes, SentByUpdates
  <2>3. Outcomes \in [Scrapes \X Collectors -> {"none", "running"}]
    BY <2>2 DEF Outcomes
  <2>4. SentByUpdates = [u \in Scrapes \X Collectors |-> {}]
    BY <2>2 DEF SentByUpdates
  <2>5. QED
    BY <2>3, <2>4 DEF Promise!Init
<1>2. HInv /\ [Next]_vars => [Promise!Next]_<<Outcomes, SentByUpdates>>
  <2> SUFFICES ASSUME HInv, [Next]_vars PROVE [Promise!Next]_<<Outcomes, SentByUpdates>>
    OBVIOUS
  <2>1. IInv /\ Histories
    BY DEF HInv
  <2>2. CASE UNCHANGED vars \/ AllServed
    <3>1. UNCHANGED <<pc, fail, chan, got>>
      BY <2>2 DEF AllServed, vars, registryVars, updateVars
    <3>2. Outcomes' = Outcomes /\ SentByUpdates' = SentByUpdates
      BY <3>1 DEF Outcomes, SentByUpdates, Outcome, SentByUpdate
    <3>3. QED
      BY <3>2
  <2>3. QED
    BY <2>1, <2>2, OtherUpdates, runCollectorUpdates, KidUpdates DEF Next
<1>3. QED
  BY <1>1, <1>2, SpecHInv, PTL DEF Spec

=============================================================================
