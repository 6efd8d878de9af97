------------------------------- MODULE Scrape -------------------------------
(***************************************************************************)
(* One HTTP scrape of the exporter and everything it starts: Collect, one  *)
(* runCollector goroutine per enabled collector (two nested WaitGroups and *)
(* one bounded metric channel), the goroutines processBGPSummary starts    *)
(* per peer, and the Prometheus registry that created the channel, drains  *)
(* it and closes it when Collect has returned.  Several scrapes may run at *)
(* the same time; they share frrTotalScrapeCount.                          *)
(*                                                                         *)
(* What a collector's Update does is Program[c], a sequence of             *)
(*   "ask"   a command, or the decoding of (part of) its output: on        *)
(*           failure Update returns an error,                              *)
(*   "try"   the same, but a failure is only recorded in the metric that   *)
(*           follows (the status collector),                               *)
(*   "emit"  newGauge / newCounter calls on what was decoded,              *)
(*   "fan"   the loop of processBGPSummary over the peers up to its        *)
(*           wg.Wait: Fanout[c] is the places of that loop (two a peer) at *)
(*           which a goroutine may be started.                             *)
(***************************************************************************)
EXTENDS Naturals, Sequences, FiniteSets

CONSTANTS Scrapes,      \* the requests that may ever arrive
          Collectors,   \* the names of the enabled collectors
          Sites,        \* the places where a per-peer goroutine may start
          Fanout,       \* Fanout[c]: those that Update of c passes
          Program,      \* Program[c]: the steps of Update of c
          Capacity      \* capacity of the registry's metric channel

Instructions == {"ask", "try", "emit", "fan"}

ASSUME ScrapesAssumption    == IsFiniteSet(Scrapes)
ASSUME CollectorsAssumption == IsFiniteSet(Collectors)
ASSUME SitesAssumption      == IsFiniteSet(Sites)
ASSUME FanoutAssumption     == Fanout \in [Collectors -> SUBSET Sites]
ASSUME ProgramAssumption    == Program \in [Collectors -> Seq(Instructions)]
ASSUME CapacityAssumption   == Capacity \in Nat \ {0}

VARIABLES
  scrapesTotal, \* the value of the global counter frrTotalScrapeCount
  phase,        \* phase[s]: where the request, Collect and the registry are
  wg,           \* wg[s]: the counter of Collect's WaitGroup
  chan,         \* chan[s]: the metrics buffered in the registry's channel
  got,          \* got[s]: the metrics the registry has taken from it
  total,        \* total[s]: scrapes_total as written into the reply
  prior,        \* prior[s]: requests answered when s arrived (observation)
  pc,           \* pc[s][c]: where runCollector of c is
  at,           \* at[s][c]: the step of Program[c] that Update is at
  fail,         \* fail[s][c]: the step that returned an error, 0 if none
  kwg,          \* kwg[s][c]: the counter of processBGPSummary's WaitGroup
  kid,          \* kid[s][c][k]: the goroutine that may be started at site k
  sent          \* sent[s][c]: the sites whose following metrics are sent

registryVars == <<got, total, prior>>
collectVars  == <<scrapesTotal, phase, wg>>
updateVars   == <<at, fail>>
fanVars      == <<kwg, kid, sent>>
vars == <<collectVars, chan, registryVars, pc, updateVars, fanVars>>

Phases   == {"idle", "inc", "announce", "add", "spawn",
             "returned", "closed", "served"}
PCs      == {"unborn", "update", "duration", "verdict", "exit", "done"}
KidLive  == {"run", "send", "exit", "fail"}
KidPCs   == KidLive \cup {"unborn", "none", "done", "lost"}

\* A metric on the channel, as far as the properties tell metrics apart.
Sample(kind, c, n) == [kind |-> kind, from |-> c, n |-> n]
Samples == [kind : {"total", "data", "site", "kid", "duration", "up"},
            from : Collectors \cup {"exporter"},
            n    : Sites \cup Nat]
TotalSample == Sample("total", "exporter", 0)

LiveKids(s, c) == {k \in Sites : kid[s][c][k] \in KidLive}
Unfinished(s)  == {c \in Collectors : pc[s][c] # "done"}

\* Update of c is at a step of its program, and that step is i.
AtInstruction(s, c, i) ==
  /\ pc[s][c] = "update"
  /\ at[s][c] \in DOMAIN Program[c]
  /\ Program[c][at[s][c]] = i

\* ch <- m: blocks while the channel is full.
HasRoom(n) == n < Capacity
Send(s, m) ==
  /\ HasRoom(Len(chan[s]))
  /\ chan' = [chan EXCEPT ![s] = Append(@, m)]

\* wg.Done() and the return of wg.Wait(), of either WaitGroup.
DoneForgotten(n) == n
DoneTwice(n)     == n - 2
Done(n)          == n - 1
WaitSkipped(n)   == TRUE
WaitReturns(n)   == n = 0

\* frrTotalScrapeCount.Inc()
CountedOnce(n) == IF n = 0 THEN 1 ELSE n
Counted(n)     == n + 1

Goto(s, c, l)  == pc' = [pc EXCEPT ![s][c] = l]
Advance(s, c)  == at' = [at EXCEPT ![s][c] = @ + 1] /\ UNCHANGED fail

Init ==
  /\ scrapesTotal = 0
  /\ phase = [s \in Scrapes |-> "idle"]
  /\ wg    = [s \in Scrapes |-> 0]
  /\ chan  = [s \in Scrapes |-> <<>>]
  /\ got   = [s \in Scrapes |-> {}]
  /\ total = [s \in Scrapes |-> 0]
  /\ prior = [s \in Scrapes |-> 0]
  /\ pc    = [s \in Scrapes |-> [c \in Collectors |-> "unborn"]]
  /\ at    = [s \in Scrapes |-> [c \in Collectors |-> 1]]
  /\ fail  = [s \in Scrapes |-> [c \in Collectors |-> 0]]
  /\ kwg   = [s \in Scrapes |-> [c \in Collectors |-> 0]]
  /\ kid   = [s \in Scrapes |-> [c \in Collectors |-> [k \in Sites |-> "unborn"]]]
  /\ sent  = [s \in Scrapes |-> [c \in Collectors |-> {}]]

-----------------------------------------------------------------------------
(* The registry (external), one Gather per HTTP request.                   *)

\* A request arrives: Gather makes the channel and starts Collect.
Request(s) ==
  /\ phase[s] = "idle"
  /\ phase' = [phase EXCEPT ![s] = "inc"]
  /\ prior' = [prior EXCEPT ![s] = Cardinality({r \in Scrapes : phase[r] = "served"})]
  /\ UNCHANGED <<scrapesTotal, wg, chan, got, total, pc, updateVars, fanVars>>

\* Gather takes a metric and writes it into the reply.  The scrape counter
\* travels as the counter itself: it is only read now.
Receive(s) ==
  /\ phase[s] # "idle"
  /\ chan[s] # <<>>
  /\ chan' = [chan EXCEPT ![s] = Tail(@)]
  /\ got' = [got EXCEPT ![s] = @ \cup {Head(chan[s])}]
  /\ total' = IF Head(chan[s]) = TotalSample
                THEN [total EXCEPT ![s] = scrapesTotal] ELSE total
  /\ UNCHANGED <<collectVars, prior, pc, updateVars, fanVars>>

\* Collect has returned: Gather closes the channel.
CloseChan(s) ==
  /\ phase[s] = "returned"
  /\ phase' = [phase EXCEPT ![s] = "closed"]
  /\ UNCHANGED <<scrapesTotal, wg, chan, registryVars, pc, updateVars, fanVars>>

\* The channel is closed and drained: the reply goes out.
Respond(s) ==
  /\ phase[s] = "closed"
  /\ chan[s] = <<>>
  /\ phase' = [phase EXCEPT ![s] = "served"]
  /\ UNCHANGED <<scrapesTotal, wg, chan, registryVars, pc, updateVars, fanVars>>

-----------------------------------------------------------------------------
(* Exporter.Collect.                                                       *)

\* The first statement of Collect.
Inc(s) ==
  /\ phase[s] = "inc"
  /\ scrapesTotal' = Counted(scrapesTotal)
  /\ phase' = [phase EXCEPT ![s] = "announce"]
  /\ UNCHANGED <<wg, chan, registryVars, pc, updateVars, fanVars>>

\* ch <- frrTotalScrapeCount
SendTotal(s) ==
  /\ phase[s] = "announce"
  /\ Send(s, TotalSample)
  /\ phase' = [phase EXCEPT ![s] = "add"]
  /\ UNCHANGED <<scrapesTotal, wg, registryVars, pc, updateVars, fanVars>>

\* wg.Add(len(e.Collectors))
AddAll(s) ==
  /\ phase[s] = "add"
  /\ wg' = [wg EXCEPT ![s] = @ + Cardinality(Collectors)]
  /\ phase' = [phase EXCEPT ![s] = "spawn"]
  /\ UNCHANGED <<scrapesTotal, chan, registryVars, pc, updateVars, fanVars>>

\* go runCollector(...), in the order the map is ranged over, any order.
Spawn(s, c) ==
  /\ phase[s] = "spawn"
  /\ pc[s][c] = "unborn"
  /\ Goto(s, c, "update")
  /\ UNCHANGED <<collectVars, chan, registryVars, updateVars, fanVars>>

\* wg.Wait() returns, and Collect with it.
WaitAll(s) ==
  /\ phase[s] = "spawn"
  /\ \A c \in Collectors : pc[s][c] # "unborn"
  /\ WaitReturns(wg[s])
  /\ phase' = [phase EXCEPT ![s] = "returned"]
  /\ UNCHANGED <<scrapesTotal, wg, chan, registryVars, pc, updateVars, fanVars>>

-----------------------------------------------------------------------------
(* runCollector, and the Update it calls.                                  *)

\* A failing step: Update returns the error.
FailedStartsOver(s, c) ==
  /\ at' = [at EXCEPT ![s][c] = 1]
  /\ UNCHANGED <<fail, pc>>
FailedButGoesOn(s, c) ==
  /\ fail' = [fail EXCEPT ![s][c] = at[s][c]]
  /\ at' = [at EXCEPT ![s][c] = @ + 1]
  /\ UNCHANGED pc
Failed(s, c) ==
  /\ fail' = [fail EXCEPT ![s][c] = at[s][c]]
  /\ Goto(s, c, "duration")
  /\ UNCHANGED at

\* A command and the decoding of its output.
Ask(s, c) ==
  /\ AtInstruction(s, c, "ask")
  /\ \/ Advance(s, c) /\ UNCHANGED pc
     \/ Failed(s, c)
  /\ UNCHANGED <<collectVars, chan, registryVars, fanVars>>

\* The same in the status collector, which turns a failure into a metric.
Try(s, c) ==
  /\ AtInstruction(s, c, "try")
  /\ Advance(s, c)
  /\ UNCHANGED <<collectVars, chan, registryVars, pc, fanVars>>

\* newGauge(ch, ...) and newCounter(ch, ...) on what was decoded.
Emit(s, c) ==
  /\ AtInstruction(s, c, "emit")
  /\ Send(s, Sample("data", c, at[s][c]))
  /\ Advance(s, c)
  /\ UNCHANGED <<collectVars, registryVars, pc, fanVars>>

\* The loop over the peers comes to a site: it starts a goroutine there
\* (wg.Add(1); go ...), or has no reason to.
Fork(s, c, k) ==
  /\ AtInstruction(s, c, "fan")
  /\ kid[s][c][k] = "unborn"
  /\ \A j \in Fanout[c] : kid[s][c][j] # "unborn" => j \in sent[s][c]
  /\ \/ /\ kid' = [kid EXCEPT ![s][c][k] = "run"]
        /\ kwg' = [kwg EXCEPT ![s][c] = @ + 1]
     \/ /\ kid' = [kid EXCEPT ![s][c][k] = "none"]
        /\ UNCHANGED kwg
  /\ UNCHANGED <<collectVars, chan, registryVars, pc, updateVars, sent>>

\* Then it sends the peer's own metrics that come after that site.
SendSite(s, c, k) ==
  /\ AtInstruction(s, c, "fan")
  /\ kid[s][c][k] # "unborn"
  /\ k \notin sent[s][c]
  /\ Send(s, Sample("site", c, k))
  /\ sent' = [sent EXCEPT ![s][c] = @ \cup {k}]
  /\ UNCHANGED <<collectVars, registryVars, pc, updateVars, kwg, kid>>

\* wg.Wait() of processBGPSummary.
FanJoin(s, c) ==
  /\ AtInstruction(s, c, "fan")
  /\ sent[s][c] = Fanout[c]
  /\ WaitReturns(kwg[s][c])
  /\ Advance(s, c)
  /\ UNCHANGED <<collectVars, chan, registryVars, pc, fanVars>>

\* Update returns nil.
Return(s, c) ==
  /\ pc[s][c] = "update"
  /\ at[s][c] = Len(Program[c]) + 1
  /\ Goto(s, c, "duration")
  /\ UNCHANGED <<collectVars, chan, registryVars, updateVars, fanVars>>

SendDuration(s, c) ==
  /\ pc[s][c] = "duration"
  /\ Send(s, Sample("duration", c, 0))
  /\ Goto(s, c, "verdict")
  /\ UNCHANGED <<collectVars, registryVars, updateVars, fanVars>>

\* success: 1 if Update returned nil, 0 otherwise.
SuccessIgnoresErr(s, c) == 1
Success(s, c) == IF fail[s][c] = 0 THEN 1 ELSE 0

SendVerdict(s, c) ==
  /\ pc[s][c] = "verdict"
  /\ Send(s, Sample("up", c, Success(s, c)))
  /\ Goto(s, c, "exit")
  /\ UNCHANGED <<collectVars, registryVars, updateVars, fanVars>>

\* The deferred wg.Done().
Exit(s, c) ==
  /\ pc[s][c] = "exit"
  /\ wg' = [wg EXCEPT ![s] = Done(@)]
  /\ Goto(s, c, "done")
  /\ UNCHANGED <<scrapesTotal, phase, chan, registryVars, updateVars, fanVars>>

-----------------------------------------------------------------------------
(* getPeerAdvertisedPrefixes and getPeerPrefixPresence.                    *)

KidGoto(s, c, k, l) == kid' = [kid EXCEPT ![s][c][k] = l]

\* Its commands and their decoding; an error is logged, nothing else.
KidAsk(s, c, k) ==
  /\ kid[s][c][k] = "run"
  /\ KidGoto(s, c, k, "send") \/ KidGoto(s, c, k, "fail")
  /\ UNCHANGED <<collectVars, chan, registryVars, pc, updateVars, kwg, sent>>

KidSend(s, c, k) ==
  /\ kid[s][c][k] = "send"
  /\ Send(s, Sample("kid", c, k))
  /\ KidGoto(s, c, k, "exit")
  /\ UNCHANGED <<collectVars, registryVars, pc, updateVars, kwg, sent>>

\* The deferred wg.Done(), on both paths.
KidExit(s, c, k) ==
  /\ kid[s][c][k] \in {"exit", "fail"}
  /\ KidGoto(s, c, k, IF kid[s][c][k] = "exit" THEN "done" ELSE "lost")
  /\ kwg' = [kwg EXCEPT ![s][c] = Done(@)]
  /\ UNCHANGED <<collectVars, chan, registryVars, pc, updateVars, sent>>

-----------------------------------------------------------------------------
Registry(s) == Receive(s) \/ CloseChan(s) \/ Respond(s)
Collect(s)  == Inc(s) \/ SendTotal(s) \/ AddAll(s) \/ WaitAll(s)
runCollector(s, c) ==
  \/ Ask(s, c) \/ Try(s, c) \/ Emit(s, c)
  \/ \E k \in Fanout[c] : Fork(s, c, k) \/ SendSite(s, c, k)
  \/ FanJoin(s, c) \/ Return(s, c)
  \/ SendDuration(s, c) \/ SendVerdict(s, c) \/ Exit(s, c)
Kid(s, c, k) == KidAsk(s, c, k) \/ KidSend(s, c, k) \/ KidExit(s, c, k)

\* Every request has been answered: the server waits for the next one.
AllServed ==
  /\ \A s \in Scrapes : phase[s] = "served"
  /\ UNCHANGED vars

Next ==
  \/ \E s \in Scrapes :
       \/ Request(s) \/ Registry(s) \/ Collect(s)
       \/ \E c \in Collectors :
            \/ Spawn(s, c) \/ runCollector(s, c)
            \/ \E k \in Sites : Kid(s, c, k)
  \/ AllServed

\* Every goroutine runs while it can.  A command returns: Ask and KidAsk are
\* fair because executeCmd sets a deadline on its connection.
Fairness ==
  \A s \in Scrapes :
    /\ WF_vars(Registry(s)) /\ WF_vars(Collect(s))
    /\ \A c \in Collectors :
         /\ WF_vars(Spawn(s, c)) /\ WF_vars(runCollector(s, c))
         /\ \A k \in Sites : WF_vars(Kid(s, c, k))

Spec == Init /\ [][Next]_vars /\ Fairness

-----------------------------------------------------------------------------
(* Correctness.                                                            *)

\* Every variable has its type, and the channel never holds more metrics
\* than the registry made room for: a goroutine that finds it full waits.
TypeOK ==
  /\ scrapesTotal \in Nat
  /\ phase \in [Scrapes -> Phases]
  /\ wg \in [Scrapes -> Nat]
  /\ chan \in [Scrapes -> Seq(Samples)]
  /\ \A s \in Scrapes : Len(chan[s]) <= Capacity
  /\ got \in [Scrapes -> SUBSET Samples]
  /\ total \in [Scrapes -> Nat]
  /\ prior \in [Scrapes -> Nat]
  /\ pc \in [Scrapes -> [Collectors -> PCs]]
  /\ at \in [Scrapes -> [Collectors -> Nat]]
  /\ fail \in [Scrapes -> [Collectors -> Nat]]
  /\ kwg \in [Scrapes -> [Collectors -> Nat]]
  /\ kid \in [Scrapes -> [Collectors -> [Sites -> KidPCs]]]
  /\ sent \in [Scrapes -> [Collectors -> SUBSET Sites]]

\* Once the registry has closed the channel, no goroutine of the scrape is
\* left that could still send on it (a send on a closed channel panics and
\* takes the whole exporter down): neither a runCollector nor a per-peer one.
NoLiveSender ==
  \A s \in Scrapes : phase[s] \in {"closed", "served"} =>
    \A c \in Collectors : pc[s][c] = "done" /\ LiveKids(s, c) = {}

\* Each WaitGroup counts exactly the goroutines its Wait has to wait for,
\* on the paths where Update or a per-peer command failed too; a per-peer
\* goroutine only lives while its Update is in the loop that started it.
BarrierCounts ==
  \A s \in Scrapes :
    /\ phase[s] \in {"idle", "inc", "announce", "add"} =>
         wg[s] = 0 /\ \A c \in Collectors : pc[s][c] = "unborn"
    /\ phase[s] \notin {"idle", "inc", "announce", "add"} =>
         wg[s] = Cardinality(Unfinished(s))
    /\ phase[s] \in {"returned", "closed", "served"} => Unfinished(s) = {}
    /\ \A c \in Collectors :
         /\ kwg[s][c] = Cardinality(LiveKids(s, c))
         /\ LiveKids(s, c) # {} => AtInstruction(s, c, "fan")

\* The reply holds all that step i of the program of c was to send.  A per-peer
\* goroutine whose command failed is excused: that is logged and nothing else.
Reported(s, c, i) ==
  /\ Program[c][i] = "emit" => Sample("data", c, i) \in got[s]
  /\ Program[c][i] = "fan" => \A k \in Fanout[c] :
       /\ Sample("site", c, k) \in got[s]
       /\ kid[s][c][k] \in {"none", "lost"} \/ Sample("kid", c, k) \in got[s]

\* A reply in which a collector is up holds everything that its Update was to
\* send, and what the per-peer goroutines whose commands succeeded were to send.
CompleteWhenUp ==
  \A s \in Scrapes, c \in Collectors :
    phase[s] = "served" /\ Sample("up", c, 1) \in got[s] =>
      \A i \in DOMAIN Program[c] : Reported(s, c, i)

\* An Update that fails leaves in the reply what comes before the step that
\* failed, all of it, and nothing that comes after: neither metrics of its own
\* nor those of the loop over the peers and of the goroutines started there.
StopsAtFailure ==
  \A s \in Scrapes, c \in Collectors : fail[s][c] # 0 =>
    /\ \A i \in DOMAIN Program[c] : Sample("data", c, i) \in got[s] => i < fail[s][c]
    /\ (\E k \in Sites : {Sample("site", c, k), Sample("kid", c, k)} \cap got[s] # {}) =>
         \E i \in DOMAIN Program[c] : i < fail[s][c] /\ Program[c][i] = "fan"
    /\ phase[s] = "served" =>
         \A i \in DOMAIN Program[c] : i < fail[s][c] => Reported(s, c, i)

\* A collector's verdict is the last thing the registry takes from it: the
\* goroutines Update started never send after it.
VerdictIsLast ==
  [][\A s \in Scrapes, c \in Collectors, m \in {0, 1} :
       Sample("up", c, m) \in got[s] =>
         {x \in got'[s] : x.from = c} = {x \in got[s] : x.from = c}]_vars

\* Somebody can always go on: no scrape that has begun comes to a halt with its
\* goroutines waiting for one another, for room in the channel and for the two
\* WaitGroups.  The guards of its actions, put together.
SenderReady(s) == HasRoom(Len(chan[s]))
RegistryReady(s) ==
  \/ chan[s] # <<>>
  \/ phase[s] = "returned"
  \/ phase[s] = "closed" /\ chan[s] = <<>>
CollectReady(s) ==
  \/ phase[s] \in {"inc", "add"}
  \/ phase[s] = "announce" /\ SenderReady(s)
  \/ phase[s] = "spawn" /\ \/ \E c \in Collectors : pc[s][c] = "unborn"
                           \/ WaitReturns(wg[s])
LoopReady(s, c) ==
  \/ sent[s][c] = Fanout[c] /\ WaitReturns(kwg[s][c])
  \/ \E k \in Fanout[c] \ sent[s][c] :
       \/ kid[s][c][k] # "unborn" /\ SenderReady(s)
       \/ \A j \in Fanout[c] : kid[s][c][j] # "unborn" => j \in sent[s][c]
RunnerReady(s, c) ==
  \/ AtInstruction(s, c, "ask") \/ AtInstruction(s, c, "try")
  \/ AtInstruction(s, c, "emit") /\ SenderReady(s)
  \/ AtInstruction(s, c, "fan") /\ LoopReady(s, c)
  \/ pc[s][c] = "update" /\ at[s][c] = Len(Program[c]) + 1
  \/ pc[s][c] \in {"duration", "verdict"} /\ SenderReady(s)
  \/ pc[s][c] = "exit"
KidReady(s, c, k) ==
  kid[s][c][k] \in {"run", "exit", "fail"} \/ (kid[s][c][k] = "send" /\ SenderReady(s))
NoDeadlock ==
  \A s \in Scrapes : phase[s] \notin {"idle", "served"} =>
    \/ RegistryReady(s) \/ CollectReady(s)
    \/ \E c \in Collectors : RunnerReady(s, c) \/ \E k \in Sites : KidReady(s, c, k)

\* What a scrape has still ahead of it: phases, positions of its goroutines,
\* steps of its programs, and metrics that the registry may yet take.
Later(order, x) == {i \in DOMAIN order : \E j \in 1 .. i - 1 : order[j] = x}
PhaseOrder == <<"idle", "inc", "announce", "add", "spawn", "returned", "closed", "served">>
PCOrder    == <<"unborn", "update", "duration", "verdict", "exit", "done">>
KidOrder   == <<"unborn", "run", "send", "exit", "fail", "none", "done", "lost">>
Metrics ==
  [kind : {"site", "kid"}, from : Collectors, n : Sites]
    \cup [kind : {"duration", "up"}, from : Collectors, n : {0, 1}]
    \cup {TotalSample}
    \cup (UNION {{Sample("data", c, i) : i \in DOMAIN Program[c]} : c \in Collectors})
Ahead(s) ==
  [phases  |-> Later(PhaseOrder, phase[s]),
   pcs     |-> {x \in Collectors \X DOMAIN PCOrder : x[2] \in Later(PCOrder, pc[s][x[1]])},
   steps   |-> UNION {{<<c, i>> : i \in at[s][c] .. Len(Program[c])} : c \in Collectors},
   kids    |-> {x \in Collectors \X Sites \X DOMAIN KidOrder :
                  x[3] \in Later(KidOrder, kid[s][x[1]][x[2]])},
   sites   |-> {x \in Collectors \X Sites : x[2] \notin sent[s][x[1]]},
   metrics |-> Metrics \ got[s]]

\* Every step is progress.  It takes something from what its own scrape has
\* ahead, gives nothing back, and leaves the other scrapes where they are: no
\* goroutine tries again, goes round in a circle or is started a second time.
\* As that is finitely much (AheadFinite in ScrapeProofs), and as somebody can
\* always go on, every scrape comes to its end.
Shrinks(a, b) == a # b /\ \A f \in DOMAIN a : b[f] \subseteq a[f]
EveryStepCounts ==
  [][\E s \in Scrapes : /\ Shrinks(Ahead(s), Ahead(s)')
                        /\ \A r \in Scrapes \ {s} : Ahead(r)' = Ahead(r)]_vars

\* The scrape seen from outside is the service of ScrapeService.  The total
\* is read when the registry takes the counter from the channel, so it may
\* count scrapes that started later, but none that has not arrived.
UpOf(s, c) == {m \in {0, 1} : Sample("up", c, m) \in got[s]}
Reply(s) == [total |-> total[s], up |-> [c \in Collectors |-> UpOf(s, c)]]
NoReply  == [total |-> 0, up |-> [c \in Collectors |-> {}]]

Arrived  == {s \in Scrapes : phase[s] # "idle"}
Replies  == [s \in Scrapes |-> IF phase[s] = "served" THEN Reply(s) ELSE NoReply]

Service == INSTANCE ScrapeService WITH arrived <- Arrived, floor <- prior, reply <- Replies

\* Every request is answered, once, with one verdict per collector and a
\* total between the bounds that the service promises.
ImplementsService == Service!Spec

\* What a collector promises its caller is UpdateService: here, the part of it
\* that takes the goroutines.  What is sent is what is in the channel or was
\* taken from it, but for the two metrics that runCollector sends itself.
Outcome(s, c) == CASE pc[s][c] = "unborn" -> "none"
                   [] pc[s][c] = "update" -> "running"
                   [] OTHER -> IF fail[s][c] = 0 THEN "ok" ELSE "err"
SentByUpdate(s, c) == {m \in got[s] \cup {chan[s][i] : i \in DOMAIN chan[s]} :
                         m.from = c /\ m.kind \in {"data", "site", "kid"}}
Outcomes == [r \in Scrapes \X Collectors |-> Outcome(r[1], r[2])]
SentByUpdates == [r \in Scrapes \X Collectors |-> SentByUpdate(r[1], r[2])]

Promise == INSTANCE UpdateService
  WITH Runs <- Scrapes \X Collectors, outcome <- Outcomes, metrics <- SentByUpdates

\* Update returns, on every path, and when it has returned neither it nor a
\* goroutine that it started sends anything.
ImplementsUpdate == Promise!Spec

=============================================================================
