# Verification of frr_exporter

A Prometheus exporter for the FRRouting suite. Prometheus scrapes it over HTTP;
for every scrape it asks the FRR daemons for the state of BGP, OSPF, routes and
so on, over their vty sockets (or through `vtysh`), and turns the JSON answers
into metrics. The exporter keeps almost no state. What can go wrong in it are
the goroutines of one scrape, answers that belong to different moments, the
socket protocol, and lists of labels that only agree by their order. The
modules here are about those.

## Inventory

| Component | State | Operations | Interaction |
|---|---|---|---|
| `Exporter` (`collector/collector.go`) | the counter `frrTotalScrapeCount`; per scrape a `WaitGroup` | `Collect`, `runCollector` | called by the registry once per request, on a channel it makes; starts one goroutine per collector |
| `bgp`, `bgp6`, `bgpl2vpn` (`collector/bgp.go`) | per run: summary, neighbours, next hops, peer types; a `WaitGroup` | `Update`, two kinds of per-peer goroutine | several commands to bgpd, one to zebra; sends on the scrape's channel from many goroutines |
| `ospf` (`collector/ospf.go`) | per run: position in steps x instances | `Update`, four process functions | one command per step and instance |
| `route`, `rpki` (`collector/route.go`, `rpki.go`) | per run: a VRF list | `Update`, per-VRF fallback | `getVRFs`, then a command per VRF |
| `status`, `bfd`, `pim`, `vrrp` | none | `Update` | one command each |
| command routing (`collector/command.go`) | the flags | `execute*Command`, `execVtyshCommand` | chooses the socket of a daemon, or a `vtysh` process |
| socket client (`internal/frrsockets`) | per call: connection, buffer, deadline | `executeCmd` | one connection per command |
| start-up (`frr_exporter.go`, `registerCollector`, `NewExporter`) | the table of collectors | once | flags, constructors |
| registry and HTTP handler | channel per request | external | client_golang |
| FRR daemons | configuration, peers, routes | external | change at any time |

What is hard: nested `WaitGroup`s in two files and one bounded channel they all
send on (a send after close takes the process down, a missing `Done` hangs the
scrape); overlapping scrapes that share a counter; a command that fails after
metrics were sent, which nothing takes back; two or three commands whose answers
are combined although FRR changed in between; answers cut into chunks, daemons
that stall, trickle or die; label names and values that are appended in
different functions.

`PROJECT.json` lists the hazards line by line with the properties that cover
them.

## Modules

| Module | Models | Extends or instantiates |
|---|---|---|
| `ScrapeService` | abstract: what a request is answered | |
| `UpdateService` | abstract: what `runCollector` relies on in the `Update` of a collector | |
| `Scrape` | `Collect`, `runCollector`, the per-peer goroutines, the registry | instance of `ScrapeService` and `UpdateService` |
| `CommandService` | abstract: what the caller of a command gets | |
| `FrrSocket` | `executeCmd`, and a daemon behind it | instance of `CommandService` |
| `Command` | `command.go`: socket or `vtysh`, the process, `sudo`; `NewExporter` | instance of `CommandService` |
| `OspfCollector` | `ospfCollector.Update` and its labels | instance of `UpdateService` |
| `BgpCollector` | `Update` of the three BGP collectors and the data of their goroutines | instance of `UpdateService` |
| `Collectors` | `Update` of route, rpki, pim, bfd, vrrp and status; `getVRFs` | instance of `UpdateService` |
| `ScrapeProofs`, `CommandProofs`, `OspfProofs`, `BgpProofs`, `CollectorsProofs` | proofs about the module they are named after | that module |
| `FrrSocketProofs`, `FrrSocketAnswerProofs` | proofs about `FrrSocket`: time and connections; answers | `FrrSocket` |
| `FrrSocketQueueProofs` | proofs about the queue at a daemon, and that calls end | the two above |
| `MC*` | constants for TLC | the module they are named after |

The modules meet at named points.

- A collector in `Scrape` is a program of `ask`, `emit` and `fan` steps:
  `OspfCollector`, `BgpCollector` and `Collectors` say what those steps read and
  send. `UpdateService` is what `runCollector` needs of any of them: a run returns
  once, with `nil` or an error, takes no metric back, and sends nothing from the
  moment it has returned. `Scrape` keeps it as far as the goroutines go, and each
  collector module for its own run.
- Each `ask` in `Scrape`, and each query of a collector module, is one call of an
  `execute...Command` function. `Command` shows what such a call gives its caller,
  and that is `CommandService`.
- The calls that `Command` passes to a socket are themselves an instance of
  `CommandService`, which `FrrSocket` implements.

So a collector may take it that a command returns, with a whole answer or with an
error. That is why `Ask` may fail at any time in the other modules, and why they
may assume it fair. The one exception is a hanging `vtysh` behind `sudo`, see
`Command`.

### Scrape

State per request `s`: `phase` (where Gather and `Collect` are), `wg`, the
channel `chan` and what the registry took from it (`got`, `total`); per collector
`pc` (where `runCollector` is), `at` and `fail` (where `Update` is, and where it
failed), `kwg` (the `WaitGroup` of `processBGPSummary`) and `kid` (its
goroutines). `scrapesTotal` is the one variable that scrapes share. `prior` is
there for the properties only.

Each statement of `Collect` that another goroutine can tell apart is an action:
`Inc`, `SendTotal`, `AddAll`, `Spawn`, `WaitAll`. `runCollector` is `Ask`, `Try`,
`Emit`, `Fork`, `SendSite`, `FanJoin`, `Return`, `SendDuration`, `SendVerdict`,
`Exit`. The registry is `Request`, `Receive`, `CloseChan`, `Respond`. A `Send` is
enabled only when the channel has room: this is where goroutines block. The
counter travels over the channel as the live counter and is read by `Receive`,
as client_golang does: the total in a reply may count scrapes that began later.
`ScrapeService` allows that, and nothing more.

### FrrSocket

State per call: `pc`, ticks `left` until the deadline, `response`, `ok`; the set
`open` of client connections; the daemon's side `conn`, `inbox` (written, not yet
read) and `todo` (not yet written). A byte is a number, NUL is 0. The daemon
(external) executes one command at a time, writes its answer in pieces of any
size, and may stop for ever or drop the connection at any point. `ReadCmd` takes
any number of the bytes that are there, up to `BufSize`. The reply to `enable` is
one write of the daemon and is read whole.

All calls to a daemon have their deadline from the moment they connect, and queue
there: two goroutines for every BGP peer do so at once. `Cost` is the number of
ticks a command takes at most while the daemon is `steady`; `spent` counts those
of the present command. `NobodyStarves` says that if all of them fit one timeout,
no call runs into its deadline.

### Command

`flags` is chosen once. `Construct` is the factory of one collector, in any order,
and may refuse; `NewOSPFCollector` always does with `vtysh` and instances. `Serve`
ends the start-up. `Call` goes to a socket unless the `vtysh` flag is set; a
command to an OSPF instance goes to a socket always, and only the check in that
constructor keeps it from doing so with `vtysh`: `SocketsUntouched`.

`cmd.Run` is `Start`, `Cancel` (the context is done: `Kill`), `Reap`, `Copy` (the
goroutine that fills the buffer) and `Finish`. The child is `vtysh`, or `sudo`
with `vtysh` as a child of its own. `sudo` may die and leave `vtysh` behind with
the pipe in its hands, or may not be killed at all as it runs as root. `Finish`
waits for the end of the pipe, so a call behind `sudo` may go on after its
deadline, and for ever if `vtysh` hangs, although the flag's help text speaks of a
timeout for the command (`src/README.md:155-157`). This is not listed as a
finding: whether it happens depends on `sudo`, which is not in the repository.
`LateOnlyBehindSudo` says that it happens nowhere else. That `vtysh` exits with 0
only after its last piece of output is assumed of it (external).

### OspfCollector

A metric is a family with named labels, computed by putting the list of values
(`Values`, from the process functions) against the list of names (`Names`, from
the `get...Desc` functions). A label value is a pair of what it is and which one,
so that a value under the wrong name is visible. VRFs may come and go between
any two commands; those in `bare` have no area, active interface or neighbour;
the interface answer may fail to decode when other VRFs were sent. The list of
instances is a variable, chosen once, so that one run covers the collector with
and without the flag. `stayed` observes which VRFs were there all the time.

The check of the flag (`ospf.go:47`) accepts every number, and the code takes
instance 0 for none: the names then have an instance and the values do not, and
`MustNewConstMetric` panics. The model has that (`pc = "panic"`);
`PanicsOnlyAtZero` says that nothing else does it. It takes an answer from a socket
`ospfd-0.vty`, and FRR counts its instances from 1, so it is no finding.

### BgpCollector

`setup` is the collector, its options and the lines of the monitored-prefixes file,
chosen once. FRR is a function from peers to conditions, and changes at any moment
of the run (`Change`); a peer is a VRF and an address. `QuerySummary`,
`QueryNeighbors` and `QueryNexthop` each read FRR as it then is; `Turn(p)` is one
turn of the loop over the peers of the summary, of one VRF after another, and the
first of a VRF sends the metrics of its BGP process (`ProcessMetrics`);
`Advertised`, `PresenceFirst` and `PresenceSecond` are the commands of the two
per-peer goroutines; `Wait`, `EmitTypes`, `QueryEvpn` end the run. `moved`
records which peers changed after the summary was read, for `TruthfulWhenQuiet`.
The channel and the `WaitGroup` are `Scrape`'s subject: here a turn of the loop is
one step.

The labels of a peer are two lists that grow under the same flags in different
functions: their names (`Described`) in `getBGPDesc`, their values (`Labels`) in
`processBGPSummary`. A metric is the one put against the other.

What FRR says of a peer depends on the peer: the summary has `PfxSnt` of some and
not of others (`pfxSnt`), and the neighbours have an entry for the address family or
not (`info`). So the advertised count of a peer comes from the summary, or, with
its option, from a goroutine (`AsksAdvertised`), or from nowhere. `again` records
that a series was sent twice: a series has the VRF in lower case (`Series`), and a
line that is in the prefixes file twice repeats its metrics (`PrefixTwice`).

### Collectors

`collector`, `detailed` and `oldFrr` are chosen once, so that one run covers six
collectors. FRR is a function from the VRFs it has to what they hold, and changes
between any two commands; what a VRF holds depends on the collector and has just
the items that become metrics. `AskAll` is a command over all VRFs (two for route,
both before any metric), `Process` and `Emit` turn an answer into metrics, one VRF
a step, since PIM decodes while it sends. `ListVrfs` is `getVRFs`; `AskOne` the
command for one VRF of that list, for rpki and for the fallback of route. An old
FRR with several VRFs answers route with something that does not decode, with one
VRF by an object without VRF keys. A VRF that has gone is an error, or for rpki an
empty answer that is passed over. `had` and `stayed` observe what a VRF held at
any time since `Update` began, and which VRFs were there all the time.

An answer is fine, or garbled, or, for route with VRF keys, has a field of a wrong
type somewhere (`Forms`). The last one is no map of VRFs, but it does decode as the
one object of an old FRR, whose fields it lacks: the code then sends zeros for
`default` and goes on (`NoRoutes`). Of such an address family `OneSnapshot` and
`CompleteOnSuccess` say nothing (`Misread`): FRR does not give such answers, and
the model shows what the code would make of one.

PIM writes the VRF and the interface of an uptime in lower case, and the VRF of the
count as it is. `again` records a series sent twice, in one turn (`SameLabels`: two
interfaces that differ in case, two BFD sessions that differ in `multihop`, which is
no label) or in two.

## Runs

| Run | Instance | Shows |
|---|---|---|
| `ScrapeFan` | 1 request, `bgpl2vpn` with two per-peer goroutines, `status`, channel of 2 | the barriers count the goroutines; nobody sends after close; a failed `Update` leaves what comes before the failing step and nothing that comes after, its goroutines included; a verdict of 1 hides no partial result; the verdict is the collector's last metric; somebody can always go on; every step is progress; each `Update` keeps `UpdateService`, liveness included |
| `ScrapeTwin` | 2 requests, 1 collector, channel of 1 | overlapping scrapes are isolated but for the counter: `Scrape` implements `ScrapeService`, liveness included |
| `FrrSocket` | 2 calls, answers of 3 and 0 bytes, buffer of 2, 3 ticks | framing, deadline, queueing, release of the connection; `FrrSocket` implements `CommandService`, liveness included |
| `Ospf` | no instance, 2, or one with a 0 after it; 2 VRFs, 2 changes | labels, arity (a panic at instance 0 only), no duplicates, everything about a VRF that stays though the other one comes or goes; `UpdateService`, liveness included |
| `Bgp` | 2 peers of 3 in 2 VRFs, with and without `PfxSnt`, 1 prefix, 1 change; `bgp`, `bgpl2vpn` | truth about peers that did not change, labels, paired presence metrics, no duplicates, the whole summary in a successful run, and nothing or all of it in a failed one, exact peer types; `UpdateService`, liveness included: it returns after the last of its goroutines |
| `Collectors` | each of the six, 2 VRFs besides `default`, 2 changes | everything said of a VRF comes from one moment; a successful run left out nothing; labels, no duplicates, nothing sent by a failed run where that is possible, and uptimes without their count in one VRF at most; every step is progress, however the VRFs change |
| `Command` | 3 calls, one of them to an OSPF instance; 2 collectors, 2 ticks | the promise of a socket kept by every way a command can go; whole output or an error; late only behind `sudo`; no socket with `vtysh` |
| `OspfMaxAge` | 2 instances | violated: labels of `data_ls_max_age` are swapped |
| `OspfCaseVrfs` | VRFs `Red` and `red` | violated: duplicate series |
| `BgpFiltered` | 1 change | violated: a negative count of filtered prefixes |
| `BgpPresence` | no change | violated: presence metrics omitted in a successful run |
| `BgpTypeKeys` | two keys, one value | violated: one peer counted twice |

### Bounds

`Capacity` (client_golang uses 1000) is 1 or 2, so that the channel is full in
most states: every sender blocks at every send in some behaviour. Two requests
are enough for one to start, finish or increment the counter between any two
steps of the other; requests interact only through that counter. One collector
with two goroutine sites and one without show both forms of `Update`; the proofs
are for any number. `BufSize` is 2 (4096 in the code) so that the answer of
three bytes and its NUL is cut in every way, with and without the NUL alone in
the last chunk. Two calls show that the daemon may be busy with another one;
three ticks allow progress, delay and expiry. `MaxChanges` bounds how often FRR
changes during a run: one change placed anywhere separates any two commands, two
let a VRF go and come back. Of the three peers in `MCBgpCollector` any two may
be there at a time (`MaxPeers`): two in one VRF, whose process metrics must come
once, or two with one address in two VRFs. Their conditions are those that
change a metric differently, with and without `PfxSnt` and the entry for the
address family, so that a run has peers of both kinds, with the option for
advertised prefixes set. `Collectors` has two VRFs, so that one can go or change
while the other is being asked, and `MCCollectors` gives each collector contents
that differ in every item it reports, an empty one and one that fails to parse
included. The VRF `Red` and the interface `Eth1` have a capital letter, so lower
case changes them; two names that differ in nothing else are in `OspfCaseVrfs`.
`Command` has a call with two bytes of output (whole, cut, not begun), one with
a byte, and one by instance; a timeout of 2 has a tick that cancels nothing and
one that does. `Cost` is 1, so that both commands fit the timeout of 3; with 2
ticks they would not.

The type invariants of `OspfCollector`, `BgpCollector`, `Collectors` and `Command`
are in no run: they are proved. Liveness of `Collectors` is not in its run, since
two changes of FRR make too many states for it; that every step is progress is,
and it is proved for any number of changes.

### Fairness

Weak fairness of each goroutine's own actions (`runCollector`, `Kid`, `Collect`,
the registry): the Go scheduler runs what can run. `Ask` and `KidAsk` are part of
it because commands return, which is `FrrSocket`'s result. `FrrSocket` assumes
fairness of the client and of the clock only, never of the daemon: that calls
return follows from the deadline. Requests are not fair: none has to come.
Senders compete for room in the channel; weak fairness is enough in the model
because each sends a bounded number of metrics. `Command` assumes the same of
`execVtyshCommand` and of the clock, and that a call to a socket returns, which
`FrrSocket` shows; of `sudo` and `vtysh` it assumes nothing, and `Returns` is stated
without `sudo` only. The collector modules assume it of the steps of `Update` and
of its goroutines, for the same reason as `Scrape` does; never of FRR, which may
change or not.

## Proofs

Every theorem below is about every value of the constants that the named
assumptions of its module allow: any finite sets of requests, calls, goroutines
and VRFs, any answers and contents, any capacity, buffer, timeout and cost. Where a
theorem needs more, it says so as its hypothesis.

### Scrape

`ScrapeProofs`, first part:

- `TypeCorrect`: `Spec => []TypeOK`. No `WaitGroup` goes below zero, which would
  panic, and no channel holds more than its capacity.
- `BarriersCount`: `Spec => []BarrierCounts`. Both `WaitGroup`s count exactly the
  goroutines that have not reached their `Done`, and a per-peer goroutine lives
  only while its `Update` is in the loop that started it.
- `NoSendAfterClose`: `Spec => []NoLiveSender`. When the channel is closed there
  is no goroutine left that could send on it.

The inductive invariant is `IInv == TypeOK /\ BarrierCounts`. Neither conjunct is
inductive alone: that `Done` keeps a counter in `Nat` needs the counter to be the
number of goroutines that are not done, one of which is the one calling `Done`;
and the counts need the types. `NoLiveSender` is not inductive either: `Wait`
returning at zero says nothing about goroutines unless zero is their number.
`CountsSplit` takes `BarrierCounts` apart into one statement per scrape and one
per collector; the lemmas that follow show for each process which of them a step
can disturb. Counting goes through `FS_AddElement` and `FS_RemoveElement`.

Second part, what a reply holds:

- `NothingAfterFailure`: `Spec => []StopsAtFailure`. What an `Update` that failed
  leaves in the reply is all that comes before the failing step, and nothing else:
  no metric of its own, and none of a loop over the peers, or of goroutines started
  there, that it had not come to. Its goroutines of an earlier loop may still lose
  what their own command did not answer, as in a successful run.
- `UpMeansComplete`: `Spec => []CompleteWhenUp`.
- `NothingAfterVerdict`: `Spec => VerdictIsLast`, an action property.
- `Refinement`: `Spec` implements the safety part of `ScrapeService`, under the
  mapping that `Scrape` uses (`Arrived`, `prior`, `Replies`).

A reply is written long after what it says happened, so the state in between has
to remember it. `HInv` adds for each collector that what it has sent, in the
registry or still in the channel (`Out`), is what the steps of its program before
the present one were to send (`Course`, `Said`), with its goroutines (`Loop`) and
its verdict, which is sent once (`Verdict`). `LastWord` is about order: in the
channel nothing of a collector stands behind its verdict. `Totals` follows the
scrape counter from a request's arrival to its reply: the counter is the number
of requests past `Inc`, and a total that the registry has read lies above those
answered before the request came and not above those that have arrived.

`StopsAtFailure` needs the third part's `OInv` (what was sent has a sender that is
past the place that sends it, `Placed`) and `LoopFirst`: only a command fails, and a
goroutine is of a loop that `Update` has come to.

Third part, that a scrape comes to an end:

- `DeadlockFree`: `Spec => []NoDeadlock`. As long as a scrape is not over, one of
  its goroutines or the registry can go on: a full channel is emptied, a channel
  with room lets its senders go on, and a `WaitGroup` that is waited for counts a
  goroutine that has not reached its `Done`.
- `AlwaysProgress`: `Spec => EveryStepCounts`, an action property: every step takes
  something from the sets of what a scrape has ahead, and adds nothing to them.
- `ScrapesEnd`: those sets are finite, and what they hold together is a natural
  number that falls with every step.
- `PromiseKept`: each `Update` keeps the safety part of `UpdateService`.

Liveness itself is out of the prover's reach. `DeadlockFree`, `AlwaysProgress` and
`ScrapesEnd` are what it comes down to: something can always be done, and only
finitely much of it.

### FrrSocket

`FrrSocketProofs`:

- `DeadlineKept`: `Spec => []WithinTimeout`. No call lasts longer than its
  timeout, whatever the daemon does.
- `NoLeak`: `Spec => []ConnectionReleased`. A connection is open from a successful
  dial until the call returns, on every path.

The inductive invariant adds the types of the client's variables and `NotBegun`:
no time has passed while a call has not set its deadline. Without it the step
that sets the deadline could start from any elapsed time. What time has passed
and what is left then add up to the timeout at every later step.

`FrrSocketAnswerProofs`:

- `TypeCorrect`: `Spec => []TypeOK`, which includes that no text a caller is given
  holds a NUL.
- `BytesConserved`: `Spec => []Conserved`.
- `Refinement`: `Spec` implements the safety part of `CommandService`.

The invariant `Answers` says for each call at which stage the connection is
(`Stage`), that nothing of the answer exists before the command arrived
(`Before`), and, while the call reads, that its buffer, its socket and what the
daemon has yet to write are three adjacent slices of the answer, with the two
cuts and the end named (`Cuts`). `Conserved` concatenates the three, but does not
say where the cuts are, and so is not inductive: that a chunk ending in NUL is the
last one follows from the position of its end in an answer that has one NUL.

`FrrSocketQueueProofs`:

- `QueueServed`: `Spec => []NobodyStarves`, for any number of calls and any cost.

`Past` are the calls whose command the daemon will not begin any more. `QInv`
bounds the time since any call began by `Cost` times their number, less what the
daemon has yet to spend on the command it is at. Each command adds one call to
`Past`, each tick one to both sides. The bound then stays under the timeout
because `Past` never exceeds the calls.

In the same module, and at any daemon, steady or not: `NobodyStuck` says that until
a call has returned it can take its next statement, or waits before its deadline
while time can pass or another call can go on; `CallsEnd` that its statements,
ticks and bytes to come (`ToCome`) add up to a natural number that each step of the
call and each tick lowers, and that neither the daemon nor another call raises. The
bytes are counted wherever they are, in the socket or still with the daemon, so
that writing changes nothing and reading counts. This is where the deadline has to
be absolute: one renewed by each chunk would raise the number.

### Command

`CommandProofs`: `TypeCorrect`, `NoSocketWithVtysh` (`SocketsUntouched`),
`InTimeWithoutSudo` (`LateOnlyBehindSudo`), `NothingLost` (`OutputConserved`), and
`Refinement` (`ImplementsCommandSafety`), the same promise that `FrrSocket` was
shown to keep. The invariant has `Accepted`, which carries what the constructor
refused at start-up to the calls made later, and for each call `Control` (where it
may be under the flags, and what its caller knows), `Children` (which process may
run then; without `sudo` none after the wait, and an exit with 0 means that all
was written) and `Output`. Without `Children`, `Finish` could return a buffer that
lacks what `vtysh` had not written.

`NobodyStuck` and `CallsEnd` say of a call without `sudo` what they say in
`FrrSocketQueueProofs`: it can go on or waits before its deadline, and what it has
to come falls with each of its steps. They need the invariant `Reaped`, that a call
which returned left nobody to write into its pipe. It says nothing of a call behind
`sudo` that never returns.

### Collectors

`OspfProofs`, for any lists of numbers: `TypeCorrect`; `PanicsOnlyForZero`
(`PanicsOnlyAtZero`: no metric has more or fewer label values than names, unless
a configured instance is 0); `NeverPanics`, which concludes that there is no
panic if no instance is 0 (`NoZero`); `LabelsCorrect` (`LabelsAsNamed`: in every
family but `ls_max_age` each value is what its name says). `TypeOK` says that
every series sent is one that the descriptions and values of this collector
make, and none of an instance 0 (`Labelled`); with `PanicsOnlyAtZero` it is
inductive. The rest is about the two lists: `PerVrfAgree` compares them place by
place without an instance, `AgreeAppend` and `AgreePrepend` show that they still
agree when the instance is added on the same side of both, `ListsAgree` puts
that together, and `SeriesNamed` carries it over to the labels of a series.
`ls_max_age` is left out of `ListsAgree` because the code adds the instance on
different sides (finding 1); its lists are equally long all the same, which
`NoMismatch` shows. `ZeroMismatch` is the other side: with an instance 0 they
never are.

Two more are about the whole run. `NothingLeftOut` (`CompleteOnSuccess`): `CInv`
says which rounds over steps and instances are over (`Over`) and, in the present
one, which VRFs the answer no longer holds (`Worked`), that those rounds were asked
(`Asked`), and that the series of each VRF that stayed were sent (`SentBy`); `AtEnd`
says that `nil` is returned after the last round only. `NoDuplicates`
(`UniqueSeries`) is the converse: every series sent belongs to such a round and VRF
(`SentInTurn`), and two of different turns differ in a label (`SeriesDiffer`). It
needs `CaseMatters`, without which it is false (finding 2), and `DistinctIDs`: no
instance is given twice. For `ls_max_age`, whose two labels are exchanged, the
difference is found on the other side (`VrfAt`, `InstanceAt`).

`BgpProofs`: `Truthful` (`TruthfulWhenQuiet`) and `Paired` (`PresencePaired`). The
invariant adds `Fresh`: whatever a
table that was read says of a peer that has not moved since is what FRR has now,
and so is what the first presence command brought back. That is what makes the
metrics of a later step true, which alone `TruthfulWhenQuiet` does not imply.
`BeforeLoop` keeps the channel and the goroutines untouched until the loop.

`NothingLeftOut` (`CompleteOnSuccess`) and `FailsWhole` (`AllOrNothing`): `RunInv`
says of each peer whether its turn has been (`Turned`), that it then has its metrics
and its process has, that its goroutine was started exactly if the summary lacked
its advertised count and the option is set, and that the count is there exactly if
the summary had it or that goroutine was answered (`PeerInv`); and how far the loop
is at each stage, that no goroutine runs after the wait, and where a run may fail:
before the loop, or at the last command of `bgpl2vpn` (`Stages`). `NoDuplicates`
(`UniqueSeries`) names for every metric where it came from (`Source`): a turn that
has been, a goroutine that is done, or a stage that is over; what is sent next has
another source, and so another series (`SeriesApart`). It needs that no two VRFs
differ in case only (`CaseMatters`, finding 2 is the same for OSPF) and that no line
of the prefixes file is there twice (`DistinctPrefixes`); without either it is
false. `TypesCounted`
(`TypesUpExact`) and `TypeCorrect` (`TypeOK`) hold if no peer has two type keys of
one value (`DistinctTypes`); without it a peer is counted twice (finding 5), and a
type may count more peers than there are. `TypesInv` says that the map counts, for
each type, the established peers with it among those whose turn has been, and that
the metrics sent are that map (`UpMetrics`). `LabelsCorrect` (`LabelsAsNamed`) is
about the two chains of flags alone: they give the same labels for every set of
options, whatever the steps do.

`CollectorsProofs`: `LabelsCorrect`, `TypeCorrect`, `FailsContained`
(`FailureContained`), and, for VRF names of which no two differ in case only
(`CaseMatters`), `OutOfOneSnapshot` (`OneSnapshot`) and `NoDuplicates`
(`UniqueSeries`). Without that hypothesis both are false for pim, for the reason of
finding 2. `NoDuplicates` also needs that no two interfaces of a VRF differ in case
only (`IfaceCaseMatters`) and no two BFD sessions in `multihop` only
(`DistinctSessions`): two items of one VRF would else have the same labels.
`Contained` is about pim alone: uptimes lack their count only after a failure, and
only those of the VRF that it was in, as the count ends the turn of each VRF before
the next one begins. `Base` adds to the types that
everything FRR holds or an answer holds is among what was observed
(`Observations`), that what is left to process or to ask belongs to the present
address family (`Progress`), and that nothing was sent too early (`Silent`).
`Snap` adds the order of it: a VRF whose turn is still to come has no metric yet
(`Untouched`), and none has two turns (`EachOnce`), so that all of its metrics come
from one content of it. The lemmas `...Fits` say for each collector that the
metrics made of a content are true of it and carry the VRF they were made for.

`NothingLeftOut` (`CompleteOnSuccess`) is the other direction, and holds for all
VRF names, again with `DistinctSessions`: sessions that share their labels are
counted one by one, and are one series. `Rep` says that a VRF that was there all
the time is in every answer (`InAnswers`), that each of its turns that is over
has reported something it held (`AllReported`), and that `nil` comes after the
last turn (`Finished`). `Counted` is about the count of BFD peers, which the
code takes over all VRFs before it sends the peers of any: at the end the state
metrics are, one to one, the peers of the answer that was counted, so that the
two agree. It needs finitely many sessions (`PeersAssumption`).

### Every `Update` ends

`OspfProofs`, `BgpProofs` and `CollectorsProofs` each have three theorems about
`UpdateService`:

- `PromiseKept`: the module implements its safety part, step by step; every step of
  the module is `Begin`, `Send`, `Return` or a stutter.
- `AlwaysProgress`: `Spec => EveryStepCounts`. `Ahead` is the set of what a run has
  yet to do; a step of the run makes it smaller, a change of FRR leaves it alone.
- `UpdateEnds`: that set is finite, so its size is a natural number that falls.

For `BgpCollector` that needs `LateInv`: when the wait is over no goroutine is left
(`Over`), and a goroutine was started in the turn of its peer and not before
(`InTurn`). Without the first a metric could follow the return; without the second
a turn could start a goroutine again, which would add to what is ahead. `Collectors`
needs that the list of `getVRFs` names no VRF twice (`EachOnce`), which here holds
whatever the names are; `CaseMatters` is not used. `OspfCollector` needs finitely
many VRFs for `UpdateEnds`, a hypothesis of that theorem.

### Only model-checked

The liveness halves of `ImplementsService`, `ImplementsCommand` and
`ImplementsUpdate`, and `Returns` of `Command`: liveness under fairness and
`ENABLED` are outside this prover's reach, as are induction over data and recursive
operators, which none of these modules has. What can be proved in their place is
that somebody can always go on and that every step is progress. `Scrape`,
`FrrSocket` and `Command` have both. `OspfCollector`, `BgpCollector` and
`Collectors` have the second: the only thing they ever wait for is the `WaitGroup`
of the per-peer goroutines, which themselves wait for nothing, and TLC finds no
deadlock. Every safety property that a passing run checks is proved, under the
hypotheses named above.

## Findings

1. With OSPF instances configured, `frr_ospf_data_ls_max_age` has the VRF under
   `instance` and the instance under `vrf` (`ospf.go:405-409` against `165-169`;
   the unit test has the swapped labels). Run `OspfMaxAge`.
2. VRF names are lower-cased, so two VRFs that differ in case give the same
   series, and the registry fails the whole scrape. Run `OspfCaseVrfs`.
3. The number of filtered prefixes is the difference of two answers of different
   moments and may be negative. Run `BgpFiltered`.
4. When a per-peer command fails, an established peer has no presence metrics
   although the README promises both. Run `BgpPresence`.
5. A peer with two type keys of one value counts twice in
   `frr_bgp_peer_types_up`. Run `BgpTypeKeys`.

## Not modelled

- Text: JSON decoding beyond success and failure, the splitting of zebra's VRF
  list into fields, the version in the status answer, number and time formats,
  log lines, help texts.
- BGP message counters, uptime, and the texts of the peer labels. The reading of
  the monitored-prefixes file: it is a sequence of prefixes as FRR writes them, so
  one with host bits set, which is never found, is not in the model.
- An answer that is JSON of another shape than FRR gives, but for the one of route:
  a null peer, a SAFI of less than four characters.
- The four route counts by type and the five VRRP counters are one each: they go
  through the same code, once per counter.
- Start-up, but for the constructors and their order: flags, the landing page, the
  web server.
- Which spelling of a VRF is meant, that of PIM's uptimes or that of its count: the
  model has both, and nothing in the repository says which, so no property does.
- What the runs vary less than the models do: OSPF instances given twice, a prefix
  listed twice, interfaces that differ in case only, BFD sessions that differ in
  `multihop` only. Each breaks `UniqueSeries`, for the reason of finding 2: equal
  series. They are hypotheses of the theorems, and the instances of the passing
  runs leave them out.
- Dashboards and the development topology: no part of the program.

## What is left

Every module of the plan is written, and every safety property that a passing run
checks is proved. What is left is under "Not modelled", with the hazards that no
property covers, each with its reason, and, for proofs, the three liveness
promises, which are proved as far as the section "Only model-checked" says.
