---------------------------- MODULE BgpCollector ----------------------------
(***************************************************************************)
(* bgpCollector.Update and bgpL2VPNCollector.Update: the data of one run.  *)
(* The summary is read first, then (by flag) the neighbours and the next   *)
(* hops, then the peers of the summary are gone through one by one, and    *)
(* per-peer goroutines read more.  FRR goes on working between any two of  *)
(* these commands, so every command sees a different FRR.                  *)
(*                                                                         *)
(* A peer is a pair <<VRF, address>>; one address family is looked at.     *)
(* What the channel and the WaitGroup do is the subject of Scrape: here a  *)
(* turn of the loop, and the end of a goroutine, is one step.              *)
(***************************************************************************)
EXTENDS Integers, Sequences, FiniteSets

CONSTANTS Peers,        \* the peers FRR may have
          Lower,        \* Lower[v]: strings.ToLower(v), for the VRFs of the peers
          Routes,       \* the prefixes a peer may send or be sent
          TypesOf,      \* TypesOf[p]: values of the type keys in p's description
          Setups,       \* the collectors and options to look at
          Peering,      \* the conditions a peer may be in, while FRR has it
          MaxPeers,     \* bound: how many peers FRR has at a time
          MaxChanges    \* bound: how often FRR changes during the run

AllFlags == {"types", "descs", "hostnames", "groups", "accepted", "advertised", "nexthop"}
\* The summary has PfxSnt of some peers only, and the neighbours know the
\* address family (info) of some only.
AnyPeering ==
  {r \in [state : {"established", "active", "idle (admin)"},
          accepted : SUBSET Routes, rejected : SUBSET Routes,
          advertised : SUBSET Routes, pfxSnt : BOOLEAN, info : BOOLEAN] :
     /\ r.accepted \cap r.rejected = {}
     /\ r.state # "established" =>
          r.accepted = {} /\ r.rejected = {} /\ r.advertised = {}}

ASSUME PeersAssumption   ==
  IsFiniteSet(Peers) /\ \A p \in Peers : p = <<p[1], p[2]>> /\ p[1] \in DOMAIN Lower
ASSUME RoutesAssumption  == IsFiniteSet(Routes)
ASSUME BoundAssumption   == MaxChanges \in Nat /\ MaxPeers \in Nat
ASSUME PeeringAssumption == Peering \subseteq AnyPeering

\* The collector (bgp and bgp6 are alike), the enabled options, and the lines
\* of the monitored-prefixes file, which bgpl2vpn does not use.
AnySetup == [l2vpn : BOOLEAN, flags : SUBSET AllFlags, monitored : Seq(Routes)]
ASSUME SetupsAssumption ==
  Setups \subseteq AnySetup /\ \A o \in Setups : o.l2vpn => o.monitored = <<>>

VARIABLES
  setup,    \* the one of this run
  frr,      \* the peers FRR has now, and their condition
  changes,  \* how often that has changed
  moved,    \* the peers that changed since the summary was read (observation)
  pc,       \* where the collector is
  summary,  \* the decoded summary
  neigh,    \* the decoded neighbours, the empty function if not asked for
  left,     \* the peers of the summary the loop has not come to
  types,    \* peerTypes: type -> number of established peers
  adv,      \* adv[p]: the goroutine getPeerAdvertisedPrefixes of p
  pres,     \* pres[p]: the goroutine getPeerPrefixPresence of p
  seen,     \* seen[p]: what the first command of pres[p] returned
  sent,     \* the metrics sent on the channel
  again     \* a series was sent that had been sent before

frrVars == <<setup, frr, changes, moved>>
kidVars == <<adv, pres, seen>>
outVars == <<sent, again>>
vars == <<frrVars, pc, summary, neigh, left, types, kidVars, outVars>>

L2vpn     == setup.l2vpn
Flags     == setup.flags
Monitored == setup.monitored

PCs == {"summary", "neighbors", "nexthop", "loop", "wait", "types", "evpn", "ok", "err"}
AdvPCs  == {"none", "run", "done", "lost"}
PresPCs == {"none", "first", "second", "done", "lost"}

\* A metric: its name, what it is of (a VRF, a peer, a peer and a prefix, or
\* nothing in a VRF), its value.
Metric(m, of, v) == [m |-> m, of |-> of, v |-> v]
PeerPrefix(p, x) == <<p[1], p[2], x>>

\* What the monitoring system tells metrics apart by: the name, and the labels,
\* in which the VRF is in lower case.
LowerVrf(of) == [of EXCEPT ![1] = Lower[@]]
Series(m) ==
  <<m.m, IF m.m \in {"peerTypesUp", "numRemoteVteps"} THEN m.of ELSE LowerVrf(m.of)>>

\* The metrics of new are sent; repeated says that the code sends some of them
\* more than once.
Send(new, repeated) ==
  /\ sent' = sent \cup new
  /\ again' = (again \/ repeated \/ \E m \in new, n \in sent : Series(m) = Series(n))

Presence(b) == IF b THEN 1 ELSE 0
None == [p \in {} |-> {}]
Prefixes == {Monitored[i] : i \in DOMAIN Monitored}
PrefixTwice == \E i, j \in DOMAIN Monitored : i # j /\ Monitored[i] = Monitored[j]
Received(r) == Cardinality(r.accepted) + Cardinality(r.rejected)

Init ==
  /\ setup \in Setups
  /\ \E ps \in SUBSET Peers : Cardinality(ps) <= MaxPeers /\ frr \in [ps -> Peering]
  /\ changes = 0 /\ moved = {}
  /\ pc = "summary"
  /\ summary = None /\ neigh = None
  /\ left = {}
  /\ types = None
  /\ adv  = [p \in Peers |-> "none"]
  /\ pres = [p \in Peers |-> "none"]
  /\ seen = [p \in Peers |-> {}]
  /\ sent = {} /\ again = FALSE

-----------------------------------------------------------------------------
(* Descriptions and label values: both lists depend on the flags.          *)

\* The names, in the order of getBGPDesc.
Given(flag, label) == IF flag \in Flags THEN <<label>> ELSE <<>>
bgpLabels == <<"vrf", "afi", "safi", "local_as">>
bgpPeerLabels ==
  bgpLabels \o <<"peer", "peer_as">>
    \o Given("descs", "peer_desc") \o Given("hostnames", "peer_hostname")
    \o Given("groups", "peer_group") \o Given("nexthop", "nexthop_interface")
Described(m) ==
  CASE m = "peerCount"      -> bgpLabels
    [] m = "peerTypesUp"    -> <<"type", "afi", "safi">>
    [] m = "numRemoteVteps" -> <<"vni", "type", "vxlanIf", "tenantVrf">>
    [] m \in {"prefixReceived", "prefixAdvertised"} -> Append(bgpPeerLabels, "prefix")
    [] OTHER                -> bgpPeerLabels

\* What the values are, in the order in which processBGPSummary and the other
\* functions put them together; unknown ones are there too, as "" or "unknown".
procLabels == <<"vrf", "afi", "safi", "local_as">>
peerLabelsGroupsFirst ==
  procLabels \o <<"peer", "peer_as">>
    \o Given("descs", "peer_desc") \o Given("groups", "peer_group")
    \o Given("hostnames", "peer_hostname") \o Given("nexthop", "nexthop_interface")
peerLabels ==
  procLabels \o <<"peer", "peer_as">>
    \o Given("descs", "peer_desc") \o Given("hostnames", "peer_hostname")
    \o Given("groups", "peer_group") \o Given("nexthop", "nexthop_interface")
Labels(m) ==
  CASE m = "peerCount"      -> procLabels
    [] m = "peerTypesUp"    -> <<"type", "afi", "safi">>
    [] m = "numRemoteVteps" -> <<"vni", "type", "vxlanIf", "tenantVrf">>
    [] m \in {"prefixReceived", "prefixAdvertised"} -> Append(peerLabels, "prefix")
    [] OTHER                -> peerLabels

-----------------------------------------------------------------------------
(* FRR (external): a peer appears, disappears or changes its condition.    *)

Change ==
  /\ changes < MaxChanges /\ pc \notin {"ok", "err"}
  /\ changes' = changes + 1
  /\ \E p \in Peers :
       /\ moved' = IF pc = "summary" THEN moved ELSE moved \cup {p}
       /\ \/ \E r \in Peering :
               frr' = [q \in DOMAIN frr \cup {p} |-> IF q = p THEN r ELSE frr[q]]
          \/ frr' = [q \in DOMAIN frr \ {p} |-> frr[q]]
  /\ frr' # frr /\ Cardinality(DOMAIN frr') <= MaxPeers
  /\ UNCHANGED <<setup, pc, summary, neigh, left, types, kidVars, outVars>>

\* What FRR answers about the routes of a peer it may not have any more.
AcceptedNow(p)   == IF p \in DOMAIN frr THEN frr[p].accepted ELSE {}
AdvertisedNow(p) == IF p \in DOMAIN frr THEN frr[p].advertised ELSE {}

-----------------------------------------------------------------------------
(* collectBGP and processBGPSummary.                                       *)

Fail == pc' = "err"

\* show bgp vrf all ... summary json
QuerySummary ==
  /\ pc = "summary"
  /\ \/ pc' = "neighbors" /\ summary' = frr /\ left' = DOMAIN frr
     \/ Fail /\ UNCHANGED <<summary, left>>
  /\ UNCHANGED <<frrVars, neigh, types, kidVars, outVars>>

\* show bgp vrf all neighbors json, if a flag needs it.
NeedsNeighbors == Flags \cap {"types", "descs", "groups", "accepted"} # {}
QueryNeighbors ==
  /\ pc = "neighbors"
  /\ \/ ~NeedsNeighbors /\ pc' = "nexthop" /\ UNCHANGED neigh
     \/ NeedsNeighbors /\ pc' = "nexthop" /\ neigh' = frr
     \/ NeedsNeighbors /\ Fail /\ UNCHANGED neigh
  /\ UNCHANGED <<frrVars, summary, left, types, kidVars, outVars>>

\* show ip bgp vrf all nexthop json, if its flag is set.
QueryNexthop ==
  /\ pc = "nexthop"
  /\ pc' = "loop" \/ ("nexthop" \in Flags /\ Fail)
  /\ UNCHANGED <<frrVars, summary, neigh, left, types, kidVars, outVars>>

\* The loop over the VRFs is around that over the peers of one.  The metrics of
\* the BGP process of a VRF come with the first of its peers: a process without
\* peers is skipped.
Of(v)    == {p \in DOMAIN summary : p[1] = v}
Begun(v) == Of(v) \ left # {}
ProcessMetrics(v) ==
  IF Begun(v) THEN {} ELSE {Metric("peerCount", <<v>>, Cardinality(Of(v)))}

\* "established" is 1, "idle (admin)" 2, any other state 0.
PeerStateDown(r) == IF r.state = "established" THEN 1 ELSE 0
PeerState(r) == CASE r.state = "established"  -> 1
                  [] r.state = "idle (admin)" -> 2
                  [] OTHER                    -> 0

\* processPeerAcceptedFilteredPrefixes: nothing if the neighbours lack p, or
\* have it without this address family.
HasInfo(p) == p \in DOMAIN neigh /\ neigh[p].info
AcceptedFiltered(p) ==
  IF "accepted" \in Flags /\ HasInfo(p)
    THEN LET accepted == Cardinality(neigh[p].accepted) IN
         {Metric("prefixAcceptedCount", p, accepted),
          Metric("prefixFilteredCount", p, Received(summary[p]) - accepted)}
    ELSE {}

\* PfxSnt of this peer, sent if it is there, be it 0; if not, and the option is
\* set, a goroutine is to find the number.
AdvertisedInSummary(p) ==
  IF summary[p].pfxSnt
    THEN {Metric("prefixAdvertisedCount", p, Cardinality(summary[p].advertised))}
    ELSE {}
AsksAnyway(p)     == "advertised" \in Flags
AsksAdvertised(p) == "advertised" \in Flags /\ ~summary[p].pfxSnt

\* What the turn of the loop for p sends itself.
PeerMetrics(p) ==
  {Metric("prefixReceivedCount", p, Received(summary[p])),
   Metric("state", p, PeerState(summary[p]))}
    \cup AcceptedFiltered(p) \cup AdvertisedInSummary(p)

\* peerTypes after the turn for p: its types exist, and count it once per key
\* if it is established.
DescTypes(p) == IF "types" \in Flags /\ p \in DOMAIN neigh THEN TypesOf[p] ELSE <<>>
CountTypesAlways(p) ==
  LET ts == DescTypes(p) IN
  [t \in DOMAIN types \cup {ts[i] : i \in DOMAIN ts} |->
     (IF t \in DOMAIN types THEN types[t] ELSE 0)
       + Cardinality({i \in DOMAIN ts : ts[i] = t})]
CountTypes(p) ==
  LET ts == DescTypes(p) IN
  [t \in DOMAIN types \cup {ts[i] : i \in DOMAIN ts} |->
     (IF t \in DOMAIN types THEN types[t] ELSE 0)
       + IF summary[p].state = "established"
           THEN Cardinality({i \in DOMAIN ts : ts[i] = t}) ELSE 0]

\* One turn of the inner loop: the VRFs, and the peers of each, in any order,
\* but no other VRF before one that was begun is through.
Turn(p) ==
  /\ pc = "loop" /\ p \in left
  /\ \A q \in left : Begun(q[1]) => q[1] = p[1]
  /\ left' = left \ {p}
  /\ Send(ProcessMetrics(p[1]) \cup PeerMetrics(p), FALSE)
  /\ types' = CountTypes(p)
  /\ adv' = IF AsksAdvertised(p) THEN [adv EXCEPT ![p] = "run"] ELSE adv
  /\ pres' = IF summary[p].state = "established" /\ Monitored # <<>>
               THEN [pres EXCEPT ![p] = "first"] ELSE pres
  /\ UNCHANGED <<frrVars, pc, summary, neigh, seen>>

EndLoop ==
  /\ pc = "loop" /\ left = {}
  /\ pc' = "wait"
  /\ UNCHANGED <<frrVars, summary, neigh, left, types, kidVars, outVars>>

Running == {p \in Peers : adv[p] = "run" \/ pres[p] \in {"first", "second"}}

\* wg.Wait(): an error in a goroutine was logged and changes nothing.
AfterWaitReportsLost ==
  pc' = IF \E p \in Peers : "lost" \in {adv[p], pres[p]} THEN "err" ELSE "types"
AfterWait == pc' = "types"
WaitOverForAdvertised == \A p \in Peers : adv[p] # "run"
WaitOver  == Running = {}
Wait ==
  /\ pc = "wait" /\ WaitOver
  /\ AfterWait
  /\ UNCHANGED <<frrVars, summary, neigh, left, types, kidVars, outVars>>

\* peerTypesUp; then the l2vpn collector goes on with zebra.
EmitTypes ==
  /\ pc = "types"
  /\ Send({Metric("peerTypesUp", <<t>>, types[t]) : t \in DOMAIN types}, FALSE)
  /\ pc' = IF L2vpn THEN "evpn" ELSE "ok"
  /\ UNCHANGED <<frrVars, summary, neigh, left, types, kidVars>>

\* show evpn vni json: an error, an empty answer, or the metrics of the VNIs;
\* a number of remote VTEPs that is no number is sent as -1.
QueryEvpn ==
  /\ pc = "evpn"
  /\ \/ Fail /\ UNCHANGED outVars
     \/ pc' = "ok" /\ UNCHANGED outVars
     \/ /\ pc' = "ok"
        /\ \E n \in {-1, 0, 1} : Send({Metric("numRemoteVteps", <<"vni">>, n)}, FALSE)
  /\ UNCHANGED <<frrVars, summary, neigh, left, types, kidVars>>

-----------------------------------------------------------------------------
(* The per-peer goroutines.                                                *)

\* getPeerAdvertisedPrefixes: a failure is logged.
Advertised(p) ==
  /\ adv[p] = "run"
  /\ \/ /\ adv' = [adv EXCEPT ![p] = "done"]
        /\ Send({Metric("prefixAdvertisedCount", p, Cardinality(AdvertisedNow(p)))}, FALSE)
     \/ adv' = [adv EXCEPT ![p] = "lost"] /\ UNCHANGED outVars
  /\ UNCHANGED <<frrVars, pc, summary, neigh, left, types, pres, seen>>

ReceivedMetrics(p, got) ==
  {Metric("prefixReceived", PeerPrefix(p, x), Presence(x \in got)) : x \in Prefixes}
AdvertisedMetrics(p, got) ==
  {Metric("prefixAdvertised", PeerPrefix(p, x), Presence(x \in got)) : x \in Prefixes}

\* getPeerPrefixPresence, first command: the routes received.  They are kept,
\* and nothing is sent yet; a failure is logged.
SentEarly(p)      == ReceivedMetrics(p, AcceptedNow(p))
SentAfterFirst(p) == {}
PresenceFirst(p) ==
  /\ pres[p] = "first"
  /\ \/ /\ pres' = [pres EXCEPT ![p] = "second"]
        /\ seen' = [seen EXCEPT ![p] = AcceptedNow(p)]
        /\ Send(SentAfterFirst(p), FALSE)
     \/ pres' = [pres EXCEPT ![p] = "lost"] /\ UNCHANGED <<seen, outVars>>
  /\ UNCHANGED <<frrVars, pc, summary, neigh, left, types, adv>>

\* Second command: the routes advertised.  Then both metrics of every line of
\* the file; a failure is logged, and there are none.
PresenceSecond(p) ==
  /\ pres[p] = "second"
  /\ \/ /\ pres' = [pres EXCEPT ![p] = "done"]
        /\ Send(ReceivedMetrics(p, seen[p]) \cup AdvertisedMetrics(p, AdvertisedNow(p)),
                PrefixTwice)
     \/ pres' = [pres EXCEPT ![p] = "lost"] /\ UNCHANGED outVars
  /\ UNCHANGED <<frrVars, pc, summary, neigh, left, types, adv, seen>>

-----------------------------------------------------------------------------
\* Update of the collector.
Update ==
  \/ QuerySummary \/ QueryNeighbors \/ QueryNexthop
  \/ \E p \in Peers : Turn(p)
  \/ EndLoop \/ Wait \/ EmitTypes \/ QueryEvpn
Goroutine(p) == Advertised(p) \/ PresenceFirst(p) \/ PresenceSecond(p)

Returned == pc \in {"ok", "err"} /\ UNCHANGED vars

Next == Change \/ Update \/ (\E p \in Peers : Goroutine(p)) \/ Returned

Fairness == WF_vars(Update) /\ \A p \in Peers : WF_vars(Goroutine(p))

Spec == Init /\ [][Next]_vars /\ Fairness

-----------------------------------------------------------------------------
(* Correctness.                                                            *)

\* Every variable has its type; the answers hold conditions FRR may report.
TypeOK ==
  /\ setup \in Setups
  /\ DOMAIN frr \subseteq Peers /\ frr \in [DOMAIN frr -> Peering]
  /\ changes \in 0 .. MaxChanges /\ moved \subseteq Peers
  /\ pc \in PCs
  /\ DOMAIN summary \subseteq Peers /\ summary \in [DOMAIN summary -> Peering]
  /\ DOMAIN neigh \subseteq Peers /\ neigh \in [DOMAIN neigh -> Peering]
  /\ left \subseteq DOMAIN summary
  /\ \A t \in DOMAIN types : types[t] \in 0 .. Cardinality(Peers)
  /\ adv \in [Peers -> AdvPCs] /\ pres \in [Peers -> PresPCs]
  /\ seen \in [Peers -> SUBSET Routes]
  /\ \A m \in sent : m.v \in Int
  /\ again \in BOOLEAN

\* What is sent about a peer that FRR left alone since the summary was read
\* is what FRR has, whichever command and whichever goroutine it came from,
\* and whatever happened to other peers meanwhile.
Truth(m, p, r) ==
  /\ m.of = p => CASE m.m = "state" -> /\ m.v = 1 <=> r.state = "established"
                                    /\ m.v = 2 <=> r.state = "idle (admin)"
                 [] m.m = "prefixReceivedCount" ->
                      m.v = Cardinality(r.accepted \cup r.rejected)
                 [] m.m = "prefixAcceptedCount"   -> m.v = Cardinality(r.accepted)
                 [] m.m = "prefixFilteredCount"   -> m.v = Cardinality(r.rejected)
                 [] m.m = "prefixAdvertisedCount" -> m.v = Cardinality(r.advertised)
                 [] OTHER -> TRUE
  /\ \A x \in Prefixes : m.of = PeerPrefix(p, x) =>
       m.v = 1 <=> x \in IF m.m = "prefixReceived" THEN r.accepted ELSE r.advertised
TruthfulWhenQuiet ==
  \A p \in DOMAIN frr \ moved : \A m \in sent : Truth(m, p, frr[p])

\* With any options, and from whichever goroutine, the label values of a metric
\* are what its description names, in that order and number: names and values
\* are put together by separate chains of flags.
LabelsAsNamed == \A m \in sent : Labels(m.m) = Described(m.m)

\* A monitored prefix has both its metrics for a peer or neither, although
\* two commands stand behind them, between which the peer may go away.
Has(m, of) == \E x \in sent : x.m = m /\ x.of = of
PresencePaired ==
  \A p \in Peers, x \in Prefixes :
    Has("prefixReceived", PeerPrefix(p, x)) <=> Has("prefixAdvertised", PeerPrefix(p, x))

\* One Update sends no series twice: each peer's advertised count comes from the
\* summary or from a goroutine, the metrics of a process once though its peers
\* are many, and the VRFs keep apart though their names are lower-cased.
UniqueSeries == again = FALSE

\* All that is to be sent of the summary: the process of each of its VRFs, the
\* state and the received count of each peer, the accepted and filtered counts
\* if they are wanted and known, the advertised count if the summary has it or
\* the command for it was to be asked and was answered; and nobody still at it.
SummaryReported ==
  /\ Running = {}
  /\ \A p \in DOMAIN summary :
       /\ Has("peerCount", <<p[1]>>) /\ Has("state", p) /\ Has("prefixReceivedCount", p)
       /\ \A m \in {"prefixAcceptedCount", "prefixFilteredCount"} :
            Has(m, p) <=> "accepted" \in Flags /\ HasInfo(p)
       /\ Has("prefixAdvertisedCount", p) <=>
            summary[p].pfxSnt \/ ("advertised" \in Flags /\ adv[p] # "lost")

\* If Update returns nil, the summary is reported in full, whichever of its
\* peers has the count in the summary and for whichever it was asked.
CompleteOnSuccess == pc = "ok" => SummaryReported

\* A run that fails has sent nothing and started no goroutine; or it is the l2vpn
\* collector's, has reported the summary in full, and zebra gave no answer.  The
\* failure of a goroutine's command makes no run fail.
AllOrNothing ==
  pc = "err" =>
    \/ sent = {} /\ \A p \in Peers : adv[p] = "none" /\ pres[p] = "none"
    \/ L2vpn /\ SummaryReported

\* peer_types_up of a type is the number of peers that are established and
\* described with that type, and is sent, as 0, when there are none.
TypesUpExact ==
  pc = "ok" /\ "types" \in Flags =>
    LET described(t) == {p \in DOMAIN summary \cap DOMAIN neigh :
                           \E i \in DOMAIN TypesOf[p] : TypesOf[p][i] = t}
        all == UNION {{TypesOf[p][i] : i \in DOMAIN TypesOf[p]} : p \in Peers}
    IN  \A t \in all : described(t) # {} =>
          {m.v : m \in {x \in sent : x.m = "peerTypesUp" /\ x.of = <<t>>}} =
            {Cardinality({p \in described(t) : summary[p].state = "established"})}

\* The collector keeps the promise of UpdateService to its caller: it returns,
\* and when it has returned, with an error too, no goroutine of it sends.
Runs    == {"update"}
Outcome == [r \in Runs |-> IF pc \in {"ok", "err"} THEN pc ELSE "running"]
Output  == [r \in Runs |-> sent]
Promise == INSTANCE UpdateService WITH outcome <- Outcome, metrics <- Output
ImplementsUpdate == Promise!Spec

\* What a run has ahead of it: stages of Update, peers whose turn in the loop is
\* to come, and commands of its goroutines, those not started yet included.
UpdateStages == <<"summary", "neighbors", "nexthop", "loop", "wait", "types", "evpn">>
Upcoming     == IF pc \in {"summary", "neighbors", "nexthop"} THEN Peers ELSE left
Ahead ==
  ({"stage"} \X {i \in DOMAIN UpdateStages : \E j \in 1 .. i : UpdateStages[j] = pc})
    \cup ({"turn"}       \X Upcoming)
    \cup ({"advertised"} \X (Upcoming \cup {p \in Peers : adv[p] = "run"}))
    \cup ({"first"}      \X (Upcoming \cup {p \in Peers : pres[p] = "first"}))
    \cup ({"second"}     \X (Upcoming \cup {p \in Peers : pres[p] \in {"first", "second"}}))

\* Every step of the run is progress: it takes something from what is ahead and
\* adds nothing to it, and no change of FRR adds anything either.  Nothing is
\* tried again, and no list that FRR could make longer is gone through twice.
EveryStepCounts ==
  [][IF changes' = changes THEN Ahead' \subseteq Ahead /\ Ahead' # Ahead
                           ELSE Ahead' = Ahead]_vars

\* The number of prefixes filtered is a number of prefixes.
FilteredIsACount == \A m \in sent : m.m = "prefixFilteredCount" => m.v >= 0

\* Every established peer of a successful run has both metrics of every
\* monitored prefix.
PresenceReported ==
  pc = "ok" =>
    \A p \in DOMAIN summary, x \in Prefixes : summary[p].state = "established" =>
      Has("prefixReceived", PeerPrefix(p, x)) /\ Has("prefixAdvertised", PeerPrefix(p, x))

=============================================================================
