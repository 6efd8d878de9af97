----------------------------- MODULE Collectors -----------------------------
(***************************************************************************)
(* Update of the route, rpki, pim, bfd, vrrp and status collectors: the    *)
(* commands they send one after the other, and the metrics that they make  *)
(* of the answers.  VRFs come and go in FRR, and their contents change,    *)
(* between any two commands.                                               *)
(*                                                                         *)
(* What a VRF holds is its content; what it looks like depends on the      *)
(* collector (Contents).  vrrp and status ask nothing by VRF: all that     *)
(* they see is the content of "default".  As in OspfCollector a label      *)
(* value is <<what it is, which one>>, so that one under a wrong name is   *)
(* visible.                                                                *)
(***************************************************************************)
EXTENDS Integers, Sequences, FiniteSets

CONSTANTS Vrfs,         \* the VRFs FRR may have besides "default"
          Lower,        \* Lower[n]: strings.ToLower(n), of VRFs and interfaces
          Contents,     \* Contents[c]: what a VRF may hold, for collector c
          MaxChanges    \* bound: how often FRR changes during the run

AllVrfs == Vrfs \cup {"default"}
Names   == {"route", "rpki", "pim", "bfd", "vrrp", "status"}

ASSUME VrfsAssumption     == IsFiniteSet(Vrfs) /\ "default" \notin Vrfs
ASSUME LowerAssumption    ==
  AllVrfs \subseteq DOMAIN Lower /\ \A c \in Contents.pim : \A n \in DOMAIN c : n[1] \in DOMAIN Lower
ASSUME ContentsAssumption == DOMAIN Contents = Names
ASSUME BoundAssumption    == MaxChanges \in Nat
\* What stands for a neighbour, a BFD session and a virtual router, and that a
\* counter is there once or not at all.
ASSUME ShapeAssumption ==
  /\ \A c \in Contents.pim : \A n \in DOMAIN c : n = <<n[1], n[2]>>
  /\ \A c \in Contents.bfd : \A p \in DOMAIN c : p = <<p[1], p[2], p[3], p[4]>>
  /\ \A c \in Contents.vrrp : \A r \in DOMAIN c :
       /\ r = <<r[1], r[2]>>
       /\ \A p \in {"v4", "v6"} : \A x, y \in c[r][p].adverTx : x = y
\* There are finitely many BFD sessions.
ASSUME PeersAssumption == IsFiniteSet(UNION {DOMAIN c : c \in Contents.bfd})

VARIABLES
  collector, \* the one whose Update runs
  detailed,  \* the flag collector.route.detailed-routes
  oldFrr,    \* FRR before 10.1: "vrf all" has no VRF keys
  frr,       \* the VRFs FRR has now, and what they hold
  changes,   \* how often that has changed
  had,       \* had[v]: what v has held since Update began (observation)
  stayed,    \* the VRFs that were there all the time (observation)
  pc,        \* "all", "process", "emit", "list", "one", "ok", "err"
  answers,   \* the answers to the commands over all VRFs
  at,        \* the answer that is processed
  left,      \* the part of it that was not turned into metrics yet
  toAsk,     \* the VRF names that are still to be asked for one by one
  sent,      \* the metrics sent on the channel
  again      \* a series was sent twice

settings == <<collector, detailed, oldFrr>>
frrVars  == <<frr, changes, had, stayed>>
outVars  == <<sent, again>>
vars == <<settings, frrVars, pc, answers, at, left, toAsk, outVars>>

PCs  == {"all", "process", "emit", "list", "one", "ok", "err"}
Afis == <<"ipv4", "ipv6">>
Nothing == [v \in {} |-> {}]

-----------------------------------------------------------------------------
(* Descriptions and label values.                                          *)

LabelNames ==
  [total     |-> <<"afi", "vrf">>,
   totalFib  |-> <<"afi", "vrf">>,
   ribCount  |-> <<"afi", "route_type", "vrf">>,
   cacheState      |-> <<"vrf", "host">>,
   cachePreference |-> <<"vrf", "host">>,
   neighborCount   |-> <<"vrf">>,
   upTime    |-> <<"vrf", "iface", "neighbor">>,
   bfdPeerCount    |-> <<>>,
   bfdPeerUptime   |-> <<"local", "peer", "iface", "vrf">>,
   bfdPeerState    |-> <<"local", "peer", "iface", "vrf">>,
   vrrpState |-> <<"proto", "vrid", "interface", "subinterface", "state">>,
   adverTx   |-> <<"proto", "vrid", "interface", "subinterface">>,
   up        |-> <<"version", "os">>]

Metric(f, values, v) ==
  [family |-> f,
   label  |-> [n \in {LabelNames[f][i] : i \in DOMAIN LabelNames[f]} |->
                 values[CHOOSE i \in DOMAIN LabelNames[f] : LabelNames[f][i] = n]],
   value  |-> v]

\* emitRouteSummaryMetrics; ribCount stands for the four counts by type.
RouteValuesAsTotal(afi, t, v) == <<<<"afi", afi>>, <<"vrf", v>>, <<"route_type", t>>>>
RouteValues(afi, t, v) == <<<<"afi", afi>>, <<"route_type", t>>, <<"vrf", v>>>>
RouteMetrics(afi, v, r) ==
  {Metric("total",    <<<<"afi", afi>>, <<"vrf", v>>>>, r.total),
   Metric("totalFib", <<<<"afi", afi>>, <<"vrf", v>>>>, r.fib)}
  \cup IF detailed
         THEN {Metric("ribCount", RouteValues(afi, t, v), r.types[t]) : t \in DOMAIN r.types}
         ELSE {}

\* processRPKICacheConnection; mode and port go with the host.
RpkiMetrics(v, caches) ==
  UNION {LET values == <<<<"vrf", v>>, <<"host", h>>>> IN
         {Metric("cacheState", values, IF caches[h].state = "connected" THEN 1 ELSE 0),
          Metric("cachePreference", values, caches[h].preference)} : h \in DOMAIN caches}

\* processPIMNeighbors, one VRF.  A neighbour is <<interface, address>>; its
\* uptime is NoTime when parseHMS fails on it.  It counts all the same.  Unlike
\* the count, the uptimes have their VRF and interface in lower case.
NoTime == -1
Parsed(nbrs) == {n \in DOMAIN nbrs : nbrs[n] # NoTime}
UpTimes(v, nbrs) ==
  {Metric("upTime", <<<<"vrf", Lower[v]>>, <<"iface", Lower[n[1]]>>, <<"neighbor", n[2]>>>>,
          nbrs[n]) : n \in Parsed(nbrs)}
NeighborCountOfParsed(nbrs) == Cardinality(Parsed(nbrs))
NeighborCount(nbrs) == Cardinality(DOMAIN nbrs)
PimMetrics(v, nbrs) ==
  UpTimes(v, nbrs) \cup {Metric("neighborCount", <<<<"vrf", v>>>>, NeighborCount(nbrs))}

\* processBFDPeers: the sessions of one VRF, each a <<local, peer, interface,
\* multihop>>; that last one is no label.
BfdMetrics(v, peers) ==
  UNION {LET values == <<<<"local", p[1]>>, <<"peer", p[2]>>, <<"iface", p[3]>>, <<"vrf", v>>>> IN
         {Metric("bfdPeerUptime", values, peers[p].uptime),
          Metric("bfdPeerState", values, IF peers[p].status = "up" THEN 1 ELSE 0)} :
         p \in DOMAIN peers}

\* processInstance for v4 and v6 of each <<vrid, interface>>; adverTx stands
\* for the counters, each of which FRR may leave out.  EqualFold: the spellings
\* of one state are the same to the code.
VrrpStates == {"Initialize", "Master", "Backup"}
EqualFold(status, s)  == status.text = s
processInstance(r, p, i) ==
  LET values == <<<<"proto", p>>, <<"vrid", r[1]>>, <<"interface", r[2]>>,
                  <<"subinterface", i.sub>>>>
  IN  {Metric("vrrpState", Append(values, <<"state", s>>),
              IF EqualFold(i.status, s) THEN 1 ELSE 0) : s \in VrrpStates}
      \cup {Metric("adverTx", values, n) : n \in i.adverTx}
VrrpMetrics(vrs) ==
  UNION {processInstance(r, "v4", vrs[r].v4) \cup processInstance(r, "v6", vrs[r].v6) :
           r \in DOMAIN vrs}

\* statusCollector.Update: with the version, or the metric that says down.
StatusMetric(version, v) == Metric("up", <<<<"version", version>>, <<"os", version>>>>, v)
Down == {StatusMetric("unknown", 0)}

\* What is made of the content c of VRF v; only route has two families.
MetricsOf(afi, v, c) ==
  CASE collector = "route"  -> RouteMetrics(afi, v, c[afi])
    [] collector = "rpki"   -> RpkiMetrics(v, c)
    [] collector = "pim"    -> PimMetrics(v, c)
    [] collector = "bfd"    -> BfdMetrics(v, c)
    [] collector = "vrrp"   -> VrrpMetrics(c)
    [] collector = "status" -> {StatusMetric(c, 1)}

\* Two items of the content c have the same labels: two neighbours whose
\* interfaces differ in case only, two sessions that differ in multihop only.
SameLabels(c) ==
  \/ collector = "pim" /\ \E n, k \in Parsed(c) : n # k /\ Lower[n[1]] = Lower[k[1]] /\ n[2] = k[2]
  \/ collector = "bfd" /\ \E p, q \in DOMAIN c : p # q /\ \A i \in 1 .. 3 : p[i] = q[i]

-----------------------------------------------------------------------------
(* FRR (external).                                                         *)

\* Collectors that see nothing but what "default" holds here.
ByVrf == collector \notin {"vrrp", "status"}
Init ==
  /\ collector \in Names /\ detailed \in BOOLEAN /\ oldFrr \in BOOLEAN
  /\ collector # "route" => detailed = FALSE /\ oldFrr = FALSE
  /\ \E vs \in IF ByVrf THEN SUBSET Vrfs ELSE {{}} :
       frr \in [vs \cup {"default"} -> Contents[collector]]
  /\ changes = 0
  /\ had = [v \in AllVrfs |-> {frr[w] : w \in DOMAIN frr \cap {v}}]
  /\ stayed = DOMAIN frr
  /\ pc = IF collector = "rpki" THEN "list" ELSE "all"
  /\ answers = <<>> /\ at = 1 /\ left = Nothing /\ toAsk = <<>>
  /\ sent = {} /\ again = FALSE

\* A VRF appears, goes, or holds something else.
Change ==
  /\ changes < MaxChanges /\ pc \notin {"ok", "err"}
  /\ changes' = changes + 1
  /\ \/ \E v \in IF ByVrf THEN AllVrfs ELSE {"default"}, c \in Contents[collector] :
          /\ frr' = [w \in DOMAIN frr \cup {v} |-> IF w = v THEN c ELSE frr[w]]
          /\ had' = [had EXCEPT ![v] = @ \cup {c}]
          /\ UNCHANGED stayed
     \/ \E v \in DOMAIN frr \ {"default"} :
          /\ frr' = [w \in DOMAIN frr \ {v} |-> frr[w]]
          /\ stayed' = stayed \ {v}
          /\ UNCHANGED had
  /\ frr' # frr
  /\ UNCHANGED <<settings, pc, answers, at, left, toAsk, outVars>>

-----------------------------------------------------------------------------
(* Update.                                                                 *)

Series(m) == [family |-> m.family, label |-> m.label]
Send(new, repeated) ==
  /\ sent' = sent \cup new
  /\ again' = (again \/ repeated \/ \E m \in new, n \in sent : Series(m) = Series(n))

\* return err; the status collector sends its metric and returns nil.
Fail == IF collector = "status"
          THEN pc' = "ok" /\ Send(Down, FALSE)
          ELSE pc' = "err" /\ UNCHANGED outVars

\* A command over all VRFs, two of them for route, before any metric.  The answer
\* is fine, or it is garbled; or, where there are VRF keys, a field of some VRF
\* has a type it should not have.
Forms == {"fine", "garbled"} \cup IF collector = "route" /\ ~oldFrr THEN {"mistyped"} ELSE {}
Wanted == IF collector = "route" THEN 2 ELSE 1
AllAskedAfterOne == Len(answers') > 0
AllAsked == Len(answers') = Wanted
AskAll ==
  /\ pc = "all"
  /\ \/ /\ \E form \in Forms : answers' = Append(answers, [form |-> form, table |-> frr])
        /\ pc' = IF AllAsked THEN "process" ELSE "all"
        /\ UNCHANGED outVars
     \/ Fail /\ UNCHANGED answers
  /\ UNCHANGED <<settings, frrVars, at, left, toAsk>>

\* The answer decodes, as a map of VRFs or, from an old FRR with one VRF, as
\* the one object.  It does not when it is garbled; with route it does not
\* either when an old FRR has put the objects of several VRFs side by side.
Decodes(a) == a.form = "fine" /\ (oldFrr => DOMAIN a.table = {"default"})

\* A mistyped answer is no map of VRFs, but it does pass for the one object, in
\* which nothing is set: then "default" has no routes, and no type of them.
NoRoutes == [total |-> 0, fib |-> 0, types |-> Nothing]

\* The count of BFD peers comes before the first peer.
CountOfAll(table) ==
  Cardinality(UNION {{<<v, p>> : p \in DOMAIN table[v]} : v \in DOMAIN table})
FirstMetrics(table) ==
  IF collector = "bfd" THEN {Metric("bfdPeerCount", <<>>, CountOfAll(table))} ELSE {}
Process ==
  /\ pc = "process"
  /\ \/ /\ Decodes(answers[at])
        /\ pc' = "emit" /\ left' = answers[at].table
        /\ Send(FirstMetrics(answers[at].table), FALSE)
     \/ /\ answers[at].form = "mistyped"
        /\ pc' = "emit" /\ left' = Nothing
        /\ Send(RouteMetrics(Afis[at], "default", NoRoutes), FALSE)
     \/ /\ ~Decodes(answers[at]) /\ answers[at].form # "mistyped"
        /\ UNCHANGED left
        /\ IF collector = "route" THEN pc' = "list" /\ UNCHANGED outVars ELSE Fail
  /\ UNCHANGED <<settings, frrVars, answers, at, toAsk>>

\* The metrics of one VRF of the answer, in any order of the map.  What PIM
\* says of a VRF is decoded only now, interface by interface.
Emit(v) ==
  /\ pc = "emit" /\ v \in DOMAIN left
  /\ \/ /\ Send(MetricsOf(Afis[at], v, left[v]), SameLabels(left[v]))
        /\ left' = [w \in DOMAIN left \ {v} |-> left[w]]
        /\ UNCHANGED pc
     \/ /\ collector = "pim"
        /\ pc' = "err"
        /\ \E ifaces \in SUBSET {n[1] : n \in DOMAIN left[v]} :
             LET nbrs == [n \in {k \in DOMAIN left[v] : k[1] \in ifaces} |-> left[v][n]] IN
             Send(UpTimes(v, nbrs), SameLabels(nbrs))
        /\ UNCHANGED left
  /\ UNCHANGED <<settings, frrVars, answers, at, toAsk>>

\* The other address family, or return nil.
Proceed == IF at < Len(answers) THEN at' = at + 1 /\ pc' = "process"
                                ELSE pc' = "ok" /\ UNCHANGED at
EndAnswer ==
  /\ pc = "emit" /\ DOMAIN left = {}
  /\ Proceed
  /\ UNCHANGED <<settings, frrVars, answers, left, toAsk, outVars>>

\* getVRFs: "default", and the VRFs of zebra, which never lists that one, in
\* an order of its own.
Orders(S) == {s \in [1 .. Cardinality(S) -> S] : \A i, j \in DOMAIN s : s[i] = s[j] => i = j}
ListedTwice == DOMAIN frr
Listed == DOMAIN frr \ {"default"}
ListVrfs ==
  /\ pc = "list"
  /\ \/ pc' = "one" /\ \E s \in Orders(Listed) : toAsk' = <<"default">> \o s
     \/ pc' = "err" /\ UNCHANGED toAsk
  /\ UNCHANGED <<settings, frrVars, answers, at, left, outVars>>

\* The command for the next VRF of the list.  A VRF that has gone gives a text
\* that does not decode, or, to rpki, no output, which is passed over.
NextVrfForgotten == UNCHANGED toAsk
NextVrf == toAsk' = Tail(toAsk)
GoneIsSkipped == UNCHANGED pc /\ NextVrf
GoneIsError == pc' = "err" /\ UNCHANGED toAsk
Answer(v) == /\ v \in DOMAIN frr
             /\ Send(MetricsOf(Afis[at], v, frr[v]), SameLabels(frr[v]))
Empty(v)  == /\ collector = "rpki"
             /\ v \in DOMAIN frr => frr[v] = Nothing
             /\ UNCHANGED outVars
AskOne ==
  /\ pc = "one" /\ toAsk # <<>>
  /\ \/ (Answer(Head(toAsk)) \/ Empty(Head(toAsk))) /\ UNCHANGED pc /\ NextVrf
     \/ GoneIsError /\ UNCHANGED outVars
  /\ UNCHANGED <<settings, frrVars, answers, at, left>>

EndList ==
  /\ pc = "one" /\ toAsk = <<>>
  /\ Proceed
  /\ UNCHANGED <<settings, frrVars, answers, left, toAsk, outVars>>

Update == \/ AskAll \/ Process \/ (\E v \in AllVrfs : Emit(v)) \/ EndAnswer
          \/ ListVrfs \/ AskOne \/ EndList

Returned == pc \in {"ok", "err"} /\ UNCHANGED vars

Next == Change \/ Update \/ Returned

Spec == Init /\ [][Next]_vars /\ WF_vars(Update)

-----------------------------------------------------------------------------
(* Correctness.                                                            *)

\* Every variable has its type; what is processed, and what was observed of a
\* VRF, is something FRR may hold for this collector.
TypeOK ==
  /\ collector \in Names /\ detailed \in BOOLEAN /\ oldFrr \in BOOLEAN
  /\ {"default"} \subseteq DOMAIN frr /\ DOMAIN frr \subseteq AllVrfs
  /\ frr \in [DOMAIN frr -> Contents[collector]]
  /\ changes \in 0 .. MaxChanges
  /\ had \in [AllVrfs -> SUBSET Contents[collector]]
  /\ stayed \subseteq DOMAIN frr
  /\ pc \in PCs
  /\ Len(answers) \in 0 .. Wanted /\ at \in 1 .. Wanted
  /\ DOMAIN left \subseteq AllVrfs /\ left \in [DOMAIN left -> Contents[collector]]
  /\ again \in BOOLEAN

\* Every value is what the name of its label says, in each description of the
\* six collectors: names and values are listed in different functions.
LabelsAsNamed ==
  \A m \in sent : \A n \in DOMAIN m.label : m.label[n][1] = n

\* m is true of a VRF that holds c: it has the item, and the item the value.
TrueOf(m, afi, c) ==
  LET of(n) == m.label[n][2]
      cache == of("host")
      nbr(n)  == Lower[n[1]] = of("iface") /\ n[2] = of("neighbor")
      peer(p) == p[1] = of("local") /\ p[2] = of("peer") /\ p[3] = of("iface")
      vr    == <<of("vrid"), of("interface")>>
  IN
  /\ m.family = "total"    => m.value = c[afi].total
  /\ m.family = "totalFib" => m.value = c[afi].fib
  /\ m.family = "ribCount" => /\ of("route_type") \in DOMAIN c[afi].types
                              /\ m.value = c[afi].types[of("route_type")]
  /\ m.family = "cacheState" => /\ cache \in DOMAIN c
                                /\ m.value = 1 <=> c[cache].state = "connected"
  /\ m.family = "cachePreference" => cache \in DOMAIN c /\ m.value = c[cache].preference
  /\ m.family = "neighborCount"   => m.value = Cardinality(DOMAIN c)
  /\ m.family = "upTime"        => \E n \in DOMAIN c : nbr(n) /\ m.value = c[n]
  /\ m.family = "bfdPeerState"  => \E p \in DOMAIN c : peer(p) /\ (m.value = 1 <=> c[p].status = "up")
  /\ m.family = "bfdPeerUptime" => \E p \in DOMAIN c : peer(p) /\ m.value = c[p].uptime
  /\ m.family = "vrrpState" => /\ vr \in DOMAIN c
                               /\ m.value = 1 <=> c[vr][of("proto")].status.text = of("state")
  /\ m.family = "adverTx"   => vr \in DOMAIN c /\ {m.value} = c[vr][of("proto")].adverTx
  /\ m.family = "up"        => (m.value = 1 => of("version") = c)

\* Whose metric it is: pim writes the VRF of an uptime in lower case.
IsOf(m, v, afi) ==
  /\ m.family # "bfdPeerCount"
  /\ "afi" \in DOMAIN m.label => m.label.afi[2] = afi
  /\ IF "vrf" \in DOMAIN m.label
       THEN m.label.vrf[2] = IF m.family = "upTime" THEN Lower[v] ELSE v
       ELSE v = "default"

\* All that is sent about a VRF, per address family, was true of it at one and
\* the same moment of the run.  Nothing is sent about a VRF FRR never had.  Of an
\* address family whose answer was mistyped nothing can be said.
Misread(i) == i \in DOMAIN answers /\ answers[i].form = "mistyped"
OneSnapshot ==
  \A v \in AllVrfs, i \in {k \in DOMAIN Afis : ~Misread(k)} :
    LET about == {m \in sent : IsOf(m, v, Afis[i])} IN
    about # {} => \E c \in had[v] : \A m \in about : TrueOf(m, Afis[i], c)

\* One Update sends no series twice: not one VRF in two turns, also when it goes
\* by the list of VRFs, and no two items of a VRF under the same labels.
UniqueSeries == again = FALSE

\* What a content makes it necessary to send.
Has(f, b) == \E m \in sent : m.family = f /\ \A n \in DOMAIN b : m.label[n][2] = b[n]
Reported(v, afi, c) ==
  CASE collector = "route" ->
         /\ \A f \in {"total", "totalFib"} : Has(f, [afi |-> afi, vrf |-> v])
         /\ detailed => \A t \in DOMAIN c[afi].types :
                         Has("ribCount", [afi |-> afi, vrf |-> v, route_type |-> t])
    [] collector = "rpki" -> \A h \in DOMAIN c, f \in {"cacheState", "cachePreference"} :
                               Has(f, [vrf |-> v, host |-> h])
    [] collector = "pim"  -> /\ Has("neighborCount", [vrf |-> v])
                             /\ \A n \in DOMAIN c : c[n] # NoTime =>
                                  Has("upTime", [vrf |-> Lower[v], iface |-> Lower[n[1]],
                                                  neighbor |-> n[2]])
    [] collector = "bfd"  -> \A p \in DOMAIN c, f \in {"bfdPeerState", "bfdPeerUptime"} :
                               Has(f, [vrf |-> v, local |-> p[1], peer |-> p[2], iface |-> p[3]])
    [] collector = "vrrp" -> \A r \in DOMAIN c, p \in {"v4", "v6"}, s \in VrrpStates :
                               Has("vrrpState", [vrid |-> r[1], interface |-> r[2],
                                                 proto |-> p, state |-> s])
    [] collector = "status" -> Cardinality(sent) = 1

\* If Update returns nil, a VRF that was there throughout is reported in full,
\* in both address families, although the VRFs were listed by one command and
\* asked for by others; and the count of BFD peers is that of the peers listed.
CompleteOnSuccess ==
  pc = "ok" =>
    /\ \A v \in stayed, i \in {k \in 1 .. Wanted : ~Misread(k)} : \E c \in had[v] : Reported(v, Afis[i], c)
    /\ \A m \in sent : m.family = "bfdPeerCount" =>
         m.value = Cardinality({n \in sent : n.family = "bfdPeerState"})

\* What fails leaves nothing behind where all is read before anything is sent:
\* bfd and vrrp that fail have sent nothing, route sends nothing before both
\* address families were answered, status never fails.  What pim sends is decoded
\* on the way, but it leaves the uptimes of one VRF at most without their count,
\* and of none if it succeeds.
FailureSendsNothing ==
  /\ pc = "err" => collector # "status"
  /\ pc = "err" /\ collector \in {"bfd", "vrrp"} => sent = {}
  /\ collector = "route" /\ sent # {} => Len(answers) = Wanted
HasCount(vrf) == \E v \in AllVrfs : Lower[v] = vrf /\ Has("neighborCount", [vrf |-> v])
UpTimesCounted ==
  LET lacking == {m \in sent : m.family = "upTime" /\ ~HasCount(m.label.vrf[2])} IN
  /\ \A m, n \in lacking : m.label.vrf = n.label.vrf
  /\ pc = "ok" => lacking = {}
FailureContained == FailureSendsNothing /\ UpTimesCounted

\* The collector keeps the promise of UpdateService to its caller: it gets to
\* the end of its answers and of the list of VRFs, whatever goes meanwhile.
Runs    == {"update"}
Outcome == [r \in Runs |-> IF pc \in {"ok", "err"} THEN pc ELSE "running"]
Output  == [r \in Runs |-> sent]
Promise == INSTANCE UpdateService WITH outcome <- Outcome, metrics <- Output
ImplementsUpdate == Promise!Spec

\* What a run has ahead of it: commands over all VRFs, and, for the answer of
\* each, steps of its processing and the VRFs that it may hold or be asked for.
StepsFrom ==
  CASE pc \in {"all", "process"} -> {"process", "list", "end"}
    [] pc = "list"               -> {"list", "end"}
    [] OTHER                     -> {"end"}
VrfsFrom ==
  CASE pc = "emit" -> DOMAIN left
    [] pc = "one"  -> {toAsk[i] : i \in DOMAIN toAsk}
    [] OTHER       -> AllVrfs
Open == {i \in 1 .. Wanted : pc \notin {"ok", "err"} /\ i >= at}
Ahead ==
  ({"ask"} \X {i \in Open : pc = "all" /\ i > Len(answers)})
    \cup ({"step"} \X {x \in Open \X {"process", "list", "end"} : x[1] = at => x[2] \in StepsFrom})
    \cup ({"vrf"} \X {x \in Open \X AllVrfs : x[1] = at => x[2] \in VrfsFrom})

\* Every step of the run is progress: it takes something from what is ahead and
\* adds nothing to it, and no change of FRR adds anything either.  Nothing is
\* tried again, and no list that FRR could make longer is gone through twice.
EveryStepCounts ==
  [][IF changes' = changes THEN Ahead' \subseteq Ahead /\ Ahead' # Ahead
                           ELSE Ahead' = Ahead]_vars

=============================================================================
