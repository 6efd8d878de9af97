----------------------------- MODULE BgpProofs -----------------------------
(***************************************************************************)
(* Proofs about BgpCollector, for any finite sets of peers and routes, any *)
(* options and any number of changes of FRR during a run: what is sent     *)
(* about a peer that FRR left alone is true, the two metrics of a          *)
(* monitored prefix come together, a run reports the summary in full or    *)
(* nothing at all, no series is sent twice if the names allow it; and      *)
(* every run comes to an end, after which none of its goroutines sends.    *)
(***************************************************************************)
EXTENDS BgpCollector, FiniteSetTheorems, TLAPS

\* The types that the argument needs.
Table(t) == DOMAIN t \subseteq Peers /\ t \in [DOMAIN t -> Peering]
Types ==
  /\ setup \in Setups
  /\ Table(frr) /\ Table(summary) /\ Table(neigh)
  /\ moved \subseteq Peers /\ pc \in PCs
  /\ left \subseteq DOMAIN summary
  /\ adv \in [Peers -> AdvPCs] /\ pres \in [Peers -> PresPCs]
  /\ seen \in [Peers -> SUBSET Routes]

\* Before the loop nothing was sent or started, and so it stays if one of the
\* commands before the loop fails.  Only bgpl2vpn has one after it.
NotStarted == sent = {} /\ \A p \in Peers : adv[p] = "none" /\ pres[p] = "none"
BeforeLoop ==
  /\ pc \in {"summary", "neighbors", "nexthop"} => NotStarted
  /\ pc = "err" /\ ~L2vpn => NotStarted
  /\ pc = "evpn" => L2vpn

\* Whatever was read about a peer that has not moved since is what FRR has.
FreshTable(t) == \A p \in DOMAIN frr \ moved : p \in DOMAIN t => t[p] = frr[p]
Fresh ==
  /\ pc = "summary" => DOMAIN summary = {} /\ DOMAIN neigh = {}
  /\ FreshTable(summary) /\ FreshTable(neigh)
  /\ \A p \in DOMAIN frr \ moved : pres[p] = "second" => seen[p] = frr[p].accepted

IInv == Types /\ BeforeLoop /\ Fresh /\ TruthfulWhenQuiet /\ PresencePaired

-----------------------------------------------------------------------------
\* The prefixes received are those accepted and those rejected, no prefix in
\* both: their numbers add up.
LEMMA ReceivedAddUp ==
  ASSUME NEW r \in Peering
  PROVE  /\ Cardinality(r.accepted \cup r.rejected) = Received(r)
         /\ Received(r) - Cardinality(r.accepted) = Cardinality(r.rejected)
<1>1. /\ r.accepted \subseteq Routes /\ r.rejected \subseteq Routes
      /\ r.accepted \cap r.rejected = {}
  BY PeeringAssumption DEF AnyPeering
<1>2. IsFiniteSet(r.accepted) /\ IsFiniteSet(r.rejected)
  BY <1>1, RoutesAssumption, FS_Subset
<1>3. Cardinality(r.accepted) \in Nat /\ Cardinality(r.rejected) \in Nat
  BY <1>2, FS_CardinalityType
<1>4. Cardinality(r.accepted \cap r.rejected) = 0
  BY <1>1, FS_EmptySet
<1>5. Cardinality(r.accepted \cup r.rejected)
        = Cardinality(r.accepted) + Cardinality(r.rejected)
          - Cardinality(r.accepted \cap r.rejected)
  BY <1>2, FS_Union
<1>6. QED
  BY <1>3, <1>4, <1>5 DEF Received

\* The tuples that name peers, and peers with prefixes, are told apart.
LEMMA Tuples ==
  /\ \A p, q \in Peers : \A x, y : PeerPrefix(p, x) = PeerPrefix(q, y) => p = q /\ x = y
  /\ \A p, q \in Peers : \A x : p # PeerPrefix(q, x)
  /\ \A p \in Peers : \A t : p # <<t>>
  /\ \A p, x, t : PeerPrefix(p, x) # <<t>>
BY PeersAssumption DEF PeerPrefix

\* What a turn of the loop sends about p is true of a peer with condition r, if
\* that is what both tables say of p.
LEMMA TurnTruth ==
  ASSUME NEW p \in Peers, NEW r \in Peering, summary[p] = r,
         p \in DOMAIN neigh => neigh[p] = r, NEW m \in PeerMetrics(p)
  PROVE  Truth(m, p, r)
<1> USE DEF Metric
<1>1. /\ Cardinality(r.accepted \cup r.rejected) = Received(r)
      /\ Received(r) - Cardinality(r.accepted) = Cardinality(r.rejected)
  BY ReceivedAddUp
<1>2. ASSUME m.of = p PROVE \A x \in Prefixes : m.of # PeerPrefix(p, x)
  BY <1>2, Tuples DEF PeerPrefix
<1>n. 2 # 1 /\ 0 # 1 /\ 0 # 2
  OBVIOUS
<1>3. CASE m = Metric("prefixReceivedCount", p, Received(summary[p]))
  BY <1>1, <1>2, <1>3 DEF Truth
<1>4. CASE m = Metric("state", p, PeerState(summary[p]))
  <2>1. m.m = "state" /\ m.of = p /\ m.v = PeerState(r)
    BY <1>4
  <2>2. /\ m.v = 1 <=> r.state = "established"
        /\ m.v = 2 <=> r.state = "idle (admin)"
    <3>1. CASE r.state = "established"
      BY <2>1, <3>1 DEF PeerState
    <3>2. CASE r.state = "idle (admin)"
      <4>1. m.v = 2 /\ r.state # "established"
        BY <2>1, <3>2 DEF PeerState
      <4>2. QED
        BY <1>n, <3>2, <4>1, Zenon
    <3>3. CASE r.state \notin {"established", "idle (admin)"}
      <4>1. m.v = 0
        BY <2>1, <3>3 DEF PeerState
      <4>2. QED
        BY <1>n, <3>3, <4>1, Zenon
    <3>4. QED
      BY <3>1, <3>2, <3>3
  <2>3. QED
    BY <1>2, <2>1, <2>2 DEF Truth
<1>5. CASE m \in AcceptedFiltered(p)
  <2>1. neigh[p] = r
    BY <1>5 DEF AcceptedFiltered, HasInfo
  <2>2. /\ m.of = p
        /\ \/ m.m = "prefixAcceptedCount" /\ m.v = Cardinality(r.accepted)
           \/ m.m = "prefixFilteredCount" /\ m.v = Received(r) - Cardinality(r.accepted)
    BY <1>5, <2>1 DEF AcceptedFiltered
  <2>3. QED
    BY <1>1, <1>2, <2>2 DEF Truth
<1>6. CASE m \in AdvertisedInSummary(p)
  <2>1. m.of = p /\ m.m = "prefixAdvertisedCount" /\ m.v = Cardinality(r.advertised)
    BY <1>6 DEF AdvertisedInSummary
  <2>2. QED
    BY <1>2, <2>1 DEF Truth
<1>7. QED
  BY <1>3, <1>4, <1>5, <1>6 DEF PeerMetrics

-----------------------------------------------------------------------------
\* Initially nothing was read and nothing sent.
LEMMA InitIInv == Init => IInv
<1> SUFFICES ASSUME Init PROVE IInv
  OBVIOUS
<1>1. Table(frr)
  <2>1. PICK ps \in SUBSET Peers : frr \in [ps -> Peering]
    BY DEF Init
  <2>2. QED
    BY <2>1 DEF Table
<1>2. Types
  BY <1>1 DEF Init, Types, Table, None, PCs, AdvPCs, PresPCs
<1>3. BeforeLoop /\ Fresh
  BY DEF Init, BeforeLoop, NotStarted, Fresh, FreshTable, None
<1>4. TruthfulWhenQuiet /\ PresencePaired
  BY DEF Init, TruthfulWhenQuiet, PresencePaired, Has
<1>5. QED
  BY <1>2, <1>3, <1>4 DEF IInv

\* Truth looks at the setup for the monitored prefixes only.
LEMMA SameTruth ==
  ASSUME setup' = setup, NEW m, NEW p, NEW r, Truth(m, p, r)
  PROVE  Truth(m, p, r)'
BY DEF Truth, Prefixes, Monitored

\* The peers FRR has are peers.
LEMMA Known == IInv => DOMAIN frr \subseteq Peers
BY DEF IInv, Types, Table

\* A step of the collector that leaves FRR alone: what it sends has to be true.
LEMMA StaysTrue ==
  ASSUME TruthfulWhenQuiet, frrVars' = frrVars,
         \A m \in sent' \ sent : \A p \in DOMAIN frr \ moved : Truth(m, p, frr[p])
  PROVE  TruthfulWhenQuiet'
<1>1. frr' = frr /\ moved' = moved /\ setup' = setup
  BY DEF frrVars
<1>2. \A p \in DOMAIN frr \ moved : \A m \in sent' : Truth(m, p, frr[p])
  BY DEF TruthfulWhenQuiet
<1>3. \A p \in DOMAIN frr \ moved : \A m \in sent' : Truth(m, p, frr[p])'
  <2>1. Prefixes' = Prefixes
    BY <1>1 DEF Prefixes, Monitored
  <2>2. QED
    BY <1>1, <1>2, <2>1 DEF Truth
<1>4. QED
  BY <1>1, <1>3 DEF TruthfulWhenQuiet

\* The two presence metrics.
OfPrefix == {"prefixReceived", "prefixAdvertised"}

\* A step that sends no metric of a monitored prefix leaves the pairs as they
\* were.
LEMMA StaysPaired ==
  ASSUME PresencePaired, setup' = setup, sent \subseteq sent',
         \A m \in sent' \ sent : m.m \notin OfPrefix
  PROVE  PresencePaired'
<1>1. \A p \in Peers, x \in Prefixes, n \in OfPrefix :
        Has(n, PeerPrefix(p, x))' <=> Has(n, PeerPrefix(p, x))
  BY DEF Has
<1>2. Prefixes' = Prefixes
  BY DEF Prefixes, Monitored
<1>3. QED
  BY <1>1, <1>2 DEF PresencePaired, OfPrefix

\* The metrics that are about no peer.
Impartial == {"peerCount", "peerTypesUp", "numRemoteVteps"}

\* A metric that is about nothing in particular is true of every peer.
LEMMA ImpartialTruth ==
  ASSUME NEW m, m.m \in Impartial, NEW t, m.of = <<t>>, NEW p \in Peers, NEW r
  PROVE  Truth(m, p, r)
<1>1. m.of # p /\ \A x : m.of # PeerPrefix(p, x)
  BY Tuples
<1>2. m.m \notin {"state", "prefixReceivedCount", "prefixAcceptedCount",
                  "prefixFilteredCount", "prefixAdvertisedCount"}
  BY DEF Impartial
<1>3. QED
  BY <1>1, <1>2 DEF Truth

\* A metric about one peer is true of every other peer.
LEMMA OtherTruth ==
  ASSUME NEW m, NEW p \in Peers, NEW q \in Peers, p # q, NEW r,
         m.of = q \/ \E x : m.of = PeerPrefix(q, x)
  PROVE  Truth(m, p, r)
<1>1. m.of # p /\ \A x : m.of # PeerPrefix(p, x)
  BY Tuples
<1>2. QED
  BY <1>1 DEF Truth

-----------------------------------------------------------------------------
\* FRR changes: the peer in question counts as moved from then on, unless
\* nothing was read yet.
LEMMA ChangeStep ==
  ASSUME IInv, Change
  PROVE  IInv'
<1>1. /\ setup' = setup /\ pc \notin {"ok", "err"}
      /\ UNCHANGED <<pc, summary, neigh, left, types, adv, pres, seen, sent>>
  BY DEF Change, kidVars, outVars
<1>2. PICK p \in Peers :
        /\ moved' = IF pc = "summary" THEN moved ELSE moved \cup {p}
        /\ \/ \E r \in Peering :
                frr' = [q \in DOMAIN frr \cup {p} |-> IF q = p THEN r ELSE frr[q]]
           \/ frr' = [q \in DOMAIN frr \ {p} |-> frr[q]]
  BY DEF Change
<1>3. Table(frr) /\ Table(frr')
  <2>1. Table(frr)
    BY DEF IInv, Types
  <2>2. QED
    BY <1>2, <2>1 DEF Table
<1>4. Types'
  <2>1. moved' \subseteq Peers
    BY <1>2 DEF IInv, Types
  <2>2. QED
    BY <1>1, <1>3, <2>1 DEF IInv, Types, Table
<1>5. BeforeLoop'
  BY <1>1 DEF IInv, BeforeLoop, NotStarted, L2vpn
<1>6. CASE pc = "summary"
  <2>1. sent = {} /\ \A q \in Peers : pres[q] = "none"
    BY <1>6 DEF IInv, BeforeLoop, NotStarted
  <2>2. TruthfulWhenQuiet' /\ PresencePaired'
    BY <1>1, <2>1 DEF TruthfulWhenQuiet, PresencePaired, Has
  <2>3. Fresh'
    BY <1>1, <1>3, <1>6, <2>1 DEF IInv, Fresh, FreshTable, Table
  <2>4. QED
    BY <1>4, <1>5, <2>2, <2>3 DEF IInv
<1>7. CASE pc # "summary"
  <2>1. \A q \in DOMAIN frr' \ moved' : q \in DOMAIN frr \ moved /\ frr'[q] = frr[q]
    BY <1>2, <1>7
  <2>2. TruthfulWhenQuiet'
    <3>1. \A q \in DOMAIN frr' \ moved' : \A m \in sent : Truth(m, q, frr'[q])
      BY <2>1 DEF IInv, TruthfulWhenQuiet
    <3>2. \A q \in DOMAIN frr' \ moved' : \A m \in sent : Truth(m, q, frr[q])'
      BY <1>1, <3>1 DEF Truth, Prefixes, Monitored
    <3>3. QED
      BY <1>1, <3>2 DEF TruthfulWhenQuiet
  <2>3. Fresh'
    BY <1>1, <1>7, <2>1 DEF IInv, Fresh, FreshTable
  <2>4. PresencePaired'
    BY <1>1 DEF IInv, PresencePaired, Has, Prefixes, Monitored
  <2>5. QED
    BY <1>4, <1>5, <2>2, <2>3, <2>4 DEF IInv
<1>8. QED
  BY <1>6, <1>7

\* The commands before the loop: what is read is what FRR has now.
LEMMA ReadStep ==
  ASSUME IInv, QuerySummary \/ QueryNeighbors \/ QueryNexthop
  PROVE  IInv'
<1> USE DEF frrVars, kidVars, outVars, Send
<1>1. /\ UNCHANGED <<setup, frr, changes, moved, adv, pres, seen, sent>>
      /\ pc \in {"summary", "neighbors", "nexthop"}
      /\ pc' \in {"neighbors", "nexthop", "loop", "err"}
      /\ summary' \in {summary, frr} /\ neigh' \in {neigh, frr}
      /\ left' = left \/ (left' = DOMAIN frr /\ summary' = frr)
      /\ left' = left => summary' = summary \/ left' \subseteq DOMAIN summary'
  BY DEF QuerySummary, QueryNeighbors, QueryNexthop, Fail
<1>2. left' \subseteq DOMAIN summary'
  BY <1>1 DEF IInv, Types
<1>3. Types'
  BY <1>1, <1>2 DEF IInv, Types, Table, PCs
<1>4. BeforeLoop'
  BY <1>1 DEF IInv, BeforeLoop, NotStarted
<1>5. Fresh'
  BY <1>1 DEF IInv, Fresh, FreshTable
<1>6. TruthfulWhenQuiet' /\ PresencePaired'
  BY <1>1, StaysTrue, StaysPaired DEF IInv
<1>7. QED
  BY <1>3, <1>4, <1>5, <1>6 DEF IInv

\* One turn of the loop.
LEMMA TurnStep ==
  ASSUME IInv, NEW p \in Peers, Turn(p)
  PROVE  IInv'
<1> USE DEF frrVars, outVars, Send
<1>1. /\ pc = "loop" /\ p \in left /\ left' = left \ {p}
      /\ sent' = sent \cup (ProcessMetrics(p[1]) \cup PeerMetrics(p))
      /\ UNCHANGED <<setup, frr, changes, moved, pc, summary, neigh, seen>>
      /\ adv' \in {adv, [adv EXCEPT ![p] = "run"]}
      /\ pres' \in {pres, [pres EXCEPT ![p] = "first"]}
  BY DEF Turn
<1>2. p \in DOMAIN summary
  BY <1>1 DEF IInv, Types
<1>3. Types'
  BY <1>1 DEF IInv, Types, Table, AdvPCs, PresPCs
<1>4. BeforeLoop'
  BY <1>1 DEF IInv, BeforeLoop
<1>5. Fresh'
  <2>1. \A q \in Peers : pres'[q] = "second" => pres[q] = "second"
    BY <1>1 DEF IInv, Types
  <2>2. DOMAIN frr \subseteq Peers
    BY DEF IInv, Types, Table
  <2>3. QED
    BY <1>1, <2>1, <2>2 DEF IInv, Fresh, FreshTable
<1>6. ASSUME NEW m \in PeerMetrics(p)
      PROVE  m.of = p /\ m.m \notin OfPrefix
  BY <1>6 DEF PeerMetrics, AcceptedFiltered, AdvertisedInSummary, Metric, OfPrefix
<1>7. ASSUME NEW m \in ProcessMetrics(p[1])
      PROVE  m.of = <<p[1]>> /\ m.m = "peerCount"
  BY <1>7 DEF ProcessMetrics, Metric
<1>8. TruthfulWhenQuiet'
  <2>1. ASSUME NEW m \in sent' \ sent, NEW q \in DOMAIN frr \ moved
        PROVE  Truth(m, q, frr[q])
    <3>1. CASE m \in ProcessMetrics(p[1])
      BY <1>7, <3>1, ImpartialTruth, Known DEF Impartial
    <3>2. CASE m \in PeerMetrics(p) /\ q # p
      BY <1>6, <3>2, OtherTruth, Known
    <3>3. CASE m \in PeerMetrics(p) /\ q = p
      <4>1. frr[p] \in Peering
        BY <3>3 DEF IInv, Types, Table
      <4>2. summary[p] = frr[p] /\ (p \in DOMAIN neigh => neigh[p] = frr[p])
        BY <1>2, <3>3 DEF IInv, Fresh, FreshTable
      <4>3. QED
        BY <3>3, <4>1, <4>2, TurnTruth
    <3>4. QED
      BY <1>1, <3>1, <3>2, <3>3
  <2>2. QED
    BY <1>1, <2>1, StaysTrue DEF IInv
<1>9. PresencePaired'
  <2>1. \A m \in sent' \ sent : m.m \notin OfPrefix
    BY <1>1, <1>6, <1>7 DEF OfPrefix
  <2>2. QED
    BY <1>1, <2>1, StaysPaired DEF IInv
<1>10. QED
  BY <1>3, <1>4, <1>5, <1>8, <1>9 DEF IInv

\* The end of the loop, the wait, and what comes after it.
LEMMA AfterLoopStep ==
  ASSUME IInv, EndLoop \/ Wait \/ EmitTypes \/ QueryEvpn
  PROVE  IInv'
<1> USE DEF frrVars, kidVars, outVars, Send
<1>1. /\ UNCHANGED <<setup, frr, changes, moved, summary, neigh, left, adv, pres, seen>>
      /\ pc \in {"loop", "wait", "types", "evpn"}
      /\ pc' \in {"wait", "types", "evpn", "ok", "err"}
      /\ pc' = "evpn" => L2vpn
      /\ pc' = "err" => pc = "evpn"
      /\ sent \subseteq sent'
  BY DEF EndLoop, Wait, AfterWait, EmitTypes, QueryEvpn, Fail
<1>2. ASSUME NEW m \in sent' \ sent
      PROVE  m.m \in {"peerTypesUp", "numRemoteVteps"} /\ \E t : m.of = <<t>>
  BY <1>2 DEF EndLoop, Wait, EmitTypes, QueryEvpn, Metric
<1>3. Types'
  BY <1>1 DEF IInv, Types, Table, PCs
<1>4. BeforeLoop'
  BY <1>1 DEF IInv, BeforeLoop, L2vpn
<1>5. Fresh'
  BY <1>1 DEF IInv, Fresh, FreshTable
<1>6. TruthfulWhenQuiet'
  <2>1. ASSUME NEW m \in sent' \ sent, NEW q \in DOMAIN frr \ moved
        PROVE  Truth(m, q, frr[q])
    BY <1>2, <2>1, ImpartialTruth, Known DEF Impartial
  <2>2. QED
    BY <1>1, <2>1, StaysTrue DEF IInv
<1>7. PresencePaired'
  <2>1. \A m \in sent' \ sent : m.m \notin OfPrefix
    BY <1>2 DEF OfPrefix
  <2>2. QED
    BY <1>1, <2>1, StaysPaired DEF IInv
<1>8. QED
  BY <1>3, <1>4, <1>5, <1>6, <1>7 DEF IInv

-----------------------------------------------------------------------------
\* The goroutine that counts the advertised prefixes.
LEMMA AdvertisedStep ==
  ASSUME IInv, NEW p \in Peers, Advertised(p)
  PROVE  IInv'
<1> USE DEF frrVars, outVars, Send
<1>1. /\ UNCHANGED <<setup, frr, changes, moved, pc, summary, neigh, left, types, pres, seen>>
      /\ adv[p] = "run"
      /\ adv' \in {[adv EXCEPT ![p] = "done"], [adv EXCEPT ![p] = "lost"]}
      /\ sent \subseteq sent'
  BY DEF Advertised
<1>2. ASSUME NEW m \in sent' \ sent
      PROVE  /\ m.m = "prefixAdvertisedCount" /\ m.of = p
             /\ m.v = Cardinality(AdvertisedNow(p))
  BY <1>2 DEF Advertised, Metric
<1>3. Types'
  BY <1>1 DEF IInv, Types, Table, AdvPCs
<1>4. BeforeLoop'
  BY <1>1 DEF IInv, BeforeLoop, NotStarted, L2vpn
<1>5. Fresh'
  BY <1>1 DEF IInv, Fresh, FreshTable
<1>6. TruthfulWhenQuiet'
  <2>1. ASSUME NEW m \in sent' \ sent, NEW q \in DOMAIN frr \ moved
        PROVE  Truth(m, q, frr[q])
    <3>1. CASE q # p
      BY <1>2, <3>1, OtherTruth, Known
    <3>2. CASE q = p
      <4>1. m.v = Cardinality(frr[p].advertised)
        BY <1>2, <3>2 DEF AdvertisedNow
      <4>2. \A x : m.of # PeerPrefix(p, x)
        BY <1>2, Tuples
      <4>3. QED
        BY <1>2, <3>2, <4>1, <4>2 DEF Truth
    <3>3. QED
      BY <3>1, <3>2
  <2>2. QED
    BY <1>1, <2>1, StaysTrue DEF IInv
<1>7. PresencePaired'
  <2>1. \A m \in sent' \ sent : m.m \notin OfPrefix
    BY <1>2 DEF OfPrefix
  <2>2. QED
    BY <1>1, <2>1, StaysPaired DEF IInv
<1>8. QED
  BY <1>3, <1>4, <1>5, <1>6, <1>7 DEF IInv

\* The first command of the other goroutine: nothing is sent.
LEMMA FirstStep ==
  ASSUME IInv, NEW p \in Peers, PresenceFirst(p)
  PROVE  IInv'
<1> USE DEF frrVars, outVars, Send
<1>1. /\ UNCHANGED <<setup, frr, changes, moved, pc, summary, neigh, left, types, adv, sent>>
      /\ pres[p] = "first"
      /\ \/ /\ pres' = [pres EXCEPT ![p] = "second"]
            /\ seen' = [seen EXCEPT ![p] = AcceptedNow(p)]
         \/ pres' = [pres EXCEPT ![p] = "lost"] /\ seen' = seen
  BY DEF PresenceFirst, SentAfterFirst
<1>2. AcceptedNow(p) \subseteq Routes
  BY PeeringAssumption DEF IInv, Types, Table, AcceptedNow, AnyPeering
<1>3. Types'
  BY <1>1, <1>2 DEF IInv, Types, Table, PresPCs
<1>4. BeforeLoop'
  BY <1>1 DEF IInv, BeforeLoop, NotStarted, L2vpn
<1>5. Fresh'
  <2>1. ASSUME NEW q \in DOMAIN frr \ moved, pres'[q] = "second"
        PROVE  seen'[q] = frr[q].accepted
    <3>1. q \in Peers
      BY <2>1 DEF IInv, Types, Table
    <3>2. CASE q # p
      BY <1>1, <2>1, <3>1, <3>2 DEF IInv, Types, Fresh
    <3>3. CASE q = p
      BY <1>1, <2>1, <3>1, <3>3 DEF IInv, Types, AcceptedNow
    <3>4. QED
      BY <3>2, <3>3
  <2>2. QED
    BY <1>1, <2>1 DEF IInv, Fresh, FreshTable
<1>6. TruthfulWhenQuiet' /\ PresencePaired'
  BY <1>1, StaysTrue, StaysPaired DEF IInv
<1>7. QED
  BY <1>3, <1>4, <1>5, <1>6 DEF IInv

\* The second command: both metrics of every monitored prefix, or none.
LEMMA SecondStep ==
  ASSUME IInv, NEW p \in Peers, PresenceSecond(p)
  PROVE  IInv'
<1> USE DEF frrVars, outVars, Send
<1>1. /\ UNCHANGED <<setup, frr, changes, moved, pc, summary, neigh, left, types, adv, seen>>
      /\ pres[p] = "second"
      /\ \/ /\ pres' = [pres EXCEPT ![p] = "done"]
            /\ sent' = sent \cup (ReceivedMetrics(p, seen[p])
                             \cup AdvertisedMetrics(p, AdvertisedNow(p)))
         \/ pres' = [pres EXCEPT ![p] = "lost"] /\ sent' = sent
  BY DEF PresenceSecond
<1>2. Types'
  BY <1>1 DEF IInv, Types, Table, PresPCs
<1>3. BeforeLoop'
  BY <1>1 DEF IInv, BeforeLoop, NotStarted, L2vpn
<1>4. Fresh'
  <2>1. \A q \in Peers : pres'[q] = "second" => pres[q] = "second"
    BY <1>1 DEF IInv, Types
  <2>2. DOMAIN frr \subseteq Peers
    BY DEF IInv, Types, Table
  <2>3. QED
    BY <1>1, <2>1, <2>2 DEF IInv, Fresh, FreshTable
<1>5. ASSUME NEW m \in sent' \ sent
      PROVE  \E x \in Prefixes :
               /\ m.of = PeerPrefix(p, x)
               /\ \/ m.m = "prefixReceived" /\ m.v = Presence(x \in seen[p])
                  \/ m.m = "prefixAdvertised" /\ m.v = Presence(x \in AdvertisedNow(p))
  BY <1>1, <1>5 DEF ReceivedMetrics, AdvertisedMetrics, Metric
<1>6. TruthfulWhenQuiet'
  <2>1. ASSUME NEW m \in sent' \ sent, NEW q \in DOMAIN frr \ moved
        PROVE  Truth(m, q, frr[q])
    <3>1. PICK x \in Prefixes :
               /\ m.of = PeerPrefix(p, x)
               /\ \/ m.m = "prefixReceived" /\ m.v = Presence(x \in seen[p])
                  \/ m.m = "prefixAdvertised" /\ m.v = Presence(x \in AdvertisedNow(p))
      BY <1>5
    <3>2. CASE q # p
      BY <3>1, <3>2, OtherTruth, Known
    <3>3. CASE q = p
      <4>1. m.of # p /\ \A y : m.of = PeerPrefix(p, y) => y = x
        BY <3>1, Tuples
      <4>2. seen[p] = frr[p].accepted /\ AdvertisedNow(p) = frr[p].advertised
        BY <1>1, <3>3 DEF IInv, Fresh, AdvertisedNow
      <4>3. m.v = 1 <=> x \in IF m.m = "prefixReceived" THEN frr[p].accepted
                                                        ELSE frr[p].advertised
        <5>1. \A S : (Presence(x \in S) = 1) <=> x \in S
          BY DEF Presence
        <5>2. CASE m.m = "prefixReceived"
          <6>1. m.v = Presence(x \in frr[p].accepted)
            BY <3>1, <4>2, <5>2
          <6>2. QED
            BY <5>1, <5>2, <6>1, Zenon
        <5>3. CASE m.m # "prefixReceived"
          <6>1. m.v = Presence(x \in frr[p].advertised)
            BY <3>1, <4>2, <5>3
          <6>2. QED
            BY <5>1, <5>3, <6>1, Zenon
        <5>4. QED
          BY <5>2, <5>3
      <4>4. QED
        BY <3>3, <4>1, <4>3 DEF Truth
    <3>4. QED
      BY <3>2, <3>3
  <2>2. QED
    BY <1>1, <2>1, StaysTrue DEF IInv
<1>7. PresencePaired'
  <2>1. CASE sent' = sent
    BY <1>1, <2>1, StaysPaired DEF IInv
  <2>2. CASE sent' = sent \cup (ReceivedMetrics(p, seen[p])
                           \cup AdvertisedMetrics(p, AdvertisedNow(p)))
    <3>1. Prefixes' = Prefixes
      BY <1>1 DEF Prefixes, Monitored
    <3>2. ASSUME NEW q \in Peers, NEW x \in Prefixes, q # p, NEW n
          PROVE  Has(n, PeerPrefix(q, x))' <=> Has(n, PeerPrefix(q, x))
      <4>1. \A m \in sent' \ sent : m.of # PeerPrefix(q, x)
        BY <1>5, <3>2, Tuples
      <4>2. QED
        BY <2>2, <4>1 DEF Has
    <3>3. ASSUME NEW x \in Prefixes
          PROVE  Has("prefixReceived", PeerPrefix(p, x))' /\ Has("prefixAdvertised", PeerPrefix(p, x))'
      <4>1. /\ Metric("prefixReceived", PeerPrefix(p, x), Presence(x \in seen[p])) \in sent'
            /\ Metric("prefixAdvertised", PeerPrefix(p, x), Presence(x \in AdvertisedNow(p))) \in sent'
        BY <2>2 DEF ReceivedMetrics, AdvertisedMetrics
      <4>2. QED
        BY <4>1 DEF Has, Metric
    <3>4. QED
      BY <3>1, <3>2, <3>3 DEF IInv, PresencePaired
  <2>3. QED
    BY <1>1, <2>1, <2>2
<1>8. QED
  BY <1>2, <1>3, <1>4, <1>6, <1>7 DEF IInv

-----------------------------------------------------------------------------
\* Every step preserves the invariant.
LEMMA NextIInv == IInv /\ [Next]_vars => IInv'
<1> SUFFICES ASSUME IInv, [Next]_vars PROVE IInv'
  OBVIOUS
<1>1. CASE UNCHANGED vars
  <2>1. /\ UNCHANGED <<setup, frr, moved, pc, summary, neigh, left, adv, pres, seen, sent>>
        /\ frrVars' = frrVars
    BY <1>1 DEF vars, frrVars, kidVars, outVars
  <2>2. Types' /\ BeforeLoop' /\ Fresh'
    BY <2>1 DEF IInv, Types, Table, BeforeLoop, NotStarted, L2vpn, Fresh, FreshTable
  <2>3. TruthfulWhenQuiet' /\ PresencePaired'
    BY <2>1, StaysTrue, StaysPaired DEF IInv
  <2>4. QED
    BY <2>2, <2>3 DEF IInv
<1>2. CASE Change
  BY <1>2, ChangeStep
<1>3. CASE Update
  BY <1>3, ReadStep, TurnStep, AfterLoopStep DEF Update
<1>4. ASSUME NEW p \in Peers, Goroutine(p) PROVE IInv'
  BY <1>4, AdvertisedStep, FirstStep, SecondStep DEF Goroutine
<1>5. CASE Returned
  BY <1>1, <1>5 DEF Returned
<1>6. QED
  BY <1>1, <1>2, <1>3, <1>4, <1>5 DEF Next

\* The inductive invariant holds of every reachable state.
LEMMA Invariance == Spec => []IInv
BY InitIInv, NextIInv, PTL DEF Spec

\* Whichever command and goroutine it came from, what is sent about a peer that
\* FRR left alone since the summary is what FRR has (processBGPSummary,
\* getPeerAdvertisedPrefixes, getPeerPrefixPresence).
THEOREM Truthful == Spec => []TruthfulWhenQuiet
<1>1. IInv => TruthfulWhenQuiet
  BY DEF IInv
<1>2. QED
  BY <1>1, Invariance, PTL

\* The two metrics of a monitored prefix are sent together or not at all
\* (getPeerPrefixPresence, processPeerPrefixPresence).
THEOREM Paired == Spec => []PresencePaired
<1>1. IInv => PresencePaired
  BY DEF IInv
<1>2. QED
  BY <1>1, Invariance, PTL

\* The two chains of flags put the same labels in the same order (getBGPDesc,
\* processBGPSummary).
THEOREM LabelsCorrect == Spec => []LabelsAsNamed
<1>1. LabelsAsNamed
  <2>1. peerLabels = bgpPeerLabels
    BY DEF peerLabels, bgpPeerLabels, procLabels, bgpLabels
  <2>2. procLabels = bgpLabels
    BY DEF procLabels, bgpLabels
  <2>3. \A m : Labels(m) = Described(m)
    BY <2>1, <2>2 DEF Labels, Described
  <2>4. QED
    BY <2>3 DEF LabelsAsNamed
<1>2. QED
  BY <1>1, PTL

-----------------------------------------------------------------------------
(* What a run reports, and when.                                           *)

\* The peers whose turn of the loop has been, and the metrics that only some
\* peers have.
Turned   == DOMAIN summary \ left
OfAF     == {"prefixAcceptedCount", "prefixFilteredCount"}
Optional == OfAF \cup {"prefixAdvertisedCount"}

\* After its turn a peer has its metrics, and its process has; its advertised
\* count is from the summary or from the goroutine.
PeerInv(p) ==
  /\ p \in Turned =>
       Has("peerCount", <<p[1]>>) /\ Has("state", p) /\ Has("prefixReceivedCount", p)
  /\ \A m \in OfAF : Has(m, p) <=> p \in Turned /\ "accepted" \in Flags /\ HasInfo(p)
  /\ adv[p] # "none" <=> p \in Turned /\ AsksAdvertised(p)
  /\ Has("prefixAdvertisedCount", p) <=>
       (p \in Turned /\ summary[p].pfxSnt) \/ adv[p] = "done"

\* How far the loop is, that nothing runs after the wait, and where a run fails.
Stages ==
  /\ pc = "summary" => DOMAIN summary = {}
  /\ pc \in {"neighbors", "nexthop"} => left = DOMAIN summary
  /\ pc \in {"wait", "types", "evpn", "ok"} => left = {}
  /\ pc \in {"types", "evpn", "ok"} => Running = {}
  /\ pc = "err" => NotStarted \/ (L2vpn /\ left = {} /\ Running = {})

RunInv == Stages /\ \A p \in Peers : PeerInv(p)

\* A step keeps what it neither changes nor sends an optional metric of.
LEMMA PeerFrame ==
  ASSUME NEW p \in Peers, PeerInv(p), setup' = setup, adv'[p] = adv[p],
         p \in Turned' <=> p \in Turned,
         p \in Turned => summary'[p] = summary[p] /\ (HasInfo(p)' <=> HasInfo(p)),
         sent \subseteq sent', \A m \in sent' \ sent : m.m \in Optional => m.of # p
  PROVE  PeerInv(p)'
<1>1. \A n, of : Has(n, of) => Has(n, of)'
  BY DEF Has
<1>2. \A n \in Optional : Has(n, p)' <=> Has(n, p)
  BY DEF Has
<1>3. Flags' = Flags /\ (p \in Turned => (AsksAdvertised(p)' <=> AsksAdvertised(p)))
  BY DEF Flags, AsksAdvertised
<1>4. QED
  BY <1>1, <1>2, <1>3 DEF PeerInv, OfAF, Optional

\* Initially there is nothing of any peer.
LEMMA InitRunInv == Init => RunInv
<1> SUFFICES ASSUME Init PROVE RunInv
  OBVIOUS
<1>1. Turned = {} /\ sent = {} /\ \A p \in Peers : adv[p] = "none"
  BY DEF Init, None, Turned
<1>2. Stages
  BY DEF Init, None, Stages
<1>3. QED
  BY <1>1, <1>2 DEF RunInv, PeerInv, Has

\* The turn of p: its metrics, with the count if the summary has it.
LEMMA TurnRunInv ==
  ASSUME IInv, RunInv, NEW p \in Peers, Turn(p)
  PROVE  RunInv'
<1> USE DEF frrVars, outVars, Send
<1> DEFINE new == ProcessMetrics(p[1]) \cup PeerMetrics(p)
<1>1. /\ pc = "loop" /\ p \in left /\ left' = left \ {p} /\ left \subseteq DOMAIN summary
      /\ sent' = sent \cup new
      /\ UNCHANGED <<setup, frr, changes, moved, pc, summary, neigh, seen>>
      /\ adv' = IF AsksAdvertised(p) THEN [adv EXCEPT ![p] = "run"] ELSE adv
      /\ adv \in [Peers -> AdvPCs]
  BY DEF Turn, IInv, Types
<1>2. Turned' = Turned \cup {p} /\ p \notin Turned
  BY <1>1 DEF Turned
<1>3. Stages'
  BY <1>1 DEF RunInv, Stages
<1>4. \A m \in ProcessMetrics(p[1]) : m.m = "peerCount"
  BY DEF ProcessMetrics, Metric
<1>5. \A m \in PeerMetrics(p) : m.of = p
  BY DEF PeerMetrics, AcceptedFiltered, AdvertisedInSummary, Metric
<1>6. /\ Flags' = Flags
      /\ \A q : (HasInfo(q)' <=> HasInfo(q)) /\ (AsksAdvertised(q)' <=> AsksAdvertised(q))
  BY <1>1 DEF HasInfo, Flags, AsksAdvertised
<1>7. ASSUME NEW q \in Peers, q # p PROVE PeerInv(q)'
  <2>1. \A m \in sent' \ sent : m.m \in Optional => m.of # q
    BY <1>1, <1>4, <1>5, <1>7 DEF Optional, OfAF
  <2>2. adv'[q] = adv[q]
    BY <1>1, <1>7
  <2>3. QED
    BY <1>1, <1>2, <1>6, <1>7, <2>1, <2>2, PeerFrame DEF RunInv
<1>8. PeerInv(p)'
  <2>1. adv[p] = "none" /\ \A n \in Optional : ~Has(n, p)
    BY <1>2 DEF RunInv, PeerInv, Optional
  <2>2. \A n \in Optional : Has(n, p)' <=> \E m \in PeerMetrics(p) : m.m = n
    BY <1>1, <1>4, <1>5, <2>1 DEF Has, Optional, OfAF
  <2>3. ASSUME NEW n \in OfAF
        PROVE  Has(n, p)' <=> "accepted" \in Flags /\ HasInfo(p)
    <3>1. Has(n, p)' <=> \E m \in AcceptedFiltered(p) : m.m = n
      BY <2>2 DEF PeerMetrics, AdvertisedInSummary, Metric, OfAF, Optional
    <3>2. CASE "accepted" \in Flags /\ HasInfo(p)
      <4>1. \E m \in AcceptedFiltered(p) : m.m = n
        BY <3>2 DEF AcceptedFiltered, Metric, OfAF
      <4>2. QED
        BY <3>1, <3>2, <4>1
    <3>3. CASE ~("accepted" \in Flags /\ HasInfo(p))
      BY <3>1, <3>3 DEF AcceptedFiltered
    <3>4. QED
      BY <3>2, <3>3
  <2>4. Has("prefixAdvertisedCount", p)' <=> summary[p].pfxSnt
    <3>1. Has("prefixAdvertisedCount", p)' <=>
            \E m \in AdvertisedInSummary(p) : m.m = "prefixAdvertisedCount"
      BY <2>2 DEF PeerMetrics, AcceptedFiltered, Metric, OfAF, Optional
    <3>2. QED
      BY <3>1 DEF AdvertisedInSummary, Metric
  <2>5. Has("state", p)' /\ Has("prefixReceivedCount", p)'
    <3>1. /\ Metric("state", p, PeerState(summary[p])) \in sent'
          /\ Metric("prefixReceivedCount", p, Received(summary[p])) \in sent'
      BY <1>1 DEF PeerMetrics
    <3>2. QED
      BY <3>1 DEF Has, Metric
  <2>6. Has("peerCount", <<p[1]>>)'
    <3>1. CASE Begun(p[1])
      <4>1. PICK q \in DOMAIN summary \ left : q[1] = p[1]
        BY <3>1 DEF Begun, Of
      <4>2. q \in Peers /\ q \in Turned
        BY <4>1 DEF Turned, IInv, Types, Table
      <4>3. Has("peerCount", <<p[1]>>)
        BY <4>1, <4>2 DEF RunInv, PeerInv
      <4>4. QED
        BY <1>1, <4>3 DEF Has
    <3>2. CASE ~Begun(p[1])
      <4>1. Metric("peerCount", <<p[1]>>, Cardinality(Of(p[1]))) \in sent'
        BY <1>1, <3>2 DEF ProcessMetrics
      <4>2. QED
        BY <4>1 DEF Has, Metric
    <3>3. QED
      BY <3>1, <3>2
  <2>7. adv'[p] = IF AsksAdvertised(p) THEN "run" ELSE "none"
    BY <1>1, <2>1
  <2>8. summary' = summary /\ p \in Turned'
    BY <1>1, <1>2
  <2>9. QED
    BY <1>6, <2>3, <2>4, <2>5, <2>6, <2>7, <2>8 DEF PeerInv
<1>9. QED
  BY <1>3, <1>7, <1>8 DEF RunInv

\* The goroutine that counts was started because the summary has no count.
LEMMA AdvertisedRunInv ==
  ASSUME IInv, RunInv, NEW p \in Peers, Advertised(p)
  PROVE  RunInv'
<1> USE DEF frrVars, outVars, Send
<1> DEFINE count == Metric("prefixAdvertisedCount", p, Cardinality(AdvertisedNow(p)))
<1>1. /\ UNCHANGED <<setup, frr, changes, moved, pc, summary, neigh, left, types, pres, seen>>
      /\ adv[p] = "run" /\ adv \in [Peers -> AdvPCs]
      /\ \/ adv' = [adv EXCEPT ![p] = "done"] /\ sent' = sent \cup {count}
         \/ adv' = [adv EXCEPT ![p] = "lost"] /\ sent' = sent
  BY DEF Advertised, IInv, Types
<1>2. count.m = "prefixAdvertisedCount" /\ count.of = p
  BY DEF Metric
<1>3. /\ Turned' = Turned /\ Flags' = Flags
      /\ \A q : (HasInfo(q)' <=> HasInfo(q)) /\ (AsksAdvertised(q)' <=> AsksAdvertised(q))
  BY <1>1 DEF Turned, Flags, HasInfo, AsksAdvertised
<1> HIDE DEF count
<1>4. Stages'
  <2>1. Running' \subseteq Running /\ ~NotStarted
    BY <1>1 DEF Running, NotStarted
  <2>2. QED
    BY <1>1, <2>1 DEF RunInv, Stages, L2vpn
<1>5. ASSUME NEW q \in Peers, q # p PROVE PeerInv(q)'
  BY <1>1, <1>2, <1>3, <1>5, PeerFrame DEF RunInv
<1>6. PeerInv(p)'
  <2>1. /\ p \in Turned /\ AsksAdvertised(p) /\ ~summary[p].pfxSnt /\ PeerInv(p)
        /\ ~Has("prefixAdvertisedCount", p)
    BY <1>1 DEF RunInv, PeerInv, AsksAdvertised
  <2>2. \A n, of : n # "prefixAdvertisedCount" => (Has(n, of)' <=> Has(n, of))
    BY <1>1, <1>2 DEF Has
  <2>3. Has("prefixAdvertisedCount", p)' <=> adv'[p] = "done"
    BY <1>1, <1>2, <2>1 DEF Has
  <2>4. adv'[p] # "none" /\ summary' = summary
    BY <1>1
  <2>5. QED
    BY <1>3, <2>1, <2>2, <2>3, <2>4 DEF PeerInv, OfAF
<1>7. QED
  BY <1>4, <1>5, <1>6 DEF RunInv

\* All other steps send no optional metric and have no turn.
LEMMA OtherRunInv ==
  ASSUME IInv, RunInv,
         \/ Change \/ UNCHANGED vars
         \/ QuerySummary \/ QueryNeighbors \/ QueryNexthop
         \/ EndLoop \/ Wait \/ EmitTypes \/ QueryEvpn
         \/ \E p \in Peers : PresenceFirst(p) \/ PresenceSecond(p)
  PROVE  RunInv'
<1> USE DEF frrVars, kidVars, outVars, Send
<1>1. setup' = setup /\ adv' = adv /\ sent \subseteq sent'
  BY DEF Change, vars, QuerySummary, QueryNeighbors, QueryNexthop, EndLoop, Wait,
         EmitTypes, QueryEvpn, PresenceFirst, PresenceSecond
<1>2. \A m \in sent' \ sent : m.m \notin Optional
  BY DEF Change, vars, QuerySummary, QueryNeighbors, QueryNexthop, EndLoop, Wait,
         EmitTypes, QueryEvpn, PresenceFirst, PresenceSecond, SentAfterFirst,
         ReceivedMetrics, AdvertisedMetrics, Metric, Optional, OfAF
<1>3. /\ Turned' = Turned
      /\ \A p \in Turned : summary'[p] = summary[p] /\ (HasInfo(p)' <=> HasInfo(p))
  <2>1. CASE QuerySummary \/ QueryNeighbors
    BY <2>1 DEF QuerySummary, QueryNeighbors, Fail, Turned, RunInv, Stages
  <2>2. CASE ~(QuerySummary \/ QueryNeighbors)
    <3>1. UNCHANGED <<summary, left, neigh>>
      BY <2>2 DEF Change, vars, QueryNexthop, EndLoop, Wait, EmitTypes, QueryEvpn,
                  PresenceFirst, PresenceSecond
    <3>2. QED
      BY <3>1 DEF Turned, HasInfo
  <2>3. QED
    BY <2>1, <2>2
<1>4. Running' \subseteq Running
  <2>1. CASE \E p \in Peers : PresenceFirst(p) \/ PresenceSecond(p)
    BY <1>1, <2>1 DEF PresenceFirst, PresenceSecond, Running, IInv, Types
  <2>2. CASE ~\E p \in Peers : PresenceFirst(p) \/ PresenceSecond(p)
    <3>1. pres' = pres
      BY <2>2 DEF Change, vars, QuerySummary, QueryNeighbors, QueryNexthop, EndLoop, Wait,
                  EmitTypes, QueryEvpn
    <3>2. QED
      BY <1>1, <3>1 DEF Running
  <2>3. QED
    BY <2>1, <2>2
<1>5. Stages'
  <2>1. CASE QuerySummary \/ QueryNeighbors \/ QueryNexthop
    <3>1. NotStarted /\ NotStarted'
      BY <2>1 DEF QuerySummary, QueryNeighbors, QueryNexthop, IInv, BeforeLoop, NotStarted
    <3>2. QED
      BY <2>1, <3>1 DEF QuerySummary, QueryNeighbors, QueryNexthop, Fail, RunInv, Stages
  <2>2. CASE EndLoop \/ Wait \/ EmitTypes
    BY <1>4, <2>2 DEF EndLoop, Wait, WaitOver, AfterWait, EmitTypes, RunInv, Stages
  <2>3. CASE QueryEvpn
    <3>1. L2vpn' /\ left' = {} /\ Running' = {} /\ pc' \in {"ok", "err"}
      BY <1>1, <1>4, <2>3 DEF QueryEvpn, Fail, L2vpn, IInv, BeforeLoop, RunInv, Stages
    <3>2. QED
      BY <3>1 DEF Stages
  <2>4. CASE \E p \in Peers : PresenceFirst(p) \/ PresenceSecond(p)
    <3>1. UNCHANGED <<pc, summary, left, L2vpn>> /\ ~NotStarted
      BY <1>1, <2>4 DEF PresenceFirst, PresenceSecond, NotStarted, L2vpn
    <3>2. QED
      BY <1>4, <3>1 DEF RunInv, Stages
  <2>5. CASE Change \/ UNCHANGED vars
    <3>1. UNCHANGED <<pc, summary, left, L2vpn, sent, adv, pres>>
      BY <1>1, <2>5 DEF Change, vars, L2vpn
    <3>2. QED
      BY <1>4, <3>1 DEF RunInv, Stages, NotStarted
  <2>6. QED
    BY <2>1, <2>2, <2>3, <2>4, <2>5
<1>6. \A p \in Peers : PeerInv(p)'
  BY <1>1, <1>2, <1>3, PeerFrame DEF RunInv
<1>7. QED
  BY <1>5, <1>6 DEF RunInv

\* Every step preserves what the run has done.
LEMMA NextRunInv == IInv /\ RunInv /\ [Next]_vars => RunInv'
BY TurnRunInv, AdvertisedRunInv, OtherRunInv DEF Next, Update, Goroutine, Returned

\* In every reachable state.
LEMMA RunInvariance == Spec => [](IInv /\ RunInv)
<1>1. Init => IInv /\ RunInv
  BY InitIInv, InitRunInv
<1>2. (IInv /\ RunInv) /\ [Next]_vars => (IInv /\ RunInv)'
  BY NextIInv, NextRunInv
<1>3. QED
  BY <1>1, <1>2, PTL DEF Spec

\* When every peer has had its turn and nothing runs, the summary is reported.
LEMMA Reported ==
  ASSUME IInv, RunInv, left = {}, Running = {}
  PROVE  SummaryReported
<1>1. ASSUME NEW p \in DOMAIN summary
      PROVE  /\ p \in Turned /\ PeerInv(p)
             /\ adv[p] = "done" <=> AsksAdvertised(p) /\ adv[p] # "lost"
  <2>1. p \in Peers /\ p \in Turned /\ PeerInv(p)
    BY DEF IInv, Types, Table, Turned, RunInv
  <2>2. adv[p] \in {"none", "done", "lost"}
    BY <2>1 DEF Running, IInv, Types, AdvPCs
  <2>3. QED
    BY <2>1, <2>2 DEF PeerInv
<1>2. ASSUME NEW p \in DOMAIN summary
      PROVE  Has("prefixAdvertisedCount", p) <=>
               summary[p].pfxSnt \/ ("advertised" \in Flags /\ adv[p] # "lost")
  BY <1>1 DEF PeerInv, AsksAdvertised
<1>3. QED
  BY <1>1, <1>2 DEF SummaryReported, PeerInv, OfAF

\* If Update returns nil no goroutine runs, and every VRF and every peer of the
\* summary has its metrics: the advertised count, too, unless this peer's field
\* is missing and it was not to be asked for, or was not answered
\* (processBGPSummary).
THEOREM NothingLeftOut == Spec => []CompleteOnSuccess
<1>1. IInv /\ RunInv => CompleteOnSuccess
  BY Reported DEF CompleteOnSuccess, RunInv, Stages
<1>2. QED
  BY <1>1, RunInvariance, PTL

\* An error of Update means that nothing was sent and no goroutine started; or
\* it is bgpl2vpn's, that zebra did not answer, and all of the summary is sent
\* and every goroutine done.
THEOREM FailsWhole == Spec => []AllOrNothing
<1>1. IInv /\ RunInv => AllOrNothing
  BY Reported DEF AllOrNothing, RunInv, Stages, NotStarted
<1>2. QED
  BY <1>1, RunInvariance, PTL

-----------------------------------------------------------------------------
(* What the peer types count, if no peer has two keys of one value.        *)

DistinctTypes ==
  \A p \in Peers : \A i, j \in DOMAIN TypesOf[p] : TypesOf[p][i] = TypesOf[p][j] => i = j

\* The peers counted for a type are those whose turn has been, that the
\* neighbours describe with it, and that the summary says are established.
Describes(p, t)  == \E i \in DOMAIN TypesOf[p] : TypesOf[p][i] = t
Looked           == Turned \cap DOMAIN neigh
Described1(t)    == {p \in Looked : Describes(p, t)}
Established(t)   == {p \in Described1(t) : summary[p].state = "established"}
Ups       == {m \in sent : m.m = "peerTypesUp"}
UpMetrics == {Metric("peerTypesUp", <<t>>, types[t]) : t \in DOMAIN types}

CountInv ==
  /\ \A t : t \in DOMAIN types <=> "types" \in Flags /\ Described1(t) # {}
  /\ \A t \in DOMAIN types : types[t] = Cardinality(Established(t))
UpsInv ==
  /\ pc \in {"evpn", "ok"} => Ups = UpMetrics
  /\ pc \notin {"evpn", "ok", "err"} => Ups = {}

TypesInv == CountInv /\ UpsInv

\* What is counted is finite, and no more than there are peers.
LEMMA CountedFinite ==
  ASSUME IInv, NEW t
  PROVE  /\ IsFiniteSet(Established(t))
         /\ Cardinality(Established(t)) \in 0 .. Cardinality(Peers)
<1>1. Established(t) \subseteq Peers
  BY DEF Established, Described1, Looked, Turned, IInv, Types, Table
<1>2. QED
  BY <1>1, PeersAssumption, FS_Subset, FS_CardinalityType

\* A step that touches neither the counts nor what they are counted over.
LEMMA CountFrame ==
  ASSUME CountInv, setup' = setup, types' = types, Looked' = Looked,
         \A p \in Looked : summary'[p] = summary[p]
  PROVE  CountInv'
<1>1. \A t : Described1(t)' = Described1(t) /\ Established(t)' = Established(t)
  BY DEF Described1, Established
<1>2. QED
  BY <1>1 DEF CountInv, Flags

\* A key stands at one place of the description, if at any.
LEMMA OnePlace ==
  ASSUME DistinctTypes, NEW p \in Peers, NEW t
  PROVE  Cardinality({i \in DOMAIN TypesOf[p] : TypesOf[p][i] = t})
           = IF Describes(p, t) THEN 1 ELSE 0
<1> DEFINE places == {i \in DOMAIN TypesOf[p] : TypesOf[p][i] = t}
<1>1. CASE Describes(p, t)
  <2>1. PICK i \in DOMAIN TypesOf[p] : TypesOf[p][i] = t
    BY <1>1 DEF Describes
  <2>2. places = {i}
    BY <2>1 DEF DistinctTypes
  <2>3. QED
    BY <1>1, <2>2, FS_Singleton
<1>2. CASE ~Describes(p, t)
  <2>1. places = {}
    BY <1>2 DEF Describes
  <2>2. QED
    BY <1>2, <2>1, FS_EmptySet
<1>3. QED
  BY <1>1, <1>2

\* The turn of p counts it under the types it is described with.
LEMMA TurnCounts ==
  ASSUME DistinctTypes, IInv, CountInv, NEW p \in Peers, Turn(p)
  PROVE  CountInv'
<1> USE DEF frrVars, outVars, Send
<1>1. /\ p \in left /\ left' = left \ {p} /\ left \subseteq DOMAIN summary
      /\ types' = CountTypes(p)
      /\ UNCHANGED <<setup, summary, neigh>>
  BY DEF Turn, IInv, Types
<1>2. Turned' = Turned \cup {p} /\ p \notin Turned
  BY <1>1 DEF Turned
<1>3. Flags' = Flags
  BY <1>1 DEF Flags
<1> DEFINE up == summary[p].state = "established"
           ts == DescTypes(p)
           number(t) == IF up THEN Cardinality({i \in DOMAIN ts : ts[i] = t}) ELSE 0
<1>4. /\ \A t : t \in DOMAIN types' <=> t \in DOMAIN types \/ \E i \in DOMAIN ts : ts[i] = t
      /\ \A t \in DOMAIN types' :
           types'[t] = (IF t \in DOMAIN types THEN types[t] ELSE 0) + number(t)
  BY <1>1 DEF CountTypes
<1>5. CASE ~("types" \in Flags /\ p \in DOMAIN neigh)
  <2>1. DOMAIN ts = {}
    BY <1>5 DEF DescTypes
  <2>2. \A t : number(t) = 0
    <3>1. \A t : {i \in DOMAIN ts : ts[i] = t} = {}
      BY <2>1
    <3>2. QED
      BY <3>1, FS_EmptySet
  <2>3. CASE "types" \notin Flags
    BY <1>3, <1>4, <2>1, <2>3 DEF CountInv
  <2>4. CASE p \notin DOMAIN neigh
    <3>1. Looked' = Looked
      BY <1>1, <1>2, <2>4 DEF Looked
    <3>2. \A t : Described1(t)' = Described1(t) /\ Established(t)' = Established(t)
      BY <1>1, <3>1 DEF Described1, Established
    <3>3. \A t \in DOMAIN types : types[t] \in Nat
      BY CountedFinite DEF CountInv
    <3>4. \A t : t \in DOMAIN types' <=> t \in DOMAIN types
      BY <1>4, <2>1
    <3>5. \A t \in DOMAIN types' : types'[t] = types[t]
      <4> TAKE t \in DOMAIN types'
      <4>1. types'[t] = types[t] + number(t) /\ number(t) = 0 /\ types[t] \in Nat
        BY <1>4, <2>2, <3>3, <3>4
      <4> HIDE DEF number
      <4>2. QED
        BY <4>1
    <3>6. QED
      BY <1>3, <3>2, <3>4, <3>5 DEF CountInv
  <2>5. QED
    BY <1>5, <2>3, <2>4
<1>6. CASE "types" \in Flags /\ p \in DOMAIN neigh
  <2>1. ts = TypesOf[p]
    BY <1>6 DEF DescTypes
  <2>2. Looked' = Looked \cup {p} /\ p \notin Looked
    BY <1>1, <1>2, <1>6 DEF Looked
  <2>3. ASSUME NEW t
        PROVE  /\ Described1(t)' = IF Describes(p, t) THEN Described1(t) \cup {p} ELSE Described1(t)
               /\ Established(t)' = IF Describes(p, t) /\ up THEN Established(t) \cup {p}
                                                           ELSE Established(t)
               /\ p \notin Established(t)
    <3>1. \A q : Describes(q, t)' <=> Describes(q, t)
      BY DEF Describes
    <3>2. Described1(t)' = IF Describes(p, t) THEN Described1(t) \cup {p} ELSE Described1(t)
      BY <2>2, <3>1 DEF Described1
    <3>3. \A q : q \in Established(t)' <=> q \in Described1(t)' /\ summary[q].state = "established"
      BY <1>1 DEF Established
    <3>4. QED
      BY <2>2, <3>2, <3>3 DEF Established, Described1
  <2>4. \A t : t \in DOMAIN types' <=> t \in DOMAIN types \/ Describes(p, t)
    BY <1>4, <2>1 DEF Describes
  <2>5. \A t : t \in DOMAIN types' <=> "types" \in Flags' /\ Described1(t)' # {}
    BY <1>3, <1>6, <2>3, <2>4 DEF CountInv
  <2>6. ASSUME NEW t \in DOMAIN types'
        PROVE  types'[t] = Cardinality(Established(t)')
    <3> DEFINE before == IF t \in DOMAIN types THEN types[t] ELSE 0
    <3>1. before = Cardinality(Established(t))
      <4>1. CASE t \in DOMAIN types
        BY <4>1 DEF CountInv
      <4>2. CASE t \notin DOMAIN types
        <5>1. Established(t) = {}
          BY <1>6, <4>2 DEF CountInv, Established
        <5>2. QED
          BY <4>2, <5>1, FS_EmptySet
      <4>3. QED
        BY <4>1, <4>2
    <3>2. number(t) = IF up /\ Describes(p, t) THEN 1 ELSE 0
      BY <2>1, OnePlace
    <3>3. IsFiniteSet(Established(t)) /\ Cardinality(Established(t)) \in Nat
      BY CountedFinite
    <3>4. Cardinality(Established(t)')
            = Cardinality(Established(t)) + IF up /\ Describes(p, t) THEN 1 ELSE 0
      <4>1. CASE up /\ Describes(p, t)
        <5>1. Established(t)' = Established(t) \cup {p} /\ p \notin Established(t)
          BY <2>3, <4>1
        <5>2. QED
          BY <3>3, <4>1, <5>1, FS_AddElement
      <4>2. CASE ~(up /\ Describes(p, t))
        <5>1. Established(t)' = Established(t)
          BY <2>3, <4>2
        <5>2. QED
          BY <3>3, <4>2, <5>1
      <4>3. QED
        BY <4>1, <4>2
    <3>5. types'[t] = before + number(t)
      BY <1>4
    <3> HIDE DEF before, number, up
    <3>6. QED
      BY <3>1, <3>2, <3>4, <3>5
  <2>7. QED
    BY <2>5, <2>6 DEF CountInv
<1>7. QED
  BY <1>5, <1>6

\* Before anything was read nothing is counted; a table that is read when no
\* turn has been changes nothing.
LEMMA OtherCounts ==
  ASSUME IInv, RunInv, CountInv, [Next]_vars, \A p \in Peers : ~Turn(p)
  PROVE  CountInv'
<1> USE DEF frrVars, kidVars, outVars, Send
<1>1. CASE QuerySummary \/ QueryNeighbors
  <2>1. setup' = setup /\ types' = types
    BY <1>1 DEF QuerySummary, QueryNeighbors
  <2>2. Looked = {} /\ Looked' = {}
    BY <1>1 DEF QuerySummary, QueryNeighbors, Fail, RunInv, Stages, Looked, Turned
  <2>3. QED
    BY <2>1, <2>2, CountFrame
<1>2. CASE ~(QuerySummary \/ QueryNeighbors)
  <2>1. UNCHANGED <<setup, types, summary, neigh, left>>
    BY <1>2 DEF Next, Change, vars, Update, Goroutine, Returned, QueryNexthop, EndLoop, Wait,
           EmitTypes, QueryEvpn, Advertised, PresenceFirst, PresenceSecond
  <2>2. QED
    BY <2>1, CountFrame DEF Looked, Turned
<1>3. QED
  BY <1>1, <1>2

\* The counts are sent once, at the end, as they are then.
LEMMA UpsStep ==
  ASSUME IInv, RunInv, UpsInv, [Next]_vars
  PROVE  UpsInv'
<1> USE DEF frrVars, kidVars, outVars, Send
<1>1. CASE EmitTypes
  <2>1. /\ Ups = {} /\ pc' \in {"evpn", "ok"} /\ types' = types
        /\ sent' = sent \cup UpMetrics
    BY <1>1 DEF EmitTypes, UpsInv, UpMetrics
  <2>2. \A m \in UpMetrics : m.m = "peerTypesUp"
    BY DEF UpMetrics, Metric
  <2>3. Ups' = UpMetrics /\ UpMetrics' = UpMetrics
    BY <2>1, <2>2 DEF Ups, UpMetrics
  <2>4. QED
    BY <2>1, <2>3 DEF UpsInv
<1>2. ASSUME NEW p \in Peers, Turn(p) PROVE UpsInv'
  <2>1. /\ pc = "loop" /\ pc' = pc
        /\ sent' = sent \cup (ProcessMetrics(p[1]) \cup PeerMetrics(p))
    BY <1>2 DEF Turn
  <2>2. \A m \in ProcessMetrics(p[1]) \cup PeerMetrics(p) : m.m # "peerTypesUp"
    BY DEF ProcessMetrics, PeerMetrics, AcceptedFiltered, AdvertisedInSummary, Metric
  <2>3. Ups' = Ups
    BY <2>1, <2>2 DEF Ups
  <2>4. QED
    BY <2>1, <2>3 DEF UpsInv
<1>3. CASE ~EmitTypes /\ \A p \in Peers : ~Turn(p)
  <2>1. sent \subseteq sent' /\ \A m \in sent' \ sent : m.m # "peerTypesUp"
    <3>1. CASE Change \/ Returned \/ UNCHANGED vars
      BY <3>1 DEF Change, Returned, vars
    <3>2. CASE QuerySummary \/ QueryNeighbors \/ QueryNexthop \/ EndLoop \/ Wait \/ QueryEvpn
      BY <3>2 DEF QuerySummary, QueryNeighbors, QueryNexthop, EndLoop, Wait, QueryEvpn, Metric
    <3>3. ASSUME NEW p \in Peers, Goroutine(p)
          PROVE  sent \subseteq sent' /\ \A m \in sent' \ sent : m.m # "peerTypesUp"
      BY <3>3 DEF Goroutine, Advertised, PresenceFirst, PresenceSecond, SentAfterFirst,
                  ReceivedMetrics, AdvertisedMetrics, Metric
    <3>4. QED
      BY <1>3, <3>1, <3>2, <3>3 DEF Next, Update
  <2>2. types' = types
    BY <1>3 DEF Next, Change, vars, Update, Goroutine, Returned, QuerySummary, QueryNeighbors,
           QueryNexthop, EndLoop, Wait, QueryEvpn, Advertised, PresenceFirst, PresenceSecond
  <2>3. /\ pc' \in {"evpn", "ok"} => pc \in {"evpn", "ok"}
        /\ pc' \notin {"evpn", "ok", "err"} => pc \notin {"evpn", "ok", "err"}
    BY <1>3 DEF Next, Change, vars, Update, Goroutine, Returned, QuerySummary, QueryNeighbors,
           QueryNexthop, EndLoop, Wait, AfterWait, QueryEvpn, Advertised, PresenceFirst,
           PresenceSecond, Fail
  <2>4. Ups' = Ups /\ UpMetrics' = UpMetrics
    BY <2>1, <2>2 DEF Ups, UpMetrics
  <2>5. QED
    BY <2>3, <2>4 DEF UpsInv
<1>4. QED
  BY <1>1, <1>2, <1>3

\* In every reachable state the counts are exact.
LEMMA TypesInvariance ==
  ASSUME DistinctTypes
  PROVE  Spec => [](IInv /\ RunInv /\ TypesInv)
<1>1. Init => TypesInv
  <2> SUFFICES ASSUME Init PROVE TypesInv
    OBVIOUS
  <2>1. Looked = {} /\ DOMAIN types = {} /\ sent = {} /\ pc = "summary"
    BY DEF Init, None, Looked, Turned
  <2>2. CountInv
    BY <2>1 DEF CountInv, Described1
  <2>3. UpsInv
    BY <2>1 DEF UpsInv, Ups
  <2>4. QED
    BY <2>2, <2>3 DEF TypesInv
<1>2. (IInv /\ RunInv /\ TypesInv) /\ [Next]_vars => (IInv /\ RunInv /\ TypesInv)'
  BY NextIInv, NextRunInv, TurnCounts, OtherCounts, UpsStep DEF TypesInv
<1>3. Init => IInv /\ RunInv /\ TypesInv
  BY <1>1, InitIInv, InitRunInv
<1>4. QED
  BY <1>2, <1>3, PTL DEF Spec

\* If no peer has two type keys of one value, peer_types_up of a type is the
\* number of established peers described with it, 0 included.
THEOREM TypesCounted ==
  ASSUME DistinctTypes
  PROVE  Spec => []TypesUpExact
<1>1. IInv /\ RunInv /\ TypesInv => TypesUpExact
  <2> DEFINE described(t) == {p \in DOMAIN summary \cap DOMAIN neigh :
                                \E i \in DOMAIN TypesOf[p] : TypesOf[p][i] = t}
  <2> SUFFICES ASSUME IInv, RunInv, TypesInv, pc = "ok", "types" \in Flags,
                      NEW t, described(t) # {}
               PROVE  {m.v : m \in {x \in sent : x.m = "peerTypesUp" /\ x.of = <<t>>}} =
                        {Cardinality({p \in described(t) : summary[p].state = "established"})}
    BY DEF TypesUpExact
  <2>1. Described1(t) = described(t)
    BY DEF RunInv, Stages, Described1, Describes, Looked, Turned
  <2>2. Established(t) = {p \in described(t) : summary[p].state = "established"}
    BY <2>1 DEF Established
  <2>3. t \in DOMAIN types /\ types[t] = Cardinality(Established(t))
    BY <2>1 DEF TypesInv, CountInv
  <2>4. Ups = UpMetrics
    BY DEF TypesInv, UpsInv
  <2>5. {x \in sent : x.m = "peerTypesUp" /\ x.of = <<t>>} = {Metric("peerTypesUp", <<t>>, types[t])}
    <3>1. \A x : x \in sent /\ x.m = "peerTypesUp" /\ x.of = <<t>> <=> x \in UpMetrics /\ x.of = <<t>>
      BY <2>4 DEF Ups
    <3>2. \A x : x \in UpMetrics /\ x.of = <<t>> <=> x = Metric("peerTypesUp", <<t>>, types[t])
      BY <2>3 DEF UpMetrics, Metric
    <3>3. QED
      BY <3>1, <3>2
  <2>6. {m.v : m \in {x \in sent : x.m = "peerTypesUp" /\ x.of = <<t>>}} = {types[t]}
    <3>1. Metric("peerTypesUp", <<t>>, types[t]).v = types[t]
      BY DEF Metric
    <3>2. {m.v : m \in {Metric("peerTypesUp", <<t>>, types[t])}} = {types[t]}
      BY <3>1
    <3>3. QED
      BY <2>5, <3>2
  <2>7. QED
    BY <2>2, <2>3, <2>6
<1>2. DistinctTypes
  OBVIOUS
<1>3. QED
  BY <1>1, <1>2, TypesInvariance, PTL

-----------------------------------------------------------------------------
(* The type invariant.                                                     *)

\* What it says beside Types and the counts: the values are numbers.
Numbers ==
  changes \in 0 .. MaxChanges /\ (\A m \in sent : m.v \in Int) /\ again \in BOOLEAN

\* What is known of a condition that FRR or a table has.
LEMMA Conditions ==
  ASSUME NEW r \in Peering
  PROVE  /\ Cardinality(r.accepted) \in Nat /\ Received(r) \in Nat
         /\ Cardinality(r.advertised) \in Nat /\ PeerState(r) \in 0 .. 2
<1>1. r.accepted \subseteq Routes /\ r.rejected \subseteq Routes /\ r.advertised \subseteq Routes
  BY PeeringAssumption DEF AnyPeering
<1>2. /\ Cardinality(r.accepted) \in Nat /\ Cardinality(r.rejected) \in Nat
      /\ Cardinality(r.advertised) \in Nat
  BY <1>1, RoutesAssumption, FS_Subset, FS_CardinalityType
<1>3. PeerState(r) \in 0 .. 2
  BY DEF PeerState
<1>4. QED
  BY <1>2, <1>3 DEF Received

\* Every step sends numbers.
LEMMA NextNumbers ==
  ASSUME IInv, CountInv, Numbers, [Next]_vars
  PROVE  Numbers'
<1> USE DEF frrVars, kidVars, outVars, Send
<1>1. changes' \in 0 .. MaxChanges
  <2>1. CASE Change
    <3>1. changes < MaxChanges /\ changes' = changes + 1
      BY <2>1 DEF Change
    <3>2. QED
      BY <3>1, BoundAssumption DEF Numbers
  <2>2. CASE ~Change
    <3>1. changes' = changes
      BY <2>2 DEF Next, vars, Update, Goroutine, Returned, QuerySummary, QueryNeighbors,
         QueryNexthop, Turn, EndLoop, Wait, EmitTypes, QueryEvpn, Advertised, PresenceFirst,
         PresenceSecond
    <3>2. QED
      BY <3>1 DEF Numbers
  <2>3. QED
    BY <2>1, <2>2
<1>2. \A p \in Peers : p \in DOMAIN summary => summary[p] \in Peering
  BY DEF IInv, Types, Table
<1>3. \A p \in Peers : p \in DOMAIN neigh => neigh[p] \in Peering
  BY DEF IInv, Types, Table
<1>4. ASSUME NEW p \in Peers, Turn(p) PROVE \A m \in sent' : m.v \in Int
  <2>1. p \in DOMAIN summary /\ sent' = sent \cup (ProcessMetrics(p[1]) \cup PeerMetrics(p))
    BY <1>4 DEF Turn, IInv, Types
  <2>2. Received(summary[p]) \in Int /\ PeerState(summary[p]) \in Int
        /\ Cardinality(summary[p].advertised) \in Int
    BY <1>2, <2>1, Conditions
  <2>3. \A m \in AdvertisedInSummary(p) : m.v \in Int
    BY <2>2 DEF AdvertisedInSummary, Metric
  <2>4. \A m \in AcceptedFiltered(p) : m.v \in Int
    <3>1. CASE HasInfo(p)
      <4>1. Cardinality(neigh[p].accepted) \in Int
        BY <1>3, <3>1, Conditions DEF HasInfo
      <4>2. Received(summary[p]) - Cardinality(neigh[p].accepted) \in Int
        BY <2>2, <4>1
      <4>3. QED
        BY <4>1, <4>2 DEF AcceptedFiltered, Metric
    <3>2. CASE ~HasInfo(p)
      BY <3>2 DEF AcceptedFiltered
    <3>3. QED
      BY <3>1, <3>2
  <2>5. \A m \in PeerMetrics(p) : m.v \in Int
    BY <2>2, <2>3, <2>4 DEF PeerMetrics, Metric
  <2>6. \A m \in ProcessMetrics(p[1]) : m.v \in Int
    <3>1. Of(p[1]) \subseteq Peers
      BY DEF Of, IInv, Types, Table
    <3>2. Cardinality(Of(p[1])) \in Int
      BY <3>1, PeersAssumption, FS_Subset, FS_CardinalityType
    <3>3. QED
      BY <3>2 DEF ProcessMetrics, Metric
  <2>7. QED
    BY <2>1, <2>5, <2>6 DEF Numbers
<1>5. ASSUME NEW p \in Peers, Advertised(p) PROVE \A m \in sent' : m.v \in Int
  <2>1. Cardinality(AdvertisedNow(p)) \in Int
    <3>1. CASE p \in DOMAIN frr
      BY <3>1, Conditions DEF AdvertisedNow, IInv, Types, Table
    <3>2. CASE p \notin DOMAIN frr
      BY <3>2, FS_EmptySet DEF AdvertisedNow
    <3>3. QED
      BY <3>1, <3>2
  <2>2. \A m \in sent' \ sent : m.v = Cardinality(AdvertisedNow(p))
    BY <1>5 DEF Advertised, Metric
  <2>3. QED
    BY <2>1, <2>2 DEF Numbers
<1>6. ASSUME NEW p \in Peers, PresenceSecond(p) PROVE \A m \in sent' : m.v \in Int
  <2>1. \A S, x : Presence(x \in S) \in Int
    <3>1. \A S, x : Presence(x \in S) = IF x \in S THEN 1 ELSE 0
      BY Zenon DEF Presence
    <3>2. QED
      BY <3>1
  <2>2. \A m \in sent' \ sent : \E x \in Prefixes :
          m.v = Presence(x \in seen[p]) \/ m.v = Presence(x \in AdvertisedNow(p))
    BY <1>6 DEF PresenceSecond, ReceivedMetrics, AdvertisedMetrics, Metric
  <2>3. QED
    BY <2>1, <2>2 DEF Numbers
<1>7. ASSUME EmitTypes PROVE \A m \in sent' : m.v \in Int
  <2>1. \A t \in DOMAIN types : types[t] \in Int
    BY CountedFinite DEF CountInv
  <2>2. \A m \in sent' \ sent : \E t \in DOMAIN types : m.v = types[t]
    BY <1>7 DEF EmitTypes, Metric
  <2>3. QED
    BY <2>1, <2>2 DEF Numbers
<1>8. ASSUME QueryEvpn PROVE \A m \in sent' : m.v \in Int
  BY <1>8 DEF QueryEvpn, Metric, Numbers
<1>9. ASSUME sent' = sent PROVE \A m \in sent' : m.v \in Int
  BY <1>9 DEF Numbers
<1>10. ASSUME NEW p \in Peers, PresenceFirst(p) PROVE sent' = sent
  BY <1>10 DEF PresenceFirst, SentAfterFirst
<1>11. \A m \in sent' : m.v \in Int
  BY <1>4, <1>5, <1>6, <1>7, <1>8, <1>9, <1>10 DEF Next, Change, vars, Update, Goroutine, Returned,
     QuerySummary, QueryNeighbors, QueryNexthop, EndLoop, Wait
<1>12. again' \in BOOLEAN
  BY DEF Numbers, Next, Change, vars, Update, Goroutine, Returned, QuerySummary, QueryNeighbors,
     QueryNexthop, Turn, EndLoop, Wait, EmitTypes, QueryEvpn, Advertised, PresenceFirst,
     PresenceSecond
<1>13. QED
  BY <1>1, <1>11, <1>12 DEF Numbers

\* Every reachable state is typed, if no peer has two keys of one value: such a
\* peer can make a type count more peers than there are.
THEOREM TypeCorrect ==
  ASSUME DistinctTypes
  PROVE  Spec => []TypeOK
<1>1. Init => Numbers
  <2>1. Init => changes \in 0 .. MaxChanges /\ \A m \in sent : m.v \in Int
    BY BoundAssumption DEF Init
  <2>2. Init => again \in BOOLEAN
    BY DEF Init
  <2>3. QED
    BY <2>1, <2>2 DEF Numbers
<1>2. (IInv /\ RunInv /\ TypesInv) /\ Numbers /\ [Next]_vars => Numbers'
  BY NextNumbers DEF TypesInv
<1>3. (IInv /\ RunInv /\ TypesInv) /\ Numbers => TypeOK
  BY CountedFinite DEF IInv, Types, Table, TypesInv, CountInv, Numbers, TypeOK
<1>4. DistinctTypes
  OBVIOUS
<1>5. QED
  BY <1>1, <1>2, <1>3, <1>4, TypesInvariance, PTL DEF Spec

-----------------------------------------------------------------------------
(* Update keeps its promise, and comes to its end.                         *)

\* No goroutine is left when Update returns, with an error too: an error comes
\* before the loop has started one, or after the wait for the last.  A goroutine
\* of a peer is started in the turn of the peer, never before it.
Over    == pc \in {"ok", "err"} => Running = {}
InTurn  == \A p \in Peers : pres[p] # "none" => p \notin left
LateInv == Over /\ InTurn

\* Only a turn starts a goroutine, and it is the turn of the peer.
LEMMA NextInTurn ==
  ASSUME IInv, LateInv, [Next]_vars
  PROVE  InTurn'
<1> USE DEF frrVars, kidVars, outVars, Send
<1>1. ASSUME NEW p \in Peers, Turn(p) PROVE InTurn'
  <2>1. left' = left \ {p} /\ \A q \in Peers : q # p => pres'[q] = pres[q]
    BY <1>1 DEF Turn, IInv, Types
  <2>2. QED
    BY <2>1 DEF LateInv, InTurn
<1>2. CASE QuerySummary
  BY <1>2 DEF QuerySummary, IInv, BeforeLoop, NotStarted, InTurn
<1>3. ASSUME NEW p \in Peers, Goroutine(p) PROVE InTurn'
  <2>1. /\ left' = left
        /\ \A q \in Peers : pres'[q] # "none" => pres[q] # "none"
    BY <1>3 DEF Goroutine, Advertised, PresenceFirst, PresenceSecond, IInv, Types
  <2>2. QED
    BY <2>1 DEF LateInv, InTurn
<1>4. CASE UNCHANGED <<left, pres>>
  BY <1>4 DEF LateInv, InTurn
<1>5. QED
  BY <1>1, <1>2, <1>3, <1>4 DEF Next, Change, vars, Update, Returned, QueryNeighbors,
     QueryNexthop, EndLoop, Wait, EmitTypes, QueryEvpn

\* A command that fails does so before the loop or after the wait.
LEMMA NextOver ==
  ASSUME IInv, RunInv, LateInv, [Next]_vars
  PROVE  Over'
<1> USE DEF frrVars, kidVars, outVars, Send
<1>1. CASE QuerySummary \/ QueryNeighbors \/ QueryNexthop
  <2>1. pc \in {"summary", "neighbors", "nexthop"} /\ UNCHANGED <<adv, pres>>
    BY <1>1 DEF QuerySummary, QueryNeighbors, QueryNexthop
  <2>2. Running' = {}
    BY <2>1 DEF IInv, BeforeLoop, NotStarted, Running
  <2>3. QED
    BY <2>2 DEF Over
<1>2. CASE EmitTypes \/ QueryEvpn
  <2>1. pc \in {"types", "evpn"} /\ UNCHANGED <<adv, pres>>
    BY <1>2 DEF EmitTypes, QueryEvpn
  <2>2. Running = {}
    BY <2>1 DEF RunInv, Stages
  <2>3. Running' = {}
    BY <2>1, <2>2 DEF Running
  <2>4. QED
    BY <2>3 DEF Over
<1>3. ASSUME NEW p \in Peers, Turn(p) PROVE Over'
  BY <1>3 DEF Turn, Over
<1>4. ASSUME NEW p \in Peers, Goroutine(p) PROVE Over'
  <2>1. p \in Running /\ pc' = pc
    BY <1>4 DEF Goroutine, Advertised, PresenceFirst, PresenceSecond, Running
  <2>2. QED
    BY <2>1 DEF LateInv, Over
<1>5. CASE EndLoop \/ Wait
  BY <1>5 DEF EndLoop, Wait, AfterWait, Over
<1>6. CASE Change \/ Returned \/ UNCHANGED vars
  <2>1. UNCHANGED <<pc, adv, pres>>
    BY <1>6 DEF Change, Returned, vars
  <2>2. QED
    BY <2>1 DEF LateInv, Over, Running
<1>7. QED
  BY <1>1, <1>2, <1>3, <1>4, <1>5, <1>6 DEF Next, Update

LEMMA LateInvariance == Spec => [](IInv /\ RunInv /\ LateInv)
<1>1. Init => LateInv
  BY DEF Init, LateInv, Over, InTurn
<1>2. IInv /\ RunInv /\ LateInv /\ [Next]_vars => LateInv'
  BY NextInTurn, NextOver DEF LateInv
<1>3. QED
  BY <1>1, <1>2, RunInvariance, PTL DEF Spec

\* A step of a run that has not returned adds to what was sent at most, one
\* after it returned changes nothing that the caller sees.
LEMMA PromiseStep ==
  ASSUME (pc \notin {"ok", "err"} /\ sent \subseteq sent') \/ UNCHANGED <<pc, sent>>
  PROVE  [Promise!Next]_<<Outcome, Output>>
<1>1. CASE UNCHANGED <<pc, sent>>
  <2>1. Outcome' = Outcome /\ Output' = Output
    BY <1>1 DEF Outcome, Output, Runs
  <2>2. QED
    BY <2>1
<1>2. CASE pc \notin {"ok", "err"} /\ sent \subseteq sent'
  <2> DEFINE u == "update"
  <2>1. /\ Runs = {u}
        /\ Outcome = [r \in {u} |-> Outcome[u]] /\ Outcome' = [r \in {u} |-> Outcome'[u]]
        /\ Output = [r \in {u} |-> sent] /\ Output' = [r \in {u} |-> sent']
        /\ Outcome[u] = "running" /\ Outcome'[u] \in {"running", "ok", "err"}
    BY <1>2 DEF Outcome, Output, Runs
  <2>2. Promise!Adds(u)
    BY <1>2, <2>1 DEF Promise!Adds
  <2>3. CASE Outcome'[u] = "running"
    <3>1. Outcome' = Outcome
      BY <2>1, <2>3
    <3>2. Promise!Send(u)
      BY <2>1, <2>2, <3>1 DEF Promise!Send
    <3>3. QED
      BY <2>1, <3>2 DEF Promise!Next
  <2>4. CASE Outcome'[u] \in {"ok", "err"}
    <3>1. Outcome' = [Outcome EXCEPT ![u] = Outcome'[u]]
      BY <2>1
    <3>2. Promise!Return(u)
      BY <2>1, <2>2, <2>4, <3>1 DEF Promise!Return, Promise!Results
    <3>3. QED
      BY <2>1, <3>2 DEF Promise!Next
  <2>5. QED
    BY <2>1, <2>3, <2>4
<1>3. QED
  BY <1>1, <1>2

\* Update takes nothing back, and sends nothing when it has returned, with an
\* error too: its goroutines are done by then.  That it does return is what
\* AlwaysProgress and UpdateEnds are about, further below.
THEOREM PromiseKept == Spec => Promise!Init /\ [][Promise!Next]_<<Outcome, Output>>
<1> USE DEF frrVars, kidVars, outVars, Send
<1>1. Init => Promise!Init
  BY DEF Init, Promise!Init, Outcome, Output, Runs
<1>2. LateInv /\ [Next]_vars => [Promise!Next]_<<Outcome, Output>>
  <2> SUFFICES ASSUME LateInv, [Next]_vars PROVE [Promise!Next]_<<Outcome, Output>>
    OBVIOUS
  <2>1. CASE Update
    <3>1. pc \notin {"ok", "err"} /\ sent \subseteq sent'
      BY <2>1 DEF Update, QuerySummary, QueryNeighbors, QueryNexthop, Turn, EndLoop, Wait,
         EmitTypes, QueryEvpn
    <3>2. QED
      BY <3>1, PromiseStep
  <2>2. ASSUME NEW p \in Peers, Goroutine(p) PROVE [Promise!Next]_<<Outcome, Output>>
    <3>1. p \in Running /\ sent \subseteq sent'
      BY <2>2 DEF Goroutine, Advertised, PresenceFirst, PresenceSecond, Running
    <3>2. pc \notin {"ok", "err"}
      BY <3>1 DEF LateInv, Over
    <3>3. QED
      BY <3>1, <3>2, PromiseStep
  <2>3. CASE Change \/ Returned \/ UNCHANGED vars
    BY <2>3, PromiseStep DEF Change, Returned, vars
  <2>4. QED
    BY <2>1, <2>2, <2>3 DEF Next
<1>3. QED
  BY <1>1, <1>2, LateInvariance, PTL DEF Spec

\* What is ahead, in its parts.
StagesAhead     == {i \in DOMAIN UpdateStages : \E j \in 1 .. i : UpdateStages[j] = pc}
AdvertisedAhead == Upcoming \cup {p \in Peers : adv[p] = "run"}
FirstAhead      == Upcoming \cup {p \in Peers : pres[p] = "first"}
SecondAhead     == Upcoming \cup {p \in Peers : pres[p] \in {"first", "second"}}

LEMMA AheadParts ==
  Ahead = ({"stage"} \X StagesAhead) \cup ({"turn"} \X Upcoming)
            \cup ({"advertised"} \X AdvertisedAhead)
            \cup ({"first"} \X FirstAhead) \cup ({"second"} \X SecondAhead)
BY DEF Ahead, StagesAhead, AdvertisedAhead, FirstAhead, SecondAhead

\* Less in one part and no more in the others is less.
LEMMA LessAhead ==
  ASSUME StagesAhead' \subseteq StagesAhead, Upcoming' \subseteq Upcoming,
         AdvertisedAhead' \subseteq AdvertisedAhead, FirstAhead' \subseteq FirstAhead,
         SecondAhead' \subseteq SecondAhead,
         \/ StagesAhead' # StagesAhead \/ Upcoming' # Upcoming
         \/ AdvertisedAhead' # AdvertisedAhead \/ FirstAhead' # FirstAhead
         \/ SecondAhead' # SecondAhead
  PROVE  Ahead' \subseteq Ahead /\ Ahead' # Ahead
<1>1. /\ \A x : <<"stage", x>> \in Ahead <=> x \in StagesAhead
      /\ \A x : <<"turn", x>> \in Ahead <=> x \in Upcoming
      /\ \A x : <<"advertised", x>> \in Ahead <=> x \in AdvertisedAhead
      /\ \A x : <<"first", x>> \in Ahead <=> x \in FirstAhead
      /\ \A x : <<"second", x>> \in Ahead <=> x \in SecondAhead
  BY AheadParts
<1>2. /\ \A x : <<"stage", x>> \in Ahead' <=> x \in StagesAhead'
      /\ \A x : <<"turn", x>> \in Ahead' <=> x \in Upcoming'
      /\ \A x : <<"advertised", x>> \in Ahead' <=> x \in AdvertisedAhead'
      /\ \A x : <<"first", x>> \in Ahead' <=> x \in FirstAhead'
      /\ \A x : <<"second", x>> \in Ahead' <=> x \in SecondAhead'
  BY DEF Ahead, StagesAhead, AdvertisedAhead, FirstAhead, SecondAhead
<1>3. Ahead' \subseteq Ahead
  BY DEF Ahead, StagesAhead, AdvertisedAhead, FirstAhead, SecondAhead
<1>4. Ahead' # Ahead
  BY <1>1, <1>2
<1>5. QED
  BY <1>3, <1>4

\* The stages left at each stage.
LEMMA StagesLeft ==
  ASSUME NEW at
  PROVE  {i \in DOMAIN UpdateStages : \E j \in 1 .. i : UpdateStages[j] = at} =
           CASE at = "summary"   -> 1 .. 7
             [] at = "neighbors" -> 2 .. 7
             [] at = "nexthop"   -> 3 .. 7
             [] at = "loop"      -> 4 .. 7
             [] at = "wait"      -> 5 .. 7
             [] at = "types"     -> 6 .. 7
             [] at = "evpn"      -> {7}
             [] OTHER            -> {}
<1>1. DOMAIN UpdateStages = 1 .. 7
  BY DEF UpdateStages
<1>2. QED
  BY <1>1 DEF UpdateStages

\* A step of Update from one stage to a later one.
LEMMA StageProgress ==
  ASSUME IInv, RunInv, UNCHANGED <<adv, pres>>,
         \/ QuerySummary \/ QueryNeighbors \/ QueryNexthop
         \/ EndLoop \/ Wait \/ EmitTypes \/ QueryEvpn
  PROVE  Ahead' \subseteq Ahead /\ Ahead' # Ahead
<1>1. \/ pc = "summary"   /\ pc' \in {"neighbors", "err"}
      \/ pc = "neighbors" /\ pc' \in {"nexthop", "err"}
      \/ pc = "nexthop"   /\ pc' \in {"loop", "err"}
      \/ pc = "loop"      /\ pc' = "wait"
      \/ pc = "wait"      /\ pc' = "types"
      \/ pc = "types"     /\ pc' \in {"evpn", "ok"}
      \/ pc = "evpn"      /\ pc' \in {"ok", "err"}
  BY DEF QuerySummary, QueryNeighbors, QueryNexthop, EndLoop, Wait, AfterWait, EmitTypes,
     QueryEvpn, Fail
<1>2. StagesAhead' \subseteq StagesAhead /\ StagesAhead' # StagesAhead
  <2> DEFINE from(s) == {i \in DOMAIN UpdateStages : \E j \in 1 .. i : UpdateStages[j] = s}
  <2>1. from(pc') \subseteq from(pc) /\ from(pc') # from(pc)
    <3>1. /\ from("summary") = 1 .. 7 /\ from("neighbors") = 2 .. 7 /\ from("nexthop") = 3 .. 7
          /\ from("loop") = 4 .. 7 /\ from("wait") = 5 .. 7 /\ from("types") = 6 .. 7
          /\ from("evpn") = {7} /\ from("ok") = {} /\ from("err") = {}
      BY StagesLeft
    <3> HIDE DEF from
    <3>2. QED
      BY <1>1, <3>1
  <2>2. QED
    BY <2>1 DEF StagesAhead
<1>3. Upcoming' \subseteq Upcoming
  <2>1. left' = left \/ (pc = "summary" /\ pc' = "neighbors")
    BY DEF QuerySummary, QueryNeighbors, QueryNexthop, EndLoop, Wait, EmitTypes, QueryEvpn
  <2>2. left \subseteq Peers
    BY DEF IInv, Types, Table
  <2>3. QED
    BY <1>1, <2>1, <2>2 DEF Upcoming
<1>4. QED
  BY <1>2, <1>3, LessAhead DEF AdvertisedAhead, FirstAhead, SecondAhead

\* The turn of a peer is behind, and what it started was ahead with it.
LEMMA TurnProgress ==
  ASSUME IInv, NEW p \in Peers, Turn(p)
  PROVE  Ahead' \subseteq Ahead /\ Ahead' # Ahead
<1>1. /\ pc = "loop" /\ pc' = pc /\ p \in left /\ left' = left \ {p}
      /\ \A q \in Peers : q # p => adv'[q] = adv[q] /\ pres'[q] = pres[q]
  BY DEF Turn, IInv, Types
<1>2. Upcoming = left /\ Upcoming' = left \ {p}
  BY <1>1 DEF Upcoming
<1>3. /\ AdvertisedAhead' \subseteq AdvertisedAhead /\ FirstAhead' \subseteq FirstAhead
      /\ SecondAhead' \subseteq SecondAhead
  BY <1>1, <1>2 DEF AdvertisedAhead, FirstAhead, SecondAhead
<1>4. StagesAhead' = StagesAhead
  BY <1>1 DEF StagesAhead
<1>5. QED
  BY <1>1, <1>2, <1>3, <1>4, LessAhead

\* A goroutine has run a command less.
LEMMA GoroutineProgress ==
  ASSUME IInv, RunInv, LateInv, NEW p \in Peers, Goroutine(p)
  PROVE  Ahead' \subseteq Ahead /\ Ahead' # Ahead
<1>1. UNCHANGED <<pc, left>> /\ p \in Running
  BY DEF Goroutine, Advertised, PresenceFirst, PresenceSecond, Running
<1>2. p \notin Upcoming
  <2>1. pc \notin {"summary", "neighbors", "nexthop"}
    BY <1>1 DEF IInv, BeforeLoop, NotStarted, Running
  <2>2. p \notin left
    <3>1. CASE adv[p] = "run"
      BY <3>1 DEF RunInv, PeerInv, Turned
    <3>2. CASE pres[p] \in {"first", "second"}
      BY <3>2 DEF LateInv, InTurn
    <3>3. QED
      BY <1>1, <3>1, <3>2 DEF Running
  <2>3. QED
    BY <2>1, <2>2 DEF Upcoming
<1>3. Upcoming' = Upcoming /\ StagesAhead' = StagesAhead
  BY <1>1 DEF Upcoming, StagesAhead
<1>4. CASE Advertised(p)
  <2>1. /\ adv[p] = "run" /\ adv'[p] # "run" /\ pres' = pres
        /\ \A q \in Peers : q # p => adv'[q] = adv[q]
    BY <1>4 DEF Advertised, IInv, Types
  <2>2. FirstAhead' = FirstAhead /\ SecondAhead' = SecondAhead
    BY <1>3, <2>1 DEF FirstAhead, SecondAhead
  <2>3. /\ AdvertisedAhead' \subseteq AdvertisedAhead
        /\ p \in AdvertisedAhead /\ p \notin AdvertisedAhead'
    BY <1>2, <1>3, <2>1 DEF AdvertisedAhead
  <2>4. QED
    BY <1>3, <2>2, <2>3, LessAhead
<1>5. CASE PresenceFirst(p)
  <2>1. /\ pres[p] = "first" /\ pres'[p] \in {"second", "lost"} /\ adv' = adv
        /\ \A q \in Peers : q # p => pres'[q] = pres[q]
    BY <1>5 DEF PresenceFirst, IInv, Types
  <2>2. AdvertisedAhead' = AdvertisedAhead /\ SecondAhead' \subseteq SecondAhead
    BY <1>3, <2>1 DEF AdvertisedAhead, SecondAhead
  <2>3. FirstAhead' \subseteq FirstAhead /\ p \in FirstAhead /\ p \notin FirstAhead'
    BY <1>2, <1>3, <2>1 DEF FirstAhead
  <2>4. QED
    BY <1>3, <2>2, <2>3, LessAhead
<1>6. CASE PresenceSecond(p)
  <2>1. /\ pres[p] = "second" /\ pres'[p] \in {"done", "lost"} /\ adv' = adv
        /\ \A q \in Peers : q # p => pres'[q] = pres[q]
    BY <1>6 DEF PresenceSecond, IInv, Types
  <2>2. AdvertisedAhead' = AdvertisedAhead /\ FirstAhead' \subseteq FirstAhead
    BY <1>3, <2>1 DEF AdvertisedAhead, FirstAhead
  <2>3. SecondAhead' \subseteq SecondAhead /\ p \in SecondAhead /\ p \notin SecondAhead'
    BY <1>2, <1>3, <2>1 DEF SecondAhead
  <2>4. QED
    BY <1>3, <2>2, <2>3, LessAhead
<1>7. QED
  BY <1>4, <1>5, <1>6 DEF Goroutine

\* Every step of a run, of its goroutines too, takes something from what is
\* ahead, and no change of FRR adds anything to it.
THEOREM AlwaysProgress == Spec => EveryStepCounts
<1> USE DEF frrVars, kidVars, outVars, Send
<1> DEFINE Progress == IF changes' = changes THEN Ahead' \subseteq Ahead /\ Ahead' # Ahead
                                             ELSE Ahead' = Ahead
<1>1. IInv /\ RunInv /\ LateInv /\ changes \in 0 .. MaxChanges /\ [Next]_vars
        => Progress \/ UNCHANGED vars
  <2> SUFFICES ASSUME IInv, RunInv, LateInv, changes \in 0 .. MaxChanges, [Next]_vars
               PROVE  Progress \/ UNCHANGED vars
    OBVIOUS
  <2>1. CASE Change
    <3>1. changes' = changes + 1 /\ changes \in Nat
      BY <2>1, BoundAssumption DEF Change
    <3>2. Ahead' = Ahead
      BY <2>1 DEF Change, Ahead, Upcoming
    <3>3. QED
      BY <3>1, <3>2
  <2>2. CASE \E p \in Peers : Turn(p)
    <3>1. changes' = changes
      BY <2>2 DEF Turn
    <3>2. QED
      BY <2>2, <3>1, TurnProgress
  <2>3. CASE \E p \in Peers : Goroutine(p)
    <3>1. changes' = changes
      BY <2>3 DEF Goroutine, Advertised, PresenceFirst, PresenceSecond
    <3>2. QED
      BY <2>3, <3>1, GoroutineProgress
  <2>4. CASE \/ QuerySummary \/ QueryNeighbors \/ QueryNexthop
             \/ EndLoop \/ Wait \/ EmitTypes \/ QueryEvpn
    <3>1. UNCHANGED <<changes, adv, pres>>
      BY <2>4 DEF QuerySummary, QueryNeighbors, QueryNexthop, EndLoop, Wait, EmitTypes, QueryEvpn
    <3>2. QED
      BY <2>4, <3>1, StageProgress
  <2>5. QED
    BY <2>1, <2>2, <2>3, <2>4 DEF Next, Update, Returned
<1>2. Spec => [](changes \in 0 .. MaxChanges)
  <2>1. Init => changes \in 0 .. MaxChanges
    BY BoundAssumption DEF Init
  <2>2. changes \in 0 .. MaxChanges /\ [Next]_vars => (changes \in 0 .. MaxChanges)'
    <3>1. CASE Change
      BY <3>1, BoundAssumption DEF Change
    <3>2. ~Change /\ [Next]_vars => changes' = changes
      BY DEF Next, vars, Update, Goroutine, Returned, QuerySummary, QueryNeighbors, QueryNexthop,
         Turn, EndLoop, Wait, EmitTypes, QueryEvpn, Advertised, PresenceFirst, PresenceSecond
    <3>3. QED
      BY <3>1, <3>2
  <2>3. QED
    BY <2>1, <2>2, PTL DEF Spec
<1>3. QED
  BY <1>1, <1>2, LateInvariance, PTL DEF Spec, EveryStepCounts

\* How much is ahead is a number, and each step of a run makes it smaller,
\* whatever FRR answers, and however long its lists become meanwhile.
THEOREM UpdateEnds ==
  Spec => [][/\ Cardinality(Ahead) \in Nat
             /\ IF changes' = changes THEN Cardinality(Ahead') < Cardinality(Ahead)
                                      ELSE Cardinality(Ahead') = Cardinality(Ahead)]_vars
<1> DEFINE Fewer == /\ Cardinality(Ahead) \in Nat
                    /\ IF changes' = changes THEN Cardinality(Ahead') < Cardinality(Ahead)
                                             ELSE Cardinality(Ahead') = Cardinality(Ahead)
           Progress == IF changes' = changes THEN Ahead' \subseteq Ahead /\ Ahead' # Ahead
                                             ELSE Ahead' = Ahead
<1>1. IInv => IsFiniteSet(Ahead)
  <2> SUFFICES ASSUME IInv PROVE IsFiniteSet(Ahead)
    OBVIOUS
  <2>1. IsFiniteSet(StagesAhead)
    <3>1. 1 \in Int /\ 7 \in Int
      OBVIOUS
    <3>2. IsFiniteSet(1 .. 7)
      BY <3>1, FS_Interval, Zenon
    <3>3. StagesAhead \subseteq 1 .. 7
      BY DEF StagesAhead, UpdateStages
    <3>4. QED
      BY <3>2, <3>3, FS_Subset
  <2>2. IsFiniteSet({"stage", "turn", "advertised", "first", "second"})
    <3>1. IsFiniteSet({"stage"} \cup {"turn"} \cup {"advertised"} \cup {"first"} \cup {"second"})
      BY FS_Singleton, FS_Union
    <3>2. {"stage"} \cup {"turn"} \cup {"advertised"} \cup {"first"} \cup {"second"}
            = {"stage", "turn", "advertised", "first", "second"}
      OBVIOUS
    <3>3. QED
      BY <3>1, <3>2
  <2>3. IsFiniteSet({"stage", "turn", "advertised", "first", "second"} \X (StagesAhead \cup Peers))
    <3>1. IsFiniteSet(StagesAhead \cup Peers)
      BY <2>1, PeersAssumption, FS_Union
    <3>2. QED
      BY <2>2, <3>1, FS_Product
  <2>4. Ahead \subseteq {"stage", "turn", "advertised", "first", "second"} \X (StagesAhead \cup Peers)
    <3>1. Upcoming \subseteq Peers
      BY DEF IInv, Types, Table, Upcoming
    <3>2. QED
      BY <3>1, AheadParts DEF AdvertisedAhead, FirstAhead, SecondAhead
  <2>5. QED
    BY <2>3, <2>4, FS_Subset
<1>2. IInv /\ Progress => Fewer
  <2> SUFFICES ASSUME IInv, Progress PROVE Fewer
    OBVIOUS
  <2>1. IsFiniteSet(Ahead) /\ Cardinality(Ahead) \in Nat
    BY <1>1, FS_CardinalityType
  <2>2. CASE changes' = changes
    <3>1. Ahead' \subseteq Ahead /\ Ahead' # Ahead
      BY <2>2
    <3>2. /\ IsFiniteSet(Ahead') /\ Cardinality(Ahead') <= Cardinality(Ahead)
          /\ Cardinality(Ahead') = Cardinality(Ahead) => Ahead' = Ahead
      BY <2>1, <3>1, FS_Subset
    <3>3. Cardinality(Ahead') \in Nat
      BY <3>2, FS_CardinalityType
    <3>4. QED
      BY <2>1, <2>2, <3>1, <3>2, <3>3
  <2>3. CASE changes' # changes
    BY <2>1, <2>3
  <2>4. QED
    BY <2>2, <2>3
<1>3. Spec => [][Progress]_vars
  BY AlwaysProgress DEF EveryStepCounts
<1>4. QED
  BY <1>2, <1>3, Invariance, PTL

-----------------------------------------------------------------------------
(* No series twice, if lower case keeps the VRFs apart and no file names a *)
(* prefix twice.                                                           *)

CaseMatters == \A p, q \in Peers : Lower[p[1]] = Lower[q[1]] => p[1] = q[1]
DistinctPrefixes ==
  \A o \in Setups : \A i, j \in DOMAIN o.monitored : o.monitored[i] = o.monitored[j] => i = j

\* Where a metric that was sent came from: it has its place in the run, and the
\* run is past that place.
OfPeer == {"state", "prefixReceivedCount"} \cup Optional
Source(m) ==
  /\ m.m \in {"peerCount", "peerTypesUp", "numRemoteVteps"} \cup OfPeer \cup OfPrefix
  /\ m.m = "peerCount"      => \E p \in Turned : m.of = <<p[1]>>
  /\ m.m = "peerTypesUp"    => pc \in {"evpn", "ok", "err"} /\ \E t : m.of = <<t>>
  /\ m.m = "numRemoteVteps" => pc = "ok"
  /\ m.m \in OfPeer         => m.of \in Turned
  /\ m.m \in OfPrefix       =>
       \E p \in Peers : pres[p] = "done" /\ \E x : m.of = PeerPrefix(p, x)
Sources  == \A m \in sent : Source(m)

\* Lower case keeps apart what has different VRFs.
LEMMA LowerApart ==
  ASSUME CaseMatters
  PROVE  /\ \A p, q \in Peers : LowerVrf(p) = LowerVrf(q) => p = q
         /\ \A p, q \in Peers : LowerVrf(<<p[1]>>) = LowerVrf(<<q[1]>>) => p[1] = q[1]
         /\ \A p, q \in Peers : \A x, y :
              LowerVrf(PeerPrefix(p, x)) = LowerVrf(PeerPrefix(q, y)) => p = q /\ x = y
<1>1. /\ \A a, b : LowerVrf(<<a, b>>) = <<Lower[a], b>>
      /\ \A a : LowerVrf(<<a>>) = <<Lower[a]>>
      /\ \A a, b, c : LowerVrf(<<a, b, c>>) = <<Lower[a], b, c>>
  BY DEF LowerVrf
<1>2. ASSUME NEW p \in Peers, NEW q \in Peers
      PROVE  /\ p = <<p[1], p[2]>> /\ q = <<q[1], q[2]>>
             /\ Lower[p[1]] = Lower[q[1]] => p[1] = q[1]
  BY PeersAssumption DEF CaseMatters
<1>3. ASSUME NEW p \in Peers, NEW q \in Peers, LowerVrf(p) = LowerVrf(q)
      PROVE  p = q
  BY <1>1, <1>2, <1>3
<1>4. ASSUME NEW p \in Peers, NEW q \in Peers, LowerVrf(<<p[1]>>) = LowerVrf(<<q[1]>>)
      PROVE  p[1] = q[1]
  BY <1>1, <1>2, <1>4
<1>5. ASSUME NEW p \in Peers, NEW q \in Peers, NEW x, NEW y,
             LowerVrf(PeerPrefix(p, x)) = LowerVrf(PeerPrefix(q, y))
      PROVE  p = q /\ x = y
  BY <1>1, <1>2, <1>5 DEF PeerPrefix
<1>6. QED
  BY <1>3, <1>4, <1>5

\* A series tells apart what the metrics are of.
LEMMA SeriesApart ==
  ASSUME CaseMatters, NEW m, NEW n, Series(m) = Series(n)
  PROVE  /\ m.m = n.m
         /\ m.m \notin {"peerTypesUp", "numRemoteVteps"} =>
              \A p, q \in Peers :
                /\ m.of = p /\ n.of = q => p = q
                /\ m.of = <<p[1]>> /\ n.of = <<q[1]>> => p[1] = q[1]
                /\ \A x, y : m.of = PeerPrefix(p, x) /\ n.of = PeerPrefix(q, y)
                               => p = q /\ x = y
<1>1. m.m = n.m
  BY DEF Series
<1>2. m.m \notin {"peerTypesUp", "numRemoteVteps"} => LowerVrf(m.of) = LowerVrf(n.of)
  BY <1>1 DEF Series
<1>3. ASSUME m.m \notin {"peerTypesUp", "numRemoteVteps"}, NEW p \in Peers, NEW q \in Peers
      PROVE  /\ m.of = p /\ n.of = q => p = q
             /\ m.of = <<p[1]>> /\ n.of = <<q[1]>> => p[1] = q[1]
             /\ \A x, y : m.of = PeerPrefix(p, x) /\ n.of = PeerPrefix(q, y)
                            => p = q /\ x = y
  BY <1>2, <1>3, LowerApart
<1>4. QED
  BY <1>1, <1>3

\* Where a metric came from stays behind.
LEMMA SourceStays ==
  ASSUME NEW m, Source(m), Turned \subseteq Turned',
         \A q \in Peers : pres[q] = "done" => pres'[q] = "done",
         pc \in {"evpn", "ok", "err"} => pc' \in {"evpn", "ok", "err"},
         pc = "ok" => pc' = "ok"
  PROVE  Source(m)'
BY DEF Source

\* A turn sends nothing that another turn has sent: the peer is a new one, and
\* its process if that comes along.
LEMMA TurnUnique ==
  ASSUME CaseMatters, IInv, LateInv, Sources, again = FALSE, NEW p \in Peers, Turn(p)
  PROVE  Sources' /\ again' = FALSE
<1> DEFINE new == ProcessMetrics(p[1]) \cup PeerMetrics(p)
<1>1. /\ p \in left /\ left' = left \ {p} /\ left \subseteq DOMAIN summary
      /\ Send(new, FALSE) /\ UNCHANGED <<pc, summary>>
  BY DEF Turn, IInv, Types
<1>2. Turned' = Turned \cup {p} /\ p \notin Turned /\ Turned \subseteq Peers
  BY <1>1 DEF Turned, IInv, Types, Table
<1>3. ASSUME NEW m \in new
      PROVE  \/ m.m \in OfPeer /\ m.of = p
             \/ m.m = "peerCount" /\ m.of = <<p[1]>> /\ ~Begun(p[1])
  BY DEF ProcessMetrics, PeerMetrics, AcceptedFiltered, AdvertisedInSummary, Metric,
         OfPeer, Optional, OfAF
<1> HIDE DEF new
<1>4. ASSUME NEW m \in new, NEW n \in sent, Series(m) = Series(n) PROVE FALSE
  <2>1. m.m = n.m /\ Source(n)
    BY <1>4, SeriesApart DEF Sources
  <2>2. CASE m.m \in OfPeer /\ m.of = p
    <3>1. m.m \notin {"peerTypesUp", "numRemoteVteps"}
      BY <2>2 DEF OfPeer, Optional, OfAF
    <3>2. n.of \in Turned /\ n.of \in Peers
      BY <1>2, <2>1, <2>2 DEF Source
    <3>3. n.of = p
      BY <1>4, <2>2, <3>1, <3>2, SeriesApart
    <3>4. QED
      BY <1>2, <3>2, <3>3
  <2>3. CASE m.m = "peerCount" /\ m.of = <<p[1]>> /\ ~Begun(p[1])
    <3>1. PICK q \in Turned : n.of = <<q[1]>>
      BY <2>1, <2>3 DEF Source
    <3>2. q \in Peers /\ m.m \notin {"peerTypesUp", "numRemoteVteps"}
      BY <1>2, <2>3
    <3>3. p[1] = q[1]
      BY <1>4, <2>3, <3>1, <3>2, SeriesApart
    <3>4. q \in Of(p[1]) \ left
      BY <3>1, <3>3 DEF Of, Turned
    <3>5. QED
      BY <2>3, <3>4 DEF Begun
  <2>4. QED
    BY <1>3, <2>2, <2>3
<1>5. again' = FALSE
  BY <1>1, <1>4 DEF Send
<1>6. \A q \in Peers : pres[q] = "done" => pres'[q] = "done"
  <2>1. pres[p] = "none"
    BY <1>1 DEF LateInv, InTurn
  <2>2. \A q \in Peers : q # p => pres'[q] = pres[q]
    BY DEF Turn, IInv, Types
  <2>3. QED
    BY <2>1, <2>2
<1>7. ASSUME NEW m \in sent' PROVE Source(m)'
  <2>1. CASE m \in sent
    BY <1>1, <1>2, <1>6, <2>1, SourceStays DEF Sources
  <2>2. CASE m \in new
    BY <1>2, <1>3, <2>2 DEF Source, OfPeer, Optional, OfAF, OfPrefix
  <2>3. QED
    BY <1>1, <2>1, <2>2 DEF Send
<1>8. QED
  BY <1>5, <1>7 DEF Sources

\* The goroutines: the count of a peer for which the summary had none, and the
\* prefixes of a peer whose goroutine had sent nothing.
LEMMA GoroutineUnique ==
  ASSUME CaseMatters, DistinctPrefixes, IInv, RunInv, Sources, again = FALSE,
         NEW p \in Peers, Goroutine(p)
  PROVE  Sources' /\ again' = FALSE
<1>1. /\ UNCHANGED <<pc, summary, left>> /\ Turned' = Turned /\ Turned \subseteq Peers
      /\ \A q \in Peers : pres[q] = "done" => pres'[q] = "done"
  BY DEF Goroutine, Advertised, PresenceFirst, PresenceSecond, Turned, IInv, Types, Table
<1>2. ASSUME NEW m \in sent PROVE Source(m)'
  BY <1>1, SourceStays DEF Sources
<1>3. CASE UNCHANGED outVars
  BY <1>2, <1>3 DEF outVars, Sources
<1>4. CASE /\ adv[p] = "run"
           /\ Send({Metric("prefixAdvertisedCount", p, Cardinality(AdvertisedNow(p)))}, FALSE)
  <2>0. PICK m : m = Metric("prefixAdvertisedCount", p, Cardinality(AdvertisedNow(p)))
    OBVIOUS
  <2>1. m.m = "prefixAdvertisedCount" /\ m.of = p
    BY <2>0 DEF Metric
  <2>2. p \in Turned /\ ~Has("prefixAdvertisedCount", p)
    BY <1>4 DEF RunInv, PeerInv, AsksAdvertised
  <2>3. Send({m}, FALSE)
    BY <1>4, <2>0
  <2>4. ASSUME NEW n \in sent, Series(m) = Series(n) PROVE FALSE
    <3>1. n.m = "prefixAdvertisedCount" /\ n.of \in Turned /\ n.of \in Peers
      BY <1>1, <2>1, <2>4, SeriesApart DEF Sources, Source, OfPeer, Optional
    <3>2. n.of = p
      BY <2>1, <2>4, <3>1, SeriesApart
    <3>3. QED
      BY <2>2, <3>1, <3>2 DEF Has
  <2>5. Source(m)'
    BY <1>1, <2>1, <2>2 DEF Source, OfPeer, Optional, OfAF, OfPrefix
  <2>6. sent' = sent \cup {m} /\ again' = FALSE
    BY <2>3, <2>4 DEF Send
  <2>7. QED
    BY <1>2, <2>5, <2>6 DEF Sources
<1>5. CASE /\ pres[p] = "second" /\ pres'[p] = "done"
           /\ Send(ReceivedMetrics(p, seen[p]) \cup AdvertisedMetrics(p, AdvertisedNow(p)),
                   PrefixTwice)
  <2> DEFINE new == ReceivedMetrics(p, seen[p]) \cup AdvertisedMetrics(p, AdvertisedNow(p))
  <2>1. \A m \in new : m.m \in OfPrefix /\ \E x : m.of = PeerPrefix(p, x)
    BY DEF ReceivedMetrics, AdvertisedMetrics, Metric, OfPrefix
  <2>2. PrefixTwice = FALSE
    BY DEF PrefixTwice, DistinctPrefixes, Monitored, IInv, Types
  <2>3. Send(new, FALSE)
    BY <1>5, <2>2
  <2> HIDE DEF new
  <2>4. ASSUME NEW m \in new, NEW n \in sent, Series(m) = Series(n) PROVE FALSE
    <3>1. PICK x : m.of = PeerPrefix(p, x)
      BY <2>1
    <3>2. m.m \in OfPrefix /\ m.m \notin {"peerTypesUp", "numRemoteVteps"} /\ n.m = m.m
      BY <2>1, <2>4, SeriesApart DEF OfPrefix
    <3>3. PICK q \in Peers : pres[q] = "done" /\ \E y : n.of = PeerPrefix(q, y)
      BY <3>2 DEF Sources, Source
    <3>4. p = q
      BY <2>4, <3>1, <3>2, <3>3, SeriesApart
    <3>5. QED
      BY <1>5, <3>3, <3>4
  <2>5. ASSUME NEW m \in new PROVE Source(m)'
    BY <1>5, <2>1 DEF Source, OfPeer, Optional, OfAF, OfPrefix
  <2>6. sent' = sent \cup new /\ again' = FALSE
    BY <2>3, <2>4 DEF Send
  <2>7. QED
    BY <1>2, <2>5, <2>6 DEF Sources
<1>6. CASE Send({}, FALSE)
  BY <1>2, <1>6 DEF Send, Sources
<1>7. QED
  BY <1>3, <1>4, <1>5, <1>6 DEF Goroutine, Advertised, PresenceFirst, SentAfterFirst,
     PresenceSecond, IInv, Types

\* What comes after the wait is sent from one place, which is passed once.
LEMMA OtherUnique ==
  ASSUME CaseMatters, IInv, RunInv, Sources, again = FALSE, [Next]_vars,
         \A p \in Peers : ~Turn(p) /\ ~Goroutine(p)
  PROVE  Sources' /\ again' = FALSE
<1> USE DEF frrVars, kidVars
<1>1. /\ pres' = pres
      /\ pc \in {"evpn", "ok", "err"} => pc' \in {"evpn", "ok", "err"}
      /\ pc = "ok" => pc' = "ok"
  BY DEF Next, Change, vars, Update, Returned, QuerySummary, QueryNeighbors, QueryNexthop,
     EndLoop, Wait, EmitTypes, QueryEvpn, Fail
<1>2. Turned \subseteq Turned'
  <2>1. CASE QuerySummary
    BY <2>1 DEF QuerySummary, RunInv, Stages, Turned
  <2>2. CASE ~QuerySummary
    BY <2>2 DEF Next, Change, vars, Update, Returned, QueryNeighbors, QueryNexthop,
       EndLoop, Wait, EmitTypes, QueryEvpn, Turned
  <2>3. QED
    BY <2>1, <2>2
<1>3. ASSUME NEW m \in sent PROVE Source(m)'
  BY <1>1, <1>2, <1>3, SourceStays DEF Sources
<1>4. CASE UNCHANGED outVars
  BY <1>3, <1>4 DEF outVars, Sources
<1>5. CASE EmitTypes
  <2> DEFINE new == {Metric("peerTypesUp", <<t>>, types[t]) : t \in DOMAIN types}
  <2>1. \A m \in new : m.m = "peerTypesUp" /\ \E t : m.of = <<t>>
    BY DEF Metric
  <2>2. Send(new, FALSE) /\ pc = "types" /\ pc' \in {"evpn", "ok"}
    BY <1>5 DEF EmitTypes
  <2> HIDE DEF new
  <2>3. ASSUME NEW m \in new, NEW n \in sent, Series(m) = Series(n) PROVE FALSE
    <3>1. n.m = "peerTypesUp"
      BY <2>1, <2>3, SeriesApart
    <3>2. QED
      BY <2>2, <3>1 DEF Sources, Source
  <2>4. \A m \in new : Source(m)'
    BY <2>1, <2>2 DEF Source, OfPeer, Optional, OfAF, OfPrefix
  <2>5. sent' = sent \cup new /\ again' = FALSE
    BY <2>2, <2>3 DEF Send
  <2>6. QED
    BY <1>3, <2>4, <2>5 DEF Sources
<1>6. CASE /\ pc = "evpn" /\ pc' = "ok"
           /\ \E k \in {-1, 0, 1} : Send({Metric("numRemoteVteps", <<"vni">>, k)}, FALSE)
  <2>1. PICK m : m.m = "numRemoteVteps" /\ Send({m}, FALSE)
    BY <1>6 DEF Metric
  <2>2. ASSUME NEW n \in sent, Series(m) = Series(n) PROVE FALSE
    <3>1. n.m = "numRemoteVteps"
      BY <2>1, <2>2, SeriesApart
    <3>2. QED
      BY <1>6, <3>1 DEF Sources, Source
  <2>3. Source(m)'
    BY <1>6, <2>1 DEF Source, OfPeer, Optional, OfAF, OfPrefix
  <2>4. sent' = sent \cup {m} /\ again' = FALSE
    BY <2>1, <2>2 DEF Send
  <2>5. QED
    BY <1>3, <2>3, <2>4 DEF Sources
<1>7. QED
  BY <1>4, <1>5, <1>6 DEF Next, Change, vars, Update, Returned, QuerySummary, QueryNeighbors,
     QueryNexthop, EndLoop, Wait, QueryEvpn, outVars

\* One Update of bgp, bgp6 or bgpl2vpn sends no series twice, whatever FRR has
\* and does, if no two VRFs differ in case only and no line of the prefixes file
\* stands there twice.
THEOREM NoDuplicates ==
  ASSUME CaseMatters, DistinctPrefixes
  PROVE  Spec => []UniqueSeries
<1>1. Init => Sources /\ again = FALSE
  BY DEF Init, Sources
<1>2. (IInv /\ RunInv /\ LateInv) /\ (Sources /\ again = FALSE) /\ [Next]_vars
        => (Sources /\ again = FALSE)'
  BY TurnUnique, GoroutineUnique, OtherUnique
<1>3. CaseMatters /\ DistinctPrefixes
  OBVIOUS
<1>4. QED
  BY <1>1, <1>2, <1>3, LateInvariance, PTL DEF Spec, UniqueSeries

=============================================================================
