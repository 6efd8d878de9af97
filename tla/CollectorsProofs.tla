-------------------------- MODULE CollectorsProofs --------------------------
(***************************************************************************)
(* Proofs about Collectors, for any VRFs, any contents of them and any     *)
(* number of changes of FRR during a run: labels say what they name, what  *)
(* fails leaves nothing behind where the code reads all before it sends,   *)
(* what is sent of a VRF comes out of one snapshot of it, and every run    *)
(* comes to an end.                                                        *)
(***************************************************************************)
EXTENDS Collectors, FiniteSetTheorems, SequenceTheorems, TLAPS

-----------------------------------------------------------------------------
(* What the label values of a metric are.                                  *)

\* The values agree with the names if each of them says that it is what the
\* name in its place says.
Agree(f, values) ==
  \A k \in DOMAIN LabelNames[f] : values[k][1] = LabelNames[f][k]

Named(m) == \A n \in DOMAIN m.label : m.label[n][1] = n

\* A metric made of values that agree with the names is labelled rightly.
LEMMA AgreeingLabels ==
  ASSUME NEW f, NEW values, NEW x, Agree(f, values)
  PROVE  Named(Metric(f, values, x))
<1> DEFINE N == LabelNames[f]
           m == Metric(f, values, x)
<1> SUFFICES ASSUME NEW n \in DOMAIN m.label PROVE m.label[n][1] = n
  BY DEF Named
<1>1. n \in {N[i] : i \in DOMAIN N} /\ m.label[n] = values[CHOOSE i \in DOMAIN N : N[i] = n]
  BY DEF Metric
<1>2. PICK i \in DOMAIN N : N[i] = n
  BY <1>1
<1>3. LET k == CHOOSE j \in DOMAIN N : N[j] = n IN k \in DOMAIN N /\ N[k] = n
  BY <1>2
<1>4. QED
  BY <1>1, <1>3 DEF Agree

\* Route: each label value of a metric is what its name says.
LEMMA RouteNamed ==
  ASSUME NEW afi, NEW v, NEW r, NEW m \in RouteMetrics(afi, v, r)
  PROVE  Named(m)
<1>1. ASSUME NEW x PROVE Named(Metric("total", << <<"afi", afi>>, <<"vrf", v>> >>, x))
  <2>1. Agree("total", << <<"afi", afi>>, <<"vrf", v>> >>)
    BY DEF Agree, LabelNames
  <2>2. QED
    BY <2>1, AgreeingLabels
<1>2. ASSUME NEW x PROVE Named(Metric("totalFib", << <<"afi", afi>>, <<"vrf", v>> >>, x))
  <2>1. Agree("totalFib", << <<"afi", afi>>, <<"vrf", v>> >>)
    BY DEF Agree, LabelNames
  <2>2. QED
    BY <2>1, AgreeingLabels
<1>3. ASSUME NEW t, NEW x PROVE Named(Metric("ribCount", RouteValues(afi, t, v), x))
  <2>1. Agree("ribCount", RouteValues(afi, t, v))
    BY DEF Agree, LabelNames, RouteValues
  <2>2. QED
    BY <2>1, AgreeingLabels
<1>4. QED
  BY <1>1, <1>2, <1>3 DEF RouteMetrics

\* The same of rpki.
LEMMA RpkiNamed ==
  ASSUME NEW v, NEW c, NEW m \in RpkiMetrics(v, c)
  PROVE  Named(m)
<1>1. ASSUME NEW h, NEW x, NEW f \in {"cacheState", "cachePreference"}
      PROVE  Named(Metric(f, << <<"vrf", v>>, <<"host", h>> >>, x))
  <2>1. Agree(f, << <<"vrf", v>>, <<"host", h>> >>)
    BY DEF Agree, LabelNames
  <2>2. QED
    BY <2>1, AgreeingLabels
<1>2. QED
  BY <1>1 DEF RpkiMetrics

\* The same of pim, whose uptimes write the VRF and the interface in lower case.
LEMMA PimNamed ==
  ASSUME NEW v, NEW c, NEW m \in PimMetrics(v, c)
  PROVE  Named(m)
<1>1. ASSUME NEW x, NEW n
      PROVE  Named(Metric("upTime", << <<"vrf", Lower[v]>>, <<"iface", Lower[n[1]]>>, <<"neighbor", n[2]>> >>, x))
  <2>1. Agree("upTime", << <<"vrf", Lower[v]>>, <<"iface", Lower[n[1]]>>, <<"neighbor", n[2]>> >>)
    BY DEF Agree, LabelNames
  <2>2. QED
    BY <2>1, AgreeingLabels
<1>2. ASSUME NEW x PROVE Named(Metric("neighborCount", << <<"vrf", v>> >>, x))
  <2>1. Agree("neighborCount", << <<"vrf", v>> >>)
    BY DEF Agree, LabelNames
  <2>2. QED
    BY <2>1, AgreeingLabels
<1>3. QED
  BY <1>1, <1>2 DEF PimMetrics, UpTimes

\* The same of bfd.
LEMMA BfdNamed ==
  ASSUME NEW v, NEW c, NEW m \in BfdMetrics(v, c)
  PROVE  Named(m)
<1>1. ASSUME NEW p, NEW x, NEW f \in {"bfdPeerUptime", "bfdPeerState"}
      PROVE  Named(Metric(f, << <<"local", p[1]>>, <<"peer", p[2]>>, <<"iface", p[3]>>, <<"vrf", v>> >>, x))
  <2>1. Agree(f, << <<"local", p[1]>>, <<"peer", p[2]>>, <<"iface", p[3]>>, <<"vrf", v>> >>)
    BY DEF Agree, LabelNames
  <2>2. QED
    BY <2>1, AgreeingLabels
<1>2. QED
  BY <1>1 DEF BfdMetrics

\* A sequence that continues another by one element is what Append gives.
LEMMA AppendIs ==
  ASSUME NEW S, NEW s \in Seq(S), NEW t \in Seq(S), NEW e \in S,
         Len(t) = Len(s) + 1, \A i \in 1 .. Len(s) : t[i] = s[i], t[Len(t)] = e
  PROVE  Append(s, e) = t
<1>1. Append(s, e) \in Seq(S) /\ Len(Append(s, e)) = Len(s) + 1
  BY AppendProperties
<1>2. \A i \in 1 .. Len(s) : Append(s, e)[i] = s[i]
  BY AppendProperties
<1>3. Append(s, e)[Len(s) + 1] = e
  BY AppendProperties
<1>4. \A i \in 1 .. Len(t) : Append(s, e)[i] = t[i]
  <2> SUFFICES ASSUME NEW i \in 1 .. Len(t) PROVE Append(s, e)[i] = t[i]
    OBVIOUS
  <2>1. Len(s) \in Nat
    OBVIOUS
  <2>2. i \in 1 .. Len(s) \/ i = Len(s) + 1
    BY <2>1
  <2>3. CASE i \in 1 .. Len(s)
    BY <2>3, <1>2
  <2>4. CASE i = Len(s) + 1
    BY <2>4, <1>3
  <2> QED
    BY <2>2, <2>3, <2>4
<1>5. QED
  BY <1>1, <1>4, SeqEqual

\* The fifth label value of vrrpState is appended to the four of the instance.
LEMMA AppendToFour == \A a, b, c, d, e : Append(<<a, b, c, d>>, e) = <<a, b, c, d, e>>
<1> SUFFICES ASSUME NEW a, NEW b, NEW c, NEW d, NEW e
             PROVE  Append(<<a, b, c, d>>, e) = <<a, b, c, d, e>>
  OBVIOUS
<1>1. PICK S : S = {a, b, c, d, e}
  OBVIOUS
<1>2. PICK s : s = <<a, b, c, d>>
  OBVIOUS
<1>3. PICK t : t = <<a, b, c, d, e>>
  OBVIOUS
<1>4. s \in Seq(S) /\ t \in Seq(S) /\ e \in S
  BY <1>1, <1>2, <1>3
<1>5. /\ Len(s) = 4 /\ Len(t) = 5
      /\ s[1] = t[1] /\ s[2] = t[2] /\ s[3] = t[3] /\ s[4] = t[4] /\ t[5] = e
  BY <1>2, <1>3
<1>6. \A i \in 1 .. Len(s) : t[i] = s[i]
  BY <1>5
<1>7. Len(t) = Len(s) + 1 /\ t[Len(t)] = e
  BY <1>5
<1>8. Append(s, e) = t
  BY <1>4, <1>6, <1>7, AppendIs
<1>9. QED
  BY <1>2, <1>3, <1>8

\* The same of vrrp.
LEMMA VrrpNamed ==
  ASSUME NEW c, NEW m \in VrrpMetrics(c)
  PROVE  Named(m)
<1> DEFINE values(r, p, i) == << <<"proto", p>>, <<"vrid", r[1]>>, <<"interface", r[2]>>,
                                 <<"subinterface", i.sub>> >>
<1>1. ASSUME NEW p, NEW r, NEW i, NEW s, NEW x
      PROVE  Named(Metric("vrrpState", Append(values(r, p, i), <<"state", s>>), x))
  <2>1. Append(values(r, p, i), <<"state", s>>)
          = << <<"proto", p>>, <<"vrid", r[1]>>, <<"interface", r[2]>>,
               <<"subinterface", i.sub>>, <<"state", s>> >>
    BY AppendToFour
  <2>2. Agree("vrrpState", << <<"proto", p>>, <<"vrid", r[1]>>, <<"interface", r[2]>>,
                              <<"subinterface", i.sub>>, <<"state", s>> >>)
    BY DEF Agree, LabelNames
  <2>3. QED
    BY <2>1, <2>2, AgreeingLabels
<1>2. ASSUME NEW p, NEW r, NEW i, NEW x
      PROVE  Named(Metric("adverTx", values(r, p, i), x))
  <2>1. Agree("adverTx", values(r, p, i))
    BY DEF Agree, LabelNames
  <2>2. QED
    BY <2>1, AgreeingLabels
<1>3. ASSUME NEW p, NEW r, NEW i, m \in processInstance(r, p, i) PROVE Named(m)
  <2>1. m \in {Metric("vrrpState", Append(values(r, p, i), <<"state", s>>),
                      IF EqualFold(i.status, s) THEN 1 ELSE 0) : s \in VrrpStates}
              \cup {Metric("adverTx", values(r, p, i), n) : n \in i.adverTx}
    BY <1>3 DEF processInstance
  <2>2. QED
    BY <1>1, <1>2, <2>1
<1>4. PICK r \in DOMAIN c : \/ m \in processInstance(r, "v4", c[r].v4)
                            \/ m \in processInstance(r, "v6", c[r].v6)
  BY DEF VrrpMetrics
<1>5. QED
  BY <1>3, <1>4

\* The same of status.
LEMMA StatusNamed ==
  ASSUME NEW version, NEW x
  PROVE  Named(StatusMetric(version, x))
<1>1. Agree("up", << <<"version", version>>, <<"os", version>> >>)
  BY DEF Agree, LabelNames
<1>2. QED
  BY <1>1, AgreeingLabels DEF StatusMetric

\* The same of whatever the collector sends about a VRF.
LEMMA MetricsNamed ==
  ASSUME NEW afi, NEW v, NEW c, collector \in Names, NEW m \in MetricsOf(afi, v, c)
  PROVE  Named(m)
<1>1. CASE collector = "route"
  BY <1>1, RouteNamed DEF MetricsOf
<1>2. CASE collector = "rpki"
  BY <1>2, RpkiNamed DEF MetricsOf
<1>3. CASE collector = "pim"
  BY <1>3, PimNamed DEF MetricsOf
<1>4. CASE collector = "bfd"
  BY <1>4, BfdNamed DEF MetricsOf
<1>5. CASE collector = "vrrp"
  BY <1>5, VrrpNamed DEF MetricsOf
<1>6. CASE collector = "status"
  BY <1>6, StatusNamed DEF MetricsOf
<1>7. QED
  BY <1>1, <1>2, <1>3, <1>4, <1>5, <1>6 DEF Names

\* The same of the count of BFD peers, which has no label.
LEMMA CountNamed == \A x : Named(Metric("bfdPeerCount", <<>>, x))
<1>1. Agree("bfdPeerCount", <<>>)
  BY DEF Agree, LabelNames
<1>2. QED
  BY <1>1, AgreeingLabels

-----------------------------------------------------------------------------
(* Labels.                                                                 *)

\* The interfaces that PIM has got through are some of those of the VRF.
LEMMA EmitCases ==
  ASSUME NEW v, Emit(v)
  PROVE  \/ /\ Send(MetricsOf(Afis[at], v, left[v]), SameLabels(left[v]))
            /\ left' = [w \in DOMAIN left \ {v} |-> left[w]] /\ UNCHANGED pc
         \/ /\ collector = "pim" /\ pc' = "err" /\ UNCHANGED left
            /\ \E some \in SUBSET UpTimes(v, left[v]), rep \in BOOLEAN :
                 (rep => SameLabels(left[v])) /\ Send(some, rep)
<1>1. ASSUME NEW ifaces, collector = "pim",
             Send(UpTimes(v, [n \in {k \in DOMAIN left[v] : k[1] \in ifaces} |-> left[v][n]]),
                  SameLabels([n \in {k \in DOMAIN left[v] : k[1] \in ifaces} |-> left[v][n]]))
      PROVE  \E some \in SUBSET UpTimes(v, left[v]), rep \in BOOLEAN :
               (rep => SameLabels(left[v])) /\ Send(some, rep)
  <2> DEFINE nbrs == [n \in {k \in DOMAIN left[v] : k[1] \in ifaces} |-> left[v][n]]
  <2>1. \A n \in Parsed(nbrs) : n \in Parsed(left[v]) /\ nbrs[n] = left[v][n]
    BY DEF Parsed
  <2>2. UpTimes(v, nbrs) \in SUBSET UpTimes(v, left[v])
    BY <2>1 DEF UpTimes
  <2>3. SameLabels(nbrs) \in BOOLEAN
    BY DEF SameLabels
  <2>4. SameLabels(nbrs) => SameLabels(left[v])
    BY <1>1, <2>1 DEF SameLabels
  <2>5. Send(UpTimes(v, nbrs), SameLabels(nbrs))
    BY <1>1
  <2> HIDE DEF nbrs
  <2>6. QED
    BY <2>2, <2>3, <2>4, <2>5
<1>2. QED
  BY <1>1 DEF Emit

\* LabelsAsNamed: whatever VRFs there are and whatever they hold, each label
\* value of a metric of the six collectors is what its name says.
THEOREM LabelsCorrect == Spec => []LabelsAsNamed
<1> DEFINE L == collector \in Names /\ \A m \in sent : Named(m)
<1>1. Init => L
  BY DEF Init
<1>2. ASSUME L, [Next]_vars PROVE L'
  <2> USE <1>2
  <2>1. collector' = collector
    BY DEF Next, Change, Update, AskAll, Process, Emit, EndAnswer, ListVrfs, AskOne, EndList,
           Returned, vars, settings
  <2>2. ASSUME NEW new, NEW rep, Send(new, rep), \A m \in new : Named(m) PROVE L'
    BY <2>1, <2>2 DEF Send
  <2>3. ASSUME UNCHANGED outVars PROVE L'
    BY <2>1, <2>3 DEF outVars
  <2>4. ASSUME Fail PROVE L'
    <3>1. CASE UNCHANGED outVars
      BY <3>1, <2>3
    <3>2. CASE Send(Down, FALSE)
      BY <3>2, <2>2, StatusNamed DEF Down
    <3>3. QED
      BY <2>4, <3>1, <3>2 DEF Fail
  <2>5. CASE Change \/ EndAnswer \/ ListVrfs \/ EndList \/ Returned \/ UNCHANGED vars
    BY <2>3, <2>5 DEF Change, EndAnswer, ListVrfs, EndList, Returned, vars, outVars
  <2>6. CASE AskAll
    BY <2>3, <2>4, <2>6 DEF AskAll
  <2>7. CASE Process
    <3>1. ASSUME NEW t, Send(FirstMetrics(t), FALSE) PROVE L'
      <4>1. \A m \in FirstMetrics(t) : Named(m)
        BY CountNamed DEF FirstMetrics
      <4>2. QED
        BY <3>1, <4>1, <2>2
    <3>2. ASSUME NEW afi, Send(RouteMetrics(afi, "default", NoRoutes), FALSE) PROVE L'
      BY <3>2, <2>2, RouteNamed
    <3>3. QED
      BY <2>3, <2>4, <2>7, <3>1, <3>2 DEF Process
  <2>8. ASSUME NEW v \in AllVrfs, Emit(v) PROVE L'
    <3>1. ASSUME NEW rep, Send(MetricsOf(Afis[at], v, left[v]), rep) PROVE L'
      BY <3>1, <2>2, MetricsNamed
    <3>2. ASSUME collector = "pim", NEW some \in SUBSET UpTimes(v, left[v]), NEW rep, Send(some, rep)
          PROVE  L'
      <4>1. \A m \in some : Named(m)
        BY <3>2, PimNamed DEF PimMetrics
      <4>2. QED
        BY <3>2, <4>1, <2>2
    <3>3. QED
      BY <2>8, <3>1, <3>2, EmitCases
  <2>9. CASE AskOne
    <3>1. ASSUME Answer(Head(toAsk)) PROVE L'
      BY <3>1, <2>2, MetricsNamed DEF Answer
    <3>2. QED
      BY <2>3, <2>9, <3>1 DEF AskOne, Empty
  <2>10. QED
    BY <2>5, <2>6, <2>7, <2>8, <2>9 DEF Next, Update
<1>3. L => LabelsAsNamed
  BY DEF LabelsAsNamed, Named
<1>4. QED
  BY <1>1, <1>2, <1>3, PTL DEF Spec

-----------------------------------------------------------------------------
(* The labels of a metric one by one, by the number of them.               *)

\* The k-th value is found under the k-th name, if no name is there twice.
LEMMA LabelAt ==
  ASSUME NEW f, NEW values, NEW x, NEW k \in DOMAIN LabelNames[f],
         \A i, j \in DOMAIN LabelNames[f] : LabelNames[f][i] = LabelNames[f][j] => i = j
  PROVE  Metric(f, values, x).label[LabelNames[f][k]] = values[k]
<1> DEFINE n == LabelNames[f][k]
<1>1. (CHOOSE i \in DOMAIN LabelNames[f] : LabelNames[f][i] = n) = k
  OBVIOUS
<1>2. n \in {LabelNames[f][i] : i \in DOMAIN LabelNames[f]}
  OBVIOUS
<1>3. QED
  BY <1>1, <1>2 DEF Metric

\* A metric with one value has that label, and nothing else.
LEMMA Label1 ==
  ASSUME NEW f, NEW a,
         LabelNames[f] = <<a>>, NEW u, NEW x
  PROVE  LET m == Metric(f, <<u>>, x) IN
         /\ m.family = f /\ m.value = x /\ DOMAIN m.label = {a}
         /\ m.label[a] = u
<1> DEFINE N == LabelNames[f]
           m == Metric(f, <<u>>, x)
<1>1. DOMAIN N = 1 .. 1 /\ N[1] = a
  OBVIOUS
<1>2. m.label[N[1]] = u
  BY <1>1, LabelAt
<1>3. m.family = f /\ m.value = x /\ DOMAIN m.label = {N[i] : i \in DOMAIN N}
  BY DEF Metric
<1>4. QED
  BY <1>1, <1>2, <1>3

\* The same of two values under different names.
LEMMA Label2 ==
  ASSUME NEW f, NEW a, NEW b,
         a # b,
         LabelNames[f] = <<a, b>>, NEW u, NEW v, NEW x
  PROVE  LET m == Metric(f, <<u, v>>, x) IN
         /\ m.family = f /\ m.value = x /\ DOMAIN m.label = {a, b}
         /\ m.label[a] = u /\ m.label[b] = v
<1> DEFINE N == LabelNames[f]
           m == Metric(f, <<u, v>>, x)
<1>1. DOMAIN N = 1 .. 2 /\ N[1] = a /\ N[2] = b
  OBVIOUS
<1>2. m.label[N[1]] = u /\ m.label[N[2]] = v
  BY <1>1, LabelAt
<1>3. m.family = f /\ m.value = x /\ DOMAIN m.label = {N[i] : i \in DOMAIN N}
  BY DEF Metric
<1>4. QED
  BY <1>1, <1>2, <1>3

\* Of three.
LEMMA Label3 ==
  ASSUME NEW f, NEW a, NEW b, NEW c,
         a # b, a # c, b # c,
         LabelNames[f] = <<a, b, c>>, NEW u, NEW v, NEW w, NEW x
  PROVE  LET m == Metric(f, <<u, v, w>>, x) IN
         /\ m.family = f /\ m.value = x /\ DOMAIN m.label = {a, b, c}
         /\ m.label[a] = u /\ m.label[b] = v /\ m.label[c] = w
<1> DEFINE N == LabelNames[f]
           m == Metric(f, <<u, v, w>>, x)
<1>1. DOMAIN N = 1 .. 3 /\ N[1] = a /\ N[2] = b /\ N[3] = c
  OBVIOUS
<1>2. m.label[N[1]] = u /\ m.label[N[2]] = v /\ m.label[N[3]] = w
  BY <1>1, LabelAt
<1>3. m.family = f /\ m.value = x /\ DOMAIN m.label = {N[i] : i \in DOMAIN N}
  BY DEF Metric
<1>4. QED
  BY <1>1, <1>2, <1>3

\* Of four.
LEMMA Label4 ==
  ASSUME NEW f, NEW a, NEW b, NEW c, NEW d,
         a # b, a # c, a # d, b # c, b # d, c # d,
         LabelNames[f] = <<a, b, c, d>>, NEW u, NEW v, NEW w, NEW y, NEW x
  PROVE  LET m == Metric(f, <<u, v, w, y>>, x) IN
         /\ m.family = f /\ m.value = x /\ DOMAIN m.label = {a, b, c, d}
         /\ m.label[a] = u /\ m.label[b] = v /\ m.label[c] = w /\ m.label[d] = y
<1> DEFINE N == LabelNames[f]
           m == Metric(f, <<u, v, w, y>>, x)
<1>1. DOMAIN N = 1 .. 4 /\ N[1] = a /\ N[2] = b /\ N[3] = c /\ N[4] = d
  OBVIOUS
<1>2. m.label[N[1]] = u /\ m.label[N[2]] = v /\ m.label[N[3]] = w /\ m.label[N[4]] = y
  BY <1>1, LabelAt
<1>3. m.family = f /\ m.value = x /\ DOMAIN m.label = {N[i] : i \in DOMAIN N}
  BY DEF Metric
<1>4. QED
  BY <1>1, <1>2, <1>3

\* Of five.
LEMMA Label5 ==
  ASSUME NEW f, NEW a, NEW b, NEW c, NEW d, NEW e,
         a # b, a # c, a # d, a # e, b # c, b # d, b # e, c # d, c # e, d # e,
         LabelNames[f] = <<a, b, c, d, e>>, NEW u, NEW v, NEW w, NEW y, NEW z, NEW x
  PROVE  LET m == Metric(f, <<u, v, w, y, z>>, x) IN
         /\ m.family = f /\ m.value = x /\ DOMAIN m.label = {a, b, c, d, e}
         /\ m.label[a] = u /\ m.label[b] = v /\ m.label[c] = w /\ m.label[d] = y /\ m.label[e] = z
<1> DEFINE N == LabelNames[f]
           m == Metric(f, <<u, v, w, y, z>>, x)
<1>1. DOMAIN N = 1 .. 5 /\ N[1] = a /\ N[2] = b /\ N[3] = c /\ N[4] = d /\ N[5] = e
  OBVIOUS
<1>2. m.label[N[1]] = u /\ m.label[N[2]] = v /\ m.label[N[3]] = w /\ m.label[N[4]] = y /\ m.label[N[5]] = z
  BY <1>1, LabelAt
<1>3. m.family = f /\ m.value = x /\ DOMAIN m.label = {N[i] : i \in DOMAIN N}
  BY DEF Metric
<1>4. QED
  BY <1>1, <1>2, <1>3

-----------------------------------------------------------------------------
(* Whose metric it is that a step sends, and that it is true.              *)

\* No two VRFs differ in case only.
CaseMatters == \A v, w \in AllVrfs : Lower[v] = Lower[w] => v = w

\* No two interfaces of the neighbours of a VRF do, and no two BFD sessions of
\* one differ in being multihop only.
IfaceCaseMatters ==
  \A c \in Contents.pim : \A n, k \in DOMAIN c : Lower[n[1]] = Lower[k[1]] => n[1] = k[1]
DistinctSessions ==
  \A c \in Contents.bfd : \A p, q \in DOMAIN c : (\A i \in 1 .. 3 : p[i] = q[i]) => p = q

\* Then the items of a VRF have labels of their own.
LEMMA LabelsDiffer ==
  ASSUME IfaceCaseMatters, DistinctSessions, collector \in Names, NEW c \in Contents[collector]
  PROVE  ~SameLabels(c)
<1>1. ASSUME collector = "pim", NEW n \in Parsed(c), NEW k \in Parsed(c),
             Lower[n[1]] = Lower[k[1]], n[2] = k[2]
      PROVE  n = k
  <2>1. n \in DOMAIN c /\ k \in DOMAIN c /\ c \in Contents.pim
    BY <1>1 DEF Parsed
  <2>2. n = <<n[1], n[2]>> /\ k = <<k[1], k[2]>>
    BY <2>1, ShapeAssumption
  <2>3. n[1] = k[1]
    BY <1>1, <2>1 DEF IfaceCaseMatters
  <2>4. QED
    BY <1>1, <2>2, <2>3
<1>2. ASSUME collector = "bfd", NEW p \in DOMAIN c, NEW q \in DOMAIN c, \A i \in 1 .. 3 : p[i] = q[i]
      PROVE  p = q
  BY <1>2 DEF DistinctSessions
<1>3. QED
  BY <1>1, <1>2 DEF SameLabels

\* m is about v and no other VRF, and true of a v that holds c.
Mine(m, v, afi) ==
  /\ m.family # "bfdPeerCount"
  /\ IsOf(m, v, afi)
  /\ \A w \in AllVrfs : \A a : IsOf(m, w, a) => w = v /\ (collector = "route" => a = afi)
Fits(m, v, afi, c) == Mine(m, v, afi) /\ TrueOf(m, afi, c)

\* What route sends of a VRF in a family is true of it, and carries both.
LEMMA RouteFits ==
  ASSUME collector = "route", NEW v \in AllVrfs, NEW afi, NEW c,
         NEW m \in RouteMetrics(afi, v, c[afi])
  PROVE  Fits(m, v, afi, c)
<1>1. ASSUME NEW f \in {"total", "totalFib"}, NEW x,
             m = Metric(f, << <<"afi", afi>>, <<"vrf", v>> >>, x)
      PROVE  /\ m.family = f /\ m.value = x /\ DOMAIN m.label = {"afi", "vrf"}
             /\ m.label["afi"] = <<"afi", afi>> /\ m.label["vrf"] = <<"vrf", v>>
  <2>1. LabelNames[f] = <<"afi", "vrf">> /\ "afi" # "vrf"
    BY DEF LabelNames
  <2>2. QED
    BY <1>1, <2>1, Label2
<1>2. ASSUME NEW t, NEW x, m = Metric("ribCount", RouteValues(afi, t, v), x)
      PROVE  /\ m.family = "ribCount" /\ m.value = x
             /\ DOMAIN m.label = {"afi", "route_type", "vrf"}
             /\ m.label["afi"] = <<"afi", afi>> /\ m.label["route_type"] = <<"route_type", t>>
             /\ m.label["vrf"] = <<"vrf", v>>
  <2>1. /\ LabelNames["ribCount"] = <<"afi", "route_type", "vrf">>
        /\ "afi" # "route_type" /\ "afi" # "vrf" /\ "route_type" # "vrf"
    BY DEF LabelNames
  <2>2. QED
    BY <1>2, <2>1, Label3 DEF RouteValues
<1>3. Mine(m, v, afi)
  BY <1>1, <1>2 DEF Mine, IsOf, RouteMetrics
<1>4. TrueOf(m, afi, c)
  <2>1. ASSUME m = Metric("total", << <<"afi", afi>>, <<"vrf", v>> >>, c[afi].total)
        PROVE  TrueOf(m, afi, c)
    BY <1>1, <2>1 DEF TrueOf
  <2>2. ASSUME m = Metric("totalFib", << <<"afi", afi>>, <<"vrf", v>> >>, c[afi].fib)
        PROVE  TrueOf(m, afi, c)
    BY <1>1, <2>2 DEF TrueOf
  <2>3. ASSUME NEW t \in DOMAIN c[afi].types,
               m = Metric("ribCount", RouteValues(afi, t, v), c[afi].types[t])
        PROVE  TrueOf(m, afi, c)
    <3>1. /\ m.family = "ribCount" /\ m.value = c[afi].types[t]
          /\ m.label["route_type"] = <<"route_type", t>>
      BY <1>2, <2>3
    <3>2. m.label["route_type"][2] = t
      BY <3>1
    <3>3. QED
      BY <2>3, <3>1, <3>2 DEF TrueOf
  <2>4. QED
    BY <2>1, <2>2, <2>3 DEF RouteMetrics
<1>5. QED
  BY <1>3, <1>4 DEF Fits

\* What rpki sends of a VRF is true of it and carries it.
LEMMA RpkiFits ==
  ASSUME collector = "rpki", NEW v \in AllVrfs, NEW afi, NEW c, NEW m \in RpkiMetrics(v, c)
  PROVE  Fits(m, v, afi, c)
<1>1. PICK h \in DOMAIN c :
        LET values == << <<"vrf", v>>, <<"host", h>> >> IN
        \/ m = Metric("cacheState", values, IF c[h].state = "connected" THEN 1 ELSE 0)
        \/ m = Metric("cachePreference", values, c[h].preference)
  BY DEF RpkiMetrics
<1>2. ASSUME NEW f \in {"cacheState", "cachePreference"}, NEW x,
             m = Metric(f, << <<"vrf", v>>, <<"host", h>> >>, x)
      PROVE  /\ m.family = f /\ m.value = x /\ DOMAIN m.label = {"vrf", "host"}
             /\ m.label["vrf"] = <<"vrf", v>> /\ m.label["host"] = <<"host", h>>
  <2>1. LabelNames[f] = <<"vrf", "host">> /\ "vrf" # "host"
    BY DEF LabelNames
  <2>2. QED
    BY <1>2, <2>1, Label2
<1>3. Mine(m, v, afi)
  BY <1>1, <1>2 DEF Mine, IsOf
<1>4. TrueOf(m, afi, c)
  <2>1. CASE m = Metric("cacheState", << <<"vrf", v>>, <<"host", h>> >>,
                        IF c[h].state = "connected" THEN 1 ELSE 0)
    <3>1. 0 # 1
      OBVIOUS
    <3>2. m.value = 1 <=> c[h].state = "connected"
      BY <1>2, <2>1, <3>1
    <3>3. m.family = "cacheState" /\ m.label["host"] = <<"host", h>>
      BY <1>2, <2>1
    <3>4. QED
      BY <3>2, <3>3 DEF TrueOf
  <2>2. CASE m = Metric("cachePreference", << <<"vrf", v>>, <<"host", h>> >>, c[h].preference)
    <3>1. /\ m.family = "cachePreference" /\ m.value = c[h].preference
          /\ m.label["host"] = <<"host", h>>
      BY <1>2, <2>2
    <3>2. m.label["host"][2] = h
      BY <3>1
    <3>3. QED
      BY <1>1, <3>1, <3>2 DEF TrueOf
  <2>3. QED
    BY <1>1, <2>1, <2>2
<1>5. QED
  BY <1>3, <1>4 DEF Fits

\* The same of pim, if the lower-case name stands for one VRF only.
LEMMA PimFits ==
  ASSUME collector = "pim", CaseMatters, NEW v \in AllVrfs, NEW afi, NEW c \in Contents.pim,
         NEW m \in PimMetrics(v, c)
  PROVE  Fits(m, v, afi, c)
<1>1. ASSUME NEW n \in DOMAIN c,
             m = Metric("upTime", << <<"vrf", Lower[v]>>, <<"iface", Lower[n[1]]>>, <<"neighbor", n[2]>> >>, c[n])
      PROVE  Fits(m, v, afi, c)
  <2>1. /\ LabelNames["upTime"] = <<"vrf", "iface", "neighbor">>
        /\ "vrf" # "iface" /\ "vrf" # "neighbor" /\ "iface" # "neighbor"
    BY DEF LabelNames
  <2>2. /\ m.family = "upTime" /\ m.value = c[n] /\ DOMAIN m.label = {"vrf", "iface", "neighbor"}
        /\ m.label["vrf"] = <<"vrf", Lower[v]>> /\ m.label["iface"] = <<"iface", Lower[n[1]]>>
        /\ m.label["neighbor"] = <<"neighbor", n[2]>>
    BY <1>1, <2>1, Label3
  <2>3. Mine(m, v, afi)
    BY <2>2, CaseMatters DEF Mine, IsOf, CaseMatters
  <2>4. Lower[n[1]] = m.label["iface"][2] /\ n[2] = m.label["neighbor"][2] /\ m.value = c[n]
    BY <2>2
  <2>5. TrueOf(m, afi, c)
    BY <2>2, <2>4 DEF TrueOf
  <2>6. QED
    BY <2>3, <2>5 DEF Fits
<1>2. ASSUME m = Metric("neighborCount", << <<"vrf", v>> >>, NeighborCount(c))
      PROVE  Fits(m, v, afi, c)
  <2>1. LabelNames["neighborCount"] = <<"vrf">>
    BY DEF LabelNames
  <2>2. /\ m.family = "neighborCount" /\ m.value = NeighborCount(c)
        /\ DOMAIN m.label = {"vrf"} /\ m.label["vrf"] = <<"vrf", v>>
    BY <1>2, <2>1, Label1
  <2>3. Mine(m, v, afi)
    BY <2>2 DEF Mine, IsOf
  <2>4. TrueOf(m, afi, c)
    BY <2>2 DEF TrueOf, NeighborCount
  <2>5. QED
    BY <2>3, <2>4 DEF Fits
<1>3. QED
  BY <1>1, <1>2 DEF PimMetrics, UpTimes, Parsed

\* The same of bfd.
LEMMA BfdFits ==
  ASSUME collector = "bfd", NEW v \in AllVrfs, NEW afi, NEW c \in Contents.bfd,
         NEW m \in BfdMetrics(v, c)
  PROVE  Fits(m, v, afi, c)
<1>1. PICK p \in DOMAIN c :
        LET values == << <<"local", p[1]>>, <<"peer", p[2]>>, <<"iface", p[3]>>, <<"vrf", v>> >> IN
        \/ m = Metric("bfdPeerUptime", values, c[p].uptime)
        \/ m = Metric("bfdPeerState", values, IF c[p].status = "up" THEN 1 ELSE 0)
  BY DEF BfdMetrics
<1>2. ASSUME NEW f \in {"bfdPeerUptime", "bfdPeerState"}, NEW x,
             m = Metric(f, << <<"local", p[1]>>, <<"peer", p[2]>>, <<"iface", p[3]>>, <<"vrf", v>> >>, x)
      PROVE  /\ m.family = f /\ m.value = x /\ DOMAIN m.label = {"local", "peer", "iface", "vrf"}
             /\ m.label["local"] = <<"local", p[1]>> /\ m.label["peer"] = <<"peer", p[2]>>
             /\ m.label["iface"] = <<"iface", p[3]>> /\ m.label["vrf"] = <<"vrf", v>>
  <2>1. /\ LabelNames[f] = <<"local", "peer", "iface", "vrf">>
        /\ "local" # "peer" /\ "local" # "iface" /\ "local" # "vrf" /\ "peer" # "iface"
        /\ "peer" # "vrf" /\ "iface" # "vrf"
    BY DEF LabelNames
  <2>2. QED
    BY <1>2, <2>1, Label4
<1>3. Mine(m, v, afi)
  BY <1>1, <1>2 DEF Mine, IsOf
<1> DEFINE values == << <<"local", p[1]>>, <<"peer", p[2]>>, <<"iface", p[3]>>, <<"vrf", v>> >>
<1>5. TrueOf(m, afi, c)
  <2>1. CASE m = Metric("bfdPeerUptime", values, c[p].uptime)
    <3>1. /\ m.family = "bfdPeerUptime" /\ m.value = c[p].uptime
          /\ m.label["local"] = <<"local", p[1]>> /\ m.label["peer"] = <<"peer", p[2]>>
          /\ m.label["iface"] = <<"iface", p[3]>>
      BY <1>2, <2>1
    <3>2. p[1] = m.label["local"][2] /\ p[2] = m.label["peer"][2] /\ p[3] = m.label["iface"][2]
      BY <3>1
    <3>3. QED
      BY <1>1, <3>1, <3>2 DEF TrueOf
  <2>2. CASE m = Metric("bfdPeerState", values, IF c[p].status = "up" THEN 1 ELSE 0)
    <3>1. 0 # 1
      OBVIOUS
    <3>2. m.value = 1 <=> c[p].status = "up"
      BY <1>2, <2>2, <3>1
    <3>3. /\ m.family = "bfdPeerState" /\ m.label["local"] = <<"local", p[1]>>
          /\ m.label["peer"] = <<"peer", p[2]>> /\ m.label["iface"] = <<"iface", p[3]>>
      BY <1>2, <2>2
    <3>4. p[1] = m.label["local"][2] /\ p[2] = m.label["peer"][2] /\ p[3] = m.label["iface"][2]
      BY <3>3
    <3>5. QED
      BY <3>2, <3>3, <3>4 DEF TrueOf
  <2>3. QED
    BY <1>1, <2>1, <2>2
<1>6. QED
  BY <1>3, <1>5 DEF Fits

\* What vrrp sends of one virtual router in one family is true of it.
LEMMA InstanceFits ==
  ASSUME collector = "vrrp", NEW afi, NEW c \in Contents.vrrp, NEW r \in DOMAIN c,
         NEW p \in {"v4", "v6"}, NEW m \in processInstance(r, p, c[r][p])
  PROVE  Fits(m, "default", afi, c)
<1> DEFINE i == c[r][p]
           values == << <<"proto", p>>, <<"vrid", r[1]>>, <<"interface", r[2]>>,
                        <<"subinterface", i.sub>> >>
<1>0. r = <<r[1], r[2]>> /\ \A x, y \in i.adverTx : x = y
  BY ShapeAssumption
<1>s. /\ "proto" # "vrid" /\ "proto" # "interface" /\ "proto" # "subinterface"
      /\ "proto" # "state" /\ "vrid" # "interface" /\ "vrid" # "subinterface"
      /\ "vrid" # "state" /\ "interface" # "subinterface" /\ "interface" # "state"
      /\ "subinterface" # "state"
  OBVIOUS
<1>1. ASSUME NEW s \in VrrpStates,
             m = Metric("vrrpState", Append(values, <<"state", s>>),
                        IF EqualFold(i.status, s) THEN 1 ELSE 0)
      PROVE  Fits(m, "default", afi, c)
  <2>1. LabelNames["vrrpState"] = <<"proto", "vrid", "interface", "subinterface", "state">>
    BY DEF LabelNames
  <2>2. Append(values, <<"state", s>>)
          = << <<"proto", p>>, <<"vrid", r[1]>>, <<"interface", r[2]>>,
               <<"subinterface", i.sub>>, <<"state", s>> >>
    BY AppendToFour
  <2>a. PICK x : x = IF EqualFold(i.status, s) THEN 1 ELSE 0
    OBVIOUS
  <2>b. m = Metric("vrrpState", << <<"proto", p>>, <<"vrid", r[1]>>, <<"interface", r[2]>>,
                                   <<"subinterface", i.sub>>, <<"state", s>> >>, x)
    BY <1>1, <2>2, <2>a
  <2>3. /\ m.family = "vrrpState" /\ m.value = x
        /\ DOMAIN m.label = {"proto", "vrid", "interface", "subinterface", "state"}
        /\ m.label["proto"] = <<"proto", p>> /\ m.label["vrid"] = <<"vrid", r[1]>>
        /\ m.label["interface"] = <<"interface", r[2]>> /\ m.label["state"] = <<"state", s>>
    BY <1>s, <2>1, <2>b, Label5
  <2>c. m.value = 1 <=> i.status.text = s
    <3>1. 0 # 1
      OBVIOUS
    <3>2. QED
      BY <2>3, <2>a, <3>1 DEF EqualFold
  <2>4. Mine(m, "default", afi)
    BY <2>3 DEF Mine, IsOf
  <2>5. TrueOf(m, afi, c)
    BY <1>0, <2>3, <2>c DEF TrueOf
  <2>6. QED
    BY <2>4, <2>5 DEF Fits
<1>2. ASSUME NEW n \in i.adverTx, m = Metric("adverTx", values, n)
      PROVE  Fits(m, "default", afi, c)
  <2>1. LabelNames["adverTx"] = <<"proto", "vrid", "interface", "subinterface">>
    BY DEF LabelNames
  <2>2. /\ m.family = "adverTx" /\ m.value = n
        /\ DOMAIN m.label = {"proto", "vrid", "interface", "subinterface"}
        /\ m.label["proto"] = <<"proto", p>> /\ m.label["vrid"] = <<"vrid", r[1]>>
        /\ m.label["interface"] = <<"interface", r[2]>>
    BY <1>2, <1>s, <2>1, Label4
  <2>3. Mine(m, "default", afi)
    BY <2>2 DEF Mine, IsOf
  <2>4. i.adverTx = {n}
    BY <1>0, <1>2
  <2>5. TrueOf(m, afi, c)
    BY <1>0, <2>2, <2>4 DEF TrueOf
  <2>6. QED
    BY <2>3, <2>5 DEF Fits
<1>3. m \in {Metric("vrrpState", Append(values, <<"state", s>>),
                   IF EqualFold(i.status, s) THEN 1 ELSE 0) : s \in VrrpStates}
            \cup {Metric("adverTx", values, n) : n \in i.adverTx}
  BY DEF processInstance
<1>4. QED
  BY <1>1, <1>2, <1>3

\* So is what it sends of all of them.
LEMMA VrrpFits ==
  ASSUME collector = "vrrp", NEW afi, NEW c \in Contents.vrrp, NEW m \in VrrpMetrics(c)
  PROVE  Fits(m, "default", afi, c)
<1>1. PICK r \in DOMAIN c : \/ m \in processInstance(r, "v4", c[r]["v4"])
                            \/ m \in processInstance(r, "v6", c[r]["v6"])
  BY DEF VrrpMetrics
<1>2. QED
  BY <1>1, InstanceFits

\* What status sends is true of FRR.
LEMMA StatusFits ==
  ASSUME collector = "status", NEW afi, NEW c, NEW version, NEW x, x = 1 => version = c
  PROVE  Fits(StatusMetric(version, x), "default", afi, c)
<1> DEFINE m == StatusMetric(version, x)
<1>1. LabelNames["up"] = <<"version", "os">> /\ "version" # "os"
  BY DEF LabelNames
<1>2. /\ m.family = "up" /\ m.value = x /\ DOMAIN m.label = {"version", "os"}
      /\ m.label["version"] = <<"version", version>>
  BY <1>1, Label2 DEF StatusMetric
<1>3. Mine(m, "default", afi)
  BY <1>2 DEF Mine, IsOf
<1>4. TrueOf(m, afi, c)
  BY <1>2 DEF TrueOf
<1>5. QED
  BY <1>3, <1>4 DEF Fits

-----------------------------------------------------------------------------
(* The invariant for types and failures.                                   *)

SeenVrfs == IF ByVrf THEN AllVrfs ELSE {"default"}
Tables   == UNION {[D -> Contents[collector]] : D \in SUBSET SeenVrfs}
Answers  == [form : Forms, table : Tables]

Types ==
  /\ collector \in Names /\ detailed \in BOOLEAN /\ oldFrr \in BOOLEAN
  /\ frr \in Tables /\ "default" \in DOMAIN frr
  /\ changes \in 0 .. MaxChanges
  /\ had \in [AllVrfs -> SUBSET Contents[collector]]
  /\ stayed \subseteq DOMAIN frr
  /\ pc \in PCs
  /\ answers \in Seq(Answers) /\ Len(answers) <= Wanted
  /\ at \in 1 .. Wanted
  /\ left \in Tables
  /\ toAsk \in Seq(AllVrfs)
  /\ again \in BOOLEAN

\* Whatever was read of a VRF is something that it has held.
Observed(t) == \A v \in DOMAIN t : t[v] \in had[v]
Observations ==
  /\ Observed(frr) /\ Observed(left)
  /\ \A i \in DOMAIN answers : Observed(answers[i].table)

Progress ==
  /\ pc \in {"process", "emit"} => at <= Len(answers)
  /\ pc = "all" => Len(answers) < Wanted /\ at = 1
  /\ pc \in {"list", "one"} => collector \in {"route", "rpki"}
  /\ collector = "route" /\ pc \notin {"all", "err"} => Len(answers) = Wanted

Silent ==
  /\ FailureSendsNothing
  /\ collector \in {"bfd", "vrrp"} /\ pc \in {"all", "process"} => sent = {}

Base == Types /\ Observations /\ Progress /\ Silent

\* What a table of contents, whole or in part, is a function of.
LEMMA TableFacts ==
  /\ SeenVrfs \subseteq AllVrfs
  /\ \A t \in Tables : DOMAIN t \subseteq SeenVrfs /\ t \in [DOMAIN t -> Contents[collector]]
  /\ \A D \in SUBSET SeenVrfs : [D -> Contents[collector]] \subseteq Tables
  /\ Nothing \in Tables
<1>1. SeenVrfs \subseteq AllVrfs
  BY DEF SeenVrfs, AllVrfs
<1>2. \A D \in SUBSET SeenVrfs : [D -> Contents[collector]] \subseteq Tables
  BY DEF Tables
<1>3. Nothing \in [{} -> Contents[collector]]
  BY DEF Nothing
<1>4. QED
  BY <1>1, <1>2, <1>3 DEF Tables

\* Base holds at the start.
LEMMA BaseInit == Init => Base
<1> SUFFICES ASSUME Init PROVE Base
  OBVIOUS
<1>1. collector \in Names /\ detailed \in BOOLEAN /\ oldFrr \in BOOLEAN
  BY DEF Init
<1>2. PICK vs \in IF ByVrf THEN SUBSET Vrfs ELSE {{}} :
        frr \in [vs \cup {"default"} -> Contents[collector]]
  BY DEF Init
<1>3. vs \cup {"default"} \in SUBSET SeenVrfs
  BY DEF SeenVrfs, AllVrfs
<1>4. frr \in Tables /\ DOMAIN frr = vs \cup {"default"}
  BY <1>2, <1>3, TableFacts
<1>5. had = [v \in AllVrfs |-> {frr[w] : w \in DOMAIN frr \cap {v}}]
  BY DEF Init
<1>6. had \in [AllVrfs -> SUBSET Contents[collector]]
  BY <1>2, <1>4, <1>5
<1>7. Observed(frr)
  BY <1>4, <1>5, TableFacts DEF Observed
<1>8. /\ answers = <<>> /\ at = 1 /\ left = Nothing /\ toAsk = <<>> /\ sent = {}
      /\ again = FALSE /\ changes = 0 /\ stayed = DOMAIN frr
      /\ pc = IF collector = "rpki" THEN "list" ELSE "all"
  BY DEF Init
<1>9. Wanted \in {1, 2} /\ (collector = "rpki" => Wanted = 1)
  BY DEF Wanted
<1>10. answers \in Seq(Answers) /\ Len(answers) = 0 /\ toAsk \in Seq(AllVrfs) /\ DOMAIN answers = {}
  BY <1>8
<1>a. frr \in Tables /\ "default" \in DOMAIN frr /\ stayed \subseteq DOMAIN frr /\ left \in Tables
  BY <1>4, <1>8, TableFacts
<1>b. at \in 1 .. Wanted /\ changes \in 0 .. MaxChanges
  BY <1>8, <1>9, BoundAssumption
<1>d. pc \in PCs /\ again \in BOOLEAN
  BY <1>8 DEF PCs
<1>c. Len(answers) <= Wanted
  BY <1>9, <1>10
<1>11. Types
  BY <1>1, <1>6, <1>10, <1>a, <1>b, <1>c, <1>d DEF Types
<1>12. Observations
  BY <1>7, <1>8, <1>10 DEF Observations, Observed, Nothing
<1>13. Progress
  BY <1>8, <1>9, <1>10 DEF Progress
<1>14. Silent
  BY <1>8 DEF Silent, FailureSendsNothing
<1>15. QED
  BY <1>11, <1>12, <1>13, <1>14 DEF Base

\* A change of FRR keeps it.
LEMMA ChangeBase == Base /\ Change => Base'
<1> SUFFICES ASSUME Base, Change PROVE Base'
  OBVIOUS
<1>0. UNCHANGED <<settings, pc, answers, at, left, toAsk, outVars>>
  BY DEF Change
<1>1. /\ collector' = collector /\ Wanted' = Wanted /\ Tables' = Tables /\ Answers' = Answers
      /\ detailed' = detailed /\ oldFrr' = oldFrr /\ again' = again /\ sent' = sent
  BY <1>0 DEF settings, outVars, Wanted, Tables, Answers, Forms, SeenVrfs, ByVrf
<1>2. changes' \in 0 .. MaxChanges
  BY BoundAssumption DEF Change, Base, Types
<1> DEFINE Good ==
      /\ frr' \in Tables /\ "default" \in DOMAIN frr' /\ stayed' \subseteq DOMAIN frr'
      /\ had' \in [AllVrfs -> SUBSET Contents[collector]]
      /\ \A v \in AllVrfs : had[v] \subseteq had'[v]
      /\ Observed(frr)'
<1>3. Good
  <2>1. ASSUME NEW v \in SeenVrfs, NEW c \in Contents[collector],
               frr' = [w \in DOMAIN frr \cup {v} |-> IF w = v THEN c ELSE frr[w]],
               had' = [had EXCEPT ![v] = @ \cup {c}], UNCHANGED stayed
        PROVE  Good
    <3>1. /\ DOMAIN frr \subseteq SeenVrfs /\ frr \in [DOMAIN frr -> Contents[collector]]
          /\ v \in AllVrfs
      BY TableFacts DEF Base, Types
    <3>2. frr' \in [DOMAIN frr \cup {v} -> Contents[collector]]
      BY <2>1, <3>1
    <3>3. frr' \in Tables
      BY <3>1, <3>2, TableFacts
    <3>4. had' \in [AllVrfs -> SUBSET Contents[collector]]
      BY <2>1, <3>1 DEF Base, Types
    <3>5. \A w \in AllVrfs : had[w] \subseteq had'[w]
      BY <2>1, <3>1 DEF Base, Types
    <3>6. c \in had'[v]
      BY <2>1, <3>1 DEF Base, Types
    <3>7. Observed(frr)'
      <4> SUFFICES ASSUME NEW w \in DOMAIN frr' PROVE frr'[w] \in had'[w]
        BY DEF Observed
      <4>1. CASE w = v
        BY <2>1, <3>6, <4>1
      <4>2. CASE w # v
        <5>1. w \in DOMAIN frr /\ frr'[w] = frr[w] /\ w \in AllVrfs
          BY <2>1, <4>2, <3>1, TableFacts
        <5>2. QED
          BY <3>5, <5>1 DEF Base, Observations, Observed
      <4>3. QED
        BY <4>1, <4>2
    <3>8. QED
      BY <2>1, <3>3, <3>4, <3>5, <3>7 DEF Base, Types
  <2>2. ASSUME NEW v \in DOMAIN frr \ {"default"}, frr' = [w \in DOMAIN frr \ {v} |-> frr[w]],
               stayed' = stayed \ {v}, UNCHANGED had
        PROVE  Good
    <3>1. /\ DOMAIN frr \subseteq SeenVrfs /\ frr \in [DOMAIN frr -> Contents[collector]]
      BY TableFacts DEF Base, Types
    <3>2. frr' \in [DOMAIN frr \ {v} -> Contents[collector]]
      BY <2>2, <3>1
    <3>3. frr' \in Tables
      BY <3>1, <3>2, TableFacts
    <3>4. QED
      BY <2>2, <3>3 DEF Base, Types, Observations, Observed
  <2>3. IF ByVrf THEN SeenVrfs = AllVrfs ELSE SeenVrfs = {"default"}
    BY DEF SeenVrfs
  <2>4. QED
    BY <2>1, <2>2, <2>3 DEF Change
<1>4. Types'
  BY <1>0, <1>1, <1>2, <1>3 DEF Base, Types
<1>5. Observations'
  <2>1. ASSUME NEW t, t \in Tables, Observed(t) PROVE \A v \in DOMAIN t : t[v] \in had'[v]
    BY <2>1, <1>3, TableFacts DEF Observed
  <2>2. Observed(left)'
    BY <1>0, <2>1 DEF Base, Types, Observations, Observed
  <2>3. ASSUME NEW i \in DOMAIN answers PROVE Observed(answers[i].table)'
    <3>1. answers[i].table \in Tables
      <4>1. answers \in Seq(Answers)
        BY DEF Base, Types
      <4>2. answers[i] \in Answers
        BY <4>1
      <4>3. QED
        BY <4>2 DEF Answers
    <3>2. QED
      BY <1>0, <2>1, <3>1 DEF Base, Observations, Observed
  <2>4. QED
    BY <1>0, <1>3, <2>2, <2>3 DEF Observations
<1>6. Progress' /\ Silent'
  BY <1>0, <1>1 DEF Base, Progress, Silent, FailureSendsNothing
<1>7. QED
  BY <1>4, <1>5, <1>6 DEF Base

\* No step of the exporter changes what the settings determine.
LEMMA SettingsKept ==
  ASSUME UNCHANGED settings
  PROVE  /\ collector' = collector /\ detailed' = detailed /\ oldFrr' = oldFrr
         /\ Wanted' = Wanted /\ SeenVrfs' = SeenVrfs /\ Tables' = Tables /\ Answers' = Answers
BY DEF settings, Wanted, SeenVrfs, ByVrf, Tables, Answers, Forms

\* An answer is a table, and FRR has held each of its parts; only route may take
\* it for something else.
LEMMA AnswerFacts ==
  ASSUME Base, NEW i \in DOMAIN answers
  PROVE  /\ answers[i].table \in Tables /\ Observed(answers[i].table)
         /\ answers[i].form = "mistyped" => collector = "route"
<1>1. answers \in Seq(Answers)
  BY DEF Base, Types
<1>2. answers[i] \in Answers
  BY <1>1
<1>3. QED
  BY <1>2 DEF Answers, Forms, Base, Observations

\* Sending keeps the record of duplicates a Boolean.
LEMMA AgainBoolean ==
  ASSUME again \in BOOLEAN, NEW new, NEW rep, Send(new, rep)
  PROVE  again' \in BOOLEAN
BY DEF Send

\* The steps of Update that read no answer.
LEMMA StepBase ==
  ASSUME Base, UNCHANGED <<settings, frrVars, answers>>,
         pc' \in PCs, at' \in 1 .. Wanted, left' \in Tables, Observed(left)',
         toAsk' \in Seq(AllVrfs), again' \in BOOLEAN, Progress', Silent'
  PROVE  Base'
<1>1. /\ frr' = frr /\ changes' = changes /\ had' = had /\ stayed' = stayed /\ answers' = answers
  BY DEF frrVars
<1>2. Types'
  BY <1>1, SettingsKept DEF Base, Types
<1>3. Observations'
  BY <1>1 DEF Base, Observations, Observed
<1>4. QED
  BY <1>2, <1>3 DEF Base

\* A failing command ends Update: with nothing, or, for status, with down.
LEMMA FailCases ==
  ASSUME Fail
  PROVE  \/ collector = "status" /\ pc' = "ok" /\ Send(Down, FALSE)
         \/ collector # "status" /\ pc' = "err" /\ UNCHANGED outVars
BY DEF Fail

\* It keeps Base, wherever it fails.
LEMMA FailBase ==
  ASSUME Base, UNCHANGED <<settings, frrVars, answers, at, left, toAsk>>, Fail,
         pc \in {"all", "process"}, collector # "route" \/ pc = "all"
  PROVE  Base'
<1>1. /\ pc' \in PCs /\ at' \in 1 .. Wanted /\ left' \in Tables /\ toAsk' \in Seq(AllVrfs)
      /\ answers' = answers /\ at' = at /\ had' = had
  BY FailCases DEF PCs, Base, Types, frrVars
<1>2. again' \in BOOLEAN
  <2>1. again \in BOOLEAN
    BY DEF Base, Types
  <2>2. QED
    BY <2>1, FailCases, AgainBoolean DEF outVars
<1>3. Observed(left)'
  BY <1>1 DEF Base, Observations, Observed
<1>4. Progress'
  BY <1>1, FailCases, SettingsKept DEF Progress
<1>5. Silent'
  <2>1. CASE collector = "status"
    <3>1. pc' = "ok"
      BY <2>1, FailCases
    <3>2. QED
      BY <2>1, <3>1, SettingsKept DEF Silent, FailureSendsNothing
  <2>2. CASE collector # "status"
    <3>1. pc' = "err" /\ sent' = sent
      BY <2>2, FailCases DEF outVars
    <3>2. collector \in {"bfd", "vrrp"} => sent = {}
      BY DEF Base, Silent
    <3>3. collector = "route" /\ sent # {} => Len(answers) = Wanted
      BY DEF Base, Silent, FailureSendsNothing
    <3>4. QED
      BY <1>1, <2>2, <3>1, <3>2, <3>3, SettingsKept DEF Silent, FailureSendsNothing
  <2>3. QED
    BY <2>1, <2>2
<1>6. QED
  BY <1>1, <1>2, <1>3, <1>4, <1>5, StepBase

\* So does a command about all VRFs,
LEMMA AskAllBase == Base /\ AskAll => Base'
<1> SUFFICES ASSUME Base, AskAll PROVE Base'
  OBVIOUS
<1>0. pc = "all" /\ UNCHANGED <<settings, frrVars, at, left, toAsk>>
  BY DEF AskAll
<1>1. CASE Fail /\ UNCHANGED answers
  BY <1>0, <1>1, FailBase
<1>2. ASSUME NEW form \in Forms,
             answers' = Append(answers, [form |-> form, table |-> frr]),
             pc' = IF AllAsked THEN "process" ELSE "all", UNCHANGED outVars
      PROVE  Base'
  <2> DEFINE a == [form |-> form, table |-> frr]
  <2>1. answers \in Seq(Answers) /\ a \in Answers /\ Len(answers) < Wanted /\ Wanted \in {1, 2}
    BY <1>0 DEF Base, Types, Answers, Progress, Wanted
  <2>2. /\ answers' \in Seq(Answers) /\ Len(answers') = Len(answers) + 1
        /\ \A i \in DOMAIN answers' : \/ i \in DOMAIN answers /\ answers'[i] = answers[i]
                                      \/ answers'[i] = a
    BY <1>2, <2>1
  <2>3. Len(answers') <= Wanted /\ (pc' = "process" <=> Len(answers') = Wanted) /\ pc' \in {"all", "process"}
    BY <1>2, <2>1, <2>2 DEF AllAsked
  <2>4. /\ frr' = frr /\ had' = had /\ changes' = changes /\ stayed' = stayed /\ at' = at
        /\ left' = left /\ toAsk' = toAsk /\ sent' = sent /\ again' = again
    BY <1>0, <1>2 DEF frrVars, outVars
  <2>5. Types'
    BY <1>0, <2>2, <2>3, <2>4, SettingsKept DEF Base, Types, PCs
  <2>6. Observations'
    <3>1. ASSUME NEW i \in DOMAIN answers'
          PROVE  \A v \in DOMAIN answers'[i].table : answers'[i].table[v] \in had[v]
      <4>1. CASE i \in DOMAIN answers /\ answers'[i] = answers[i]
        BY <4>1 DEF Base, Observations, Observed
      <4>2. CASE answers'[i] = a
        BY <4>2 DEF Base, Observations, Observed
      <4>3. QED
        BY <2>2, <4>1, <4>2
    <3>2. QED
      BY <2>4, <3>1 DEF Base, Observations, Observed
  <2>7. Progress'
    <3>1. at = 1 /\ Len(answers') \in Nat /\ Len(answers') > 0 /\ Len(answers) \in Nat
      BY <1>0, <2>1, <2>2 DEF Base, Progress
    <3>2. pc' = "all" => Len(answers') < Wanted
      BY <2>1, <2>3, <3>1
    <3>3. QED
      BY <1>0, <2>3, <2>4, <3>1, <3>2, SettingsKept DEF Progress
  <2>8. Silent'
    <3>1. collector \in {"bfd", "vrrp", "route"} => sent = {}
      BY <1>0, <2>1 DEF Base, Silent, FailureSendsNothing
    <3>2. QED
      BY <1>0, <2>3, <2>4, <3>1, SettingsKept DEF Silent, FailureSendsNothing
  <2>9. QED
    BY <2>5, <2>6, <2>7, <2>8 DEF Base
<1>3. QED
  BY <1>1, <1>2 DEF AskAll

\* the start of processing an answer,
LEMMA ProcessBase == Base /\ Process => Base'
<1> SUFFICES ASSUME Base, Process PROVE Base'
  OBVIOUS
<1>0. /\ pc = "process" /\ UNCHANGED <<settings, frrVars, answers, at, toAsk>>
      /\ answers' = answers /\ at' = at /\ had' = had
  BY DEF Process, frrVars
<1>1. /\ at \in 1 .. Wanted /\ toAsk \in Seq(AllVrfs) /\ at <= Len(answers) /\ again \in BOOLEAN
      /\ left \in Tables /\ Observed(left)
  BY <1>0 DEF Base, Types, Progress, Observations
<1>2. at \in DOMAIN answers
  BY <1>1 DEF Base, Types, Wanted
<1>3. collector = "route" => Len(answers) = Wanted
  BY <1>0 DEF Base, Progress
<1>4. collector # "route" => (collector \in {"bfd", "vrrp"} => sent = {})
  BY <1>0 DEF Base, Silent
<1>5. CASE pc' = "emit" /\ left' = answers[at].table /\ Send(FirstMetrics(answers[at].table), FALSE)
  <2>1. left' \in Tables /\ Observed(left)' /\ again' \in BOOLEAN
    BY <1>0, <1>1, <1>2, <1>5, AnswerFacts, AgainBoolean DEF Observed
  <2>2. Progress'
    BY <1>0, <1>1, <1>3, <1>5, SettingsKept DEF Progress
  <2>3. Silent'
    BY <1>0, <1>3, <1>5, SettingsKept DEF Silent, FailureSendsNothing
  <2>4. QED
    BY <1>0, <1>1, <1>5, <2>1, <2>2, <2>3, StepBase, SettingsKept DEF PCs
<1>6. CASE collector = "route" /\ pc' = "list" /\ UNCHANGED outVars /\ UNCHANGED left
  <2>1. left' \in Tables /\ Observed(left)' /\ again' \in BOOLEAN
    BY <1>0, <1>1, <1>6 DEF Observed, outVars
  <2>2. Progress'
    BY <1>0, <1>1, <1>3, <1>6, SettingsKept DEF Progress
  <2>3. Silent'
    BY <1>0, <1>3, <1>6, SettingsKept DEF Silent, FailureSendsNothing
  <2>4. QED
    BY <1>0, <1>1, <1>6, <2>1, <2>2, <2>3, StepBase, SettingsKept DEF PCs
<1>7. CASE collector # "route" /\ Fail /\ UNCHANGED left
  BY <1>0, <1>7, FailBase
<1>8. CASE /\ pc' = "emit" /\ left' = Nothing
           /\ Send(RouteMetrics(Afis[at], "default", NoRoutes), FALSE)
  <2>1. left' \in Tables /\ Observed(left)' /\ again' \in BOOLEAN
    <3>1. DOMAIN left' = {}
      BY <1>8 DEF Nothing
    <3>2. QED
      BY <1>1, <1>8, <3>1, TableFacts, AgainBoolean DEF Observed
  <2>2. Progress'
    BY <1>0, <1>1, <1>3, <1>8, SettingsKept DEF Progress
  <2>3. Silent'
    BY <1>0, <1>3, <1>8, SettingsKept DEF Silent, FailureSendsNothing
  <2>4. QED
    BY <1>0, <1>1, <1>8, <2>1, <2>2, <2>3, StepBase, SettingsKept DEF PCs
<1>9. QED
  BY <1>5, <1>6, <1>7, <1>8 DEF Process

\* A table without one VRF is a table.
LEMMA Restricted ==
  ASSUME NEW t \in Tables, NEW v
  PROVE  [w \in DOMAIN t \ {v} |-> t[w]] \in Tables
<1>1. DOMAIN t \subseteq SeenVrfs /\ t \in [DOMAIN t -> Contents[collector]]
  BY TableFacts
<1>2. [w \in DOMAIN t \ {v} |-> t[w]] \in [DOMAIN t \ {v} -> Contents[collector]]
  BY <1>1
<1>3. QED
  BY <1>1, <1>2, TableFacts

\* So does sending the metrics of a VRF,
LEMMA EmitBase == \A v \in AllVrfs : Base /\ Emit(v) => Base'
<1> SUFFICES ASSUME NEW v \in AllVrfs, Base, Emit(v) PROVE Base'
  OBVIOUS
<1>0. /\ pc = "emit" /\ UNCHANGED <<settings, frrVars, answers, at, toAsk>>
      /\ answers' = answers /\ at' = at /\ had' = had
  BY DEF Emit, frrVars
<1>1. /\ at \in 1 .. Wanted /\ toAsk \in Seq(AllVrfs) /\ at <= Len(answers) /\ again \in BOOLEAN
      /\ left \in Tables /\ Observed(left)
  BY <1>0 DEF Base, Types, Progress, Observations
<1>2. collector = "route" => Len(answers) = Wanted
  BY <1>0 DEF Base, Progress
<1>3. left' \in Tables /\ Observed(left)'
  BY <1>0, <1>1, Restricted DEF Emit, Observed
<1>4. again' \in BOOLEAN
  BY <1>1, AgainBoolean DEF Emit
<1>5. pc' = "emit" \/ (pc' = "err" /\ collector = "pim")
  BY <1>0 DEF Emit
<1>6. Progress'
  BY <1>0, <1>1, <1>2, <1>5, SettingsKept DEF Progress
<1>7. Silent'
  BY <1>0, <1>2, <1>5, SettingsKept DEF Silent, FailureSendsNothing
<1>8. QED
  BY <1>0, <1>1, <1>3, <1>4, <1>5, <1>6, <1>7, StepBase, SettingsKept DEF PCs

\* and going on to the next family.
LEMMA ProceedBase ==
  ASSUME Base, Proceed, pc \in {"emit", "one"},
         UNCHANGED <<settings, frrVars, answers, left, toAsk, outVars>>
  PROVE  Base'
<1>0. /\ answers' = answers /\ left' = left /\ had' = had /\ again' = again /\ sent' = sent
      /\ toAsk' = toAsk
  BY DEF frrVars, outVars
<1>1. /\ at \in 1 .. Wanted /\ toAsk \in Seq(AllVrfs) /\ again \in BOOLEAN
      /\ left \in Tables /\ Observed(left) /\ Wanted \in {1, 2} /\ Len(answers) <= Wanted
      /\ answers \in Seq(Answers) /\ Len(answers) \in Nat
  BY DEF Base, Types, Progress, Observations, Wanted
<1>2. collector = "route" => Len(answers) = Wanted
  BY DEF Base, Progress
<1>3. \/ at' = at + 1 /\ pc' = "process" /\ at < Len(answers)
      \/ at' = at /\ pc' = "ok"
  BY DEF Proceed
<1>4. at' \in 1 .. Wanted /\ pc' \in {"process", "ok"} /\ (pc' = "process" => at' <= Len(answers))
  BY <1>1, <1>3
<1>5. Progress'
  BY <1>0, <1>2, <1>4, SettingsKept DEF Progress
<1>6. pc' = "process" => collector \notin {"bfd", "vrrp"}
  BY <1>1, <1>3 DEF Wanted
<1>7. Silent'
  BY <1>0, <1>2, <1>4, <1>6, SettingsKept DEF Silent, FailureSendsNothing
<1>8. Observed(left)'
  BY <1>0, <1>1 DEF Observed
<1>9. QED
  BY <1>0, <1>1, <1>4, <1>5, <1>7, <1>8, StepBase, SettingsKept DEF PCs

\* getVRFs gives a list of VRFs, each of them once.
Distinct(s) == \A i, j \in DOMAIN s : s[i] = s[j] => i = j

\* The list of VRFs to ask has no VRF twice: default, then the others.
LEMMA TheList ==
  ASSUME Base, collector \in {"route", "rpki"}, NEW s \in Orders(Listed)
  PROVE  <<"default">> \o s \in Seq(AllVrfs) /\ Distinct(<<"default">> \o s)
<1>1. DOMAIN frr \subseteq AllVrfs
  BY TableFacts DEF Base, Types
<1>2. Listed \subseteq Vrfs
  BY <1>1 DEF Listed, AllVrfs
<1>3. IsFiniteSet(Listed)
  BY <1>2, VrfsAssumption, FS_Subset
<1>4. Cardinality(Listed) \in Nat
  BY <1>3, FS_CardinalityType
<1>5. s \in [1 .. Cardinality(Listed) -> Listed] /\ \A i, j \in DOMAIN s : s[i] = s[j] => i = j
  BY DEF Orders
<1>6. s \in Seq(Listed) /\ Len(s) = Cardinality(Listed) /\ DOMAIN s = 1 .. Len(s)
  BY <1>4, <1>5
<1>7. s \in Seq(AllVrfs) /\ "default" \in AllVrfs /\ "default" \notin Listed
  BY <1>2, <1>6 DEF AllVrfs, Listed
<1>8. PICK t : t = <<"default">> \o s
  OBVIOUS
<1>9. /\ t \in Seq(AllVrfs) /\ Len(t) = Len(s) + 1 /\ t[1] = "default"
      /\ \A i \in 1 .. Len(s) : t[i + 1] = s[i]
  BY <1>7, <1>8
<1>10. \A i \in DOMAIN t : i # 1 => t[i] = s[i - 1] /\ i - 1 \in DOMAIN s /\ s[i - 1] \in Listed
  BY <1>6, <1>9
<1>11. ASSUME NEW i \in DOMAIN t, NEW j \in DOMAIN t, t[i] = t[j] PROVE i = j
  <2>1. i \in Int /\ j \in Int
    BY <1>9
  <2>2. CASE i # 1 /\ j # 1
    <3>1. i - 1 = j - 1
      BY <1>5, <1>10, <1>11, <2>2
    <3>2. QED
      BY <2>1, <3>1
  <2>3. CASE i = 1 \/ j = 1
    BY <1>7, <1>9, <1>10, <1>11, <2>3
  <2>4. QED
    BY <2>2, <2>3
<1>12. QED
  BY <1>8, <1>9, <1>11 DEF Distinct

\* Listing the VRFs keeps Base,
LEMMA ListVrfsBase == Base /\ ListVrfs => Base'
<1> SUFFICES ASSUME Base, ListVrfs PROVE Base'
  OBVIOUS
<1>0. /\ pc = "list" /\ UNCHANGED <<settings, frrVars, answers>>
      /\ answers' = answers /\ at' = at /\ had' = had /\ left' = left
      /\ sent' = sent /\ again' = again
  BY DEF ListVrfs, frrVars, outVars
<1>1. /\ at \in 1 .. Wanted /\ toAsk \in Seq(AllVrfs) /\ again \in BOOLEAN
      /\ left \in Tables /\ Observed(left) /\ collector \in {"route", "rpki"}
  BY <1>0 DEF Base, Types, Progress, Observations
<1>2. collector = "route" => Len(answers) = Wanted
  BY <1>0 DEF Base, Progress
<1>3. toAsk' \in Seq(AllVrfs) /\ pc' \in {"one", "err"}
  BY <1>1, TheList DEF ListVrfs
<1>4. Progress'
  BY <1>0, <1>1, <1>2, <1>3, SettingsKept DEF Progress
<1>5. Silent'
  BY <1>0, <1>1, <1>2, <1>3, SettingsKept DEF Silent, FailureSendsNothing
<1>6. Observed(left)'
  BY <1>0, <1>1 DEF Observed
<1>7. QED
  BY <1>0, <1>1, <1>3, <1>4, <1>5, <1>6, StepBase, SettingsKept DEF PCs

\* and so does asking one of them.
LEMMA AskOneBase == Base /\ AskOne => Base'
<1> SUFFICES ASSUME Base, AskOne PROVE Base'
  OBVIOUS
<1>0. /\ pc = "one" /\ UNCHANGED <<settings, frrVars, answers>>
      /\ answers' = answers /\ at' = at /\ had' = had /\ left' = left
  BY DEF AskOne, frrVars
<1>1. /\ at \in 1 .. Wanted /\ toAsk \in Seq(AllVrfs) /\ again \in BOOLEAN
      /\ left \in Tables /\ Observed(left) /\ collector \in {"route", "rpki"}
  BY <1>0 DEF Base, Types, Progress, Observations
<1>2. collector = "route" => Len(answers) = Wanted
  BY <1>0 DEF Base, Progress
<1>3. toAsk' \in Seq(AllVrfs) /\ pc' \in {"one", "err"}
  BY <1>0, <1>1 DEF AskOne, NextVrf, GoneIsError
<1>4. again' \in BOOLEAN
  <2>1. CASE again' = again
    BY <1>1, <2>1
  <2>2. CASE Answer(Head(toAsk))
    BY <1>1, <2>2, AgainBoolean DEF Answer
  <2>3. QED
    BY <2>1, <2>2 DEF AskOne, Empty, outVars
<1>5. Progress'
  BY <1>0, <1>1, <1>2, <1>3, SettingsKept DEF Progress
<1>6. Silent'
  BY <1>0, <1>1, <1>2, <1>3, SettingsKept DEF Silent, FailureSendsNothing
<1>7. Observed(left)'
  BY <1>0, <1>1 DEF Observed
<1>8. QED
  BY <1>0, <1>1, <1>3, <1>4, <1>5, <1>6, <1>7, StepBase, SettingsKept DEF PCs

\* A step that changes nothing keeps Base.
LEMMA StutterBase == Base /\ UNCHANGED vars => Base'
BY DEF vars, settings, frrVars, outVars, Base, Types, Observations, Observed, Progress, Silent,
       FailureSendsNothing, Wanted, SeenVrfs, ByVrf, Tables, Answers, Forms

\* Hence every step does.
LEMMA StepsKeepBase == Base /\ [Next]_vars => Base'
<1> SUFFICES ASSUME Base, [Next]_vars PROVE Base'
  OBVIOUS
<1>1. CASE Change \/ AskAll \/ Process \/ ListVrfs \/ AskOne
  BY <1>1, ChangeBase, AskAllBase, ProcessBase, ListVrfsBase, AskOneBase
<1>2. ASSUME NEW v \in AllVrfs, Emit(v) PROVE Base'
  BY <1>2, EmitBase
<1>3. CASE EndAnswer \/ EndList
  BY <1>3, ProceedBase DEF EndAnswer, EndList
<1>4. CASE Returned \/ UNCHANGED vars
  BY <1>4, StutterBase DEF Returned
<1>5. QED
  BY <1>1, <1>2, <1>3, <1>4 DEF Next, Update

\* TypeOK: FRR, the answers and what is left of them stay tables of VRFs, and
\* no collector sends more commands over all VRFs, or processes more answers,
\* than it has to.
THEOREM TypeCorrect == Spec => []TypeOK
<1>1. Base => TypeOK
  <2> SUFFICES ASSUME Base PROVE TypeOK
    OBVIOUS
  <2>1. Len(answers) \in Nat /\ Len(answers) <= Wanted /\ Wanted \in {1, 2}
    BY DEF Base, Types, Wanted
  <2>2. Len(answers) \in 0 .. Wanted
    BY <2>1
  <2>3. /\ DOMAIN frr \subseteq AllVrfs /\ frr \in [DOMAIN frr -> Contents[collector]]
        /\ DOMAIN left \subseteq AllVrfs /\ left \in [DOMAIN left -> Contents[collector]]
    BY TableFacts DEF Base, Types
  <2>4. QED
    BY <2>2, <2>3 DEF Base, Types, TypeOK
<1>2. QED
  BY <1>1, BaseInit, StepsKeepBase, PTL DEF Spec

-----------------------------------------------------------------------------
(* The invariant for the truth of what is sent about a VRF.                *)

\* Only route has two address families; the others do all in one.
Turn(i) == IF collector = "route" THEN i ELSE 1

\* The turn of VRF v and family i is still to come.
Pending(v, i) ==
  \/ i > at
  \/ i = at /\ \/ pc \in {"all", "process", "list"}
               \/ pc = "emit" /\ v \in DOMAIN left
               \/ pc = "one" /\ \E k \in DOMAIN toAsk : toAsk[k] = v

About(v, i) == {m \in sent : IsOf(m, v, Afis[i])}

\* Of a VRF whose turn is to come nothing was sent yet: all that is sent of it
\* comes out of one answer.
Untouched == \A v \in AllVrfs, i \in 1 .. 2 : Pending(v, Turn(i)) => About(v, i) = {}
Snapshot  == \A v \in AllVrfs, i \in 1 .. 2 :
               ~Misread(i) /\ About(v, i) # {} =>
                 \E c \in had[v] : \A m \in About(v, i) : TrueOf(m, Afis[i], c)
NotAgain  == IfaceCaseMatters /\ DistinctSessions => again = FALSE
EachOnce  == pc = "one" => Distinct(toAsk)
Snap == Untouched /\ Snapshot /\ NotAgain /\ EachOnce

\* Whatever the collector sends of a VRF is true of it and carries it.
LEMMA MetricsFit ==
  ASSUME CaseMatters, collector \in Names, NEW v \in SeenVrfs, NEW c \in Contents[collector],
         NEW afi, NEW a, collector = "route" => a = afi, NEW m \in MetricsOf(afi, v, c)
  PROVE  Fits(m, v, a, c)
<1>0. v \in AllVrfs
  BY TableFacts
<1>1. CASE collector = "route"
  BY <1>0, <1>1, RouteFits DEF MetricsOf
<1>2. CASE collector = "rpki"
  BY <1>0, <1>2, RpkiFits DEF MetricsOf
<1>3. CASE collector = "pim"
  BY <1>0, <1>3, PimFits DEF MetricsOf
<1>4. CASE collector = "bfd"
  BY <1>0, <1>4, BfdFits DEF MetricsOf
<1>5. CASE collector = "vrrp"
  <2>1. v = "default"
    BY <1>5 DEF SeenVrfs, ByVrf
  <2>2. QED
    BY <1>5, <2>1, VrrpFits DEF MetricsOf
<1>6. CASE collector = "status"
  <2>1. v = "default"
    BY <1>6 DEF SeenVrfs, ByVrf
  <2>2. m = StatusMetric(c, 1)
    BY <1>6 DEF MetricsOf
  <2>3. QED
    BY <1>6, <2>1, <2>2, StatusFits
<1>7. QED
  BY <1>1, <1>2, <1>3, <1>4, <1>5, <1>6 DEF Names

\* The address family that a metric belongs to is the first or the second.
LEMMA TurnFacts ==
  ASSUME Base
  PROVE  /\ at \in 1 .. 2
         /\ \A i \in 1 .. 2 : Turn(i) \in 1 .. 2 /\ (Turn(i) = at /\ collector = "route" => i = at)
         /\ Turn(at) = at
         /\ Afis[1] # Afis[2]
         /\ collector # "route" => at = 1
<1>1. at \in 1 .. Wanted
  BY DEF Base, Types
<1>2. QED
  BY <1>1 DEF Wanted, Turn, Afis

\* Only route misreads an answer, and the answers stay what they are.
LEMMA MisreadFacts ==
  ASSUME Base, NEW i, Misread(i)
  PROVE  collector = "route"
BY AnswerFacts DEF Misread

Keeps == answers' = answers \/ \E a : answers' = Append(answers, a)

LEMMA MisreadStays ==
  ASSUME Base, Keeps
  PROVE  \A i : Misread(i) => Misread(i)'
<1>1. answers \in Seq(Answers)
  BY DEF Base, Types
<1>2. ASSUME NEW a, answers' = Append(answers, a)
      PROVE  \A i \in DOMAIN answers : i \in DOMAIN answers' /\ answers'[i] = answers[i]
  BY <1>1, <1>2
<1>3. QED
  BY <1>2 DEF Keeps, Misread

\* Steps that send nothing about a VRF.
LEMMA QuietSnap ==
  ASSUME Base, Snap, collector' = collector, again' = again, Keeps,
         \A v \in AllVrfs : had[v] \subseteq had'[v],
         \A v \in AllVrfs, i \in 1 .. 2 : About(v, i)' = About(v, i),
         \A v \in AllVrfs, i \in 1 .. 2 : Pending(v, Turn(i))' => Pending(v, Turn(i)),
         EachOnce'
  PROVE  Snap'
<1>1. Untouched'
  BY DEF Snap, Untouched, Turn
<1>2. Snapshot'
  <2> SUFFICES ASSUME NEW v \in AllVrfs, NEW i \in 1 .. 2, ~Misread(i)', About(v, i)' # {}
               PROVE  \E c \in had'[v] : \A m \in About(v, i)' : TrueOf(m, Afis[i], c)
    BY DEF Snapshot
  <2>1. PICK c \in had[v] : \A m \in About(v, i) : TrueOf(m, Afis[i], c)
    BY MisreadStays DEF Snap, Snapshot
  <2>2. QED
    BY <2>1
<1>3. NotAgain'
  BY DEF Snap, NotAgain
<1>4. QED
  BY <1>1, <1>2, <1>3 DEF Snap

\* Steps that send something about v, whose turn ends with them.
LEMMA SendSnap ==
  ASSUME Base, Snap, collector' = collector, had' = had, answers' = answers,
         NEW v \in AllVrfs, NEW c \in had[v], Pending(v, at),
         NEW new, NEW rep \in BOOLEAN, Send(new, rep), rep => SameLabels(c),
         \A m \in new : \A a : (collector = "route" => a = Afis[at]) =>
           Mine(m, v, a) /\ (~Misread(at) => TrueOf(m, a, c)),
         \A w \in AllVrfs, i \in 1 .. 2 :
           Pending(w, Turn(i))' => Pending(w, Turn(i)) /\ ~(w = v /\ Turn(i) = at),
         EachOnce'
  PROVE  Snap'
<1>1. About(v, at) = {}
  BY TurnFacts DEF Snap, Untouched
<1>2. \A m \in new : Mine(m, v, Afis[at])
  OBVIOUS
<1>3. ASSUME NEW w \in AllVrfs, NEW i \in 1 .. 2, NEW m \in new, IsOf(m, w, Afis[i])
      PROVE  w = v /\ Turn(i) = at
  <2>1. w = v /\ (collector = "route" => Afis[i] = Afis[at])
    BY <1>2, <1>3 DEF Mine
  <2>2. QED
    BY <2>1, TurnFacts DEF Turn
<1>4. \A w \in AllVrfs, i \in 1 .. 2 :
        About(w, i)' = About(w, i) \cup {m \in new : IsOf(m, w, Afis[i])}
  BY DEF About, Send
<1>5. Untouched'
  <2> SUFFICES ASSUME NEW w \in AllVrfs, NEW i \in 1 .. 2, Pending(w, Turn(i))'
               PROVE  About(w, i)' = {}
    BY DEF Untouched
  <2>1. Pending(w, Turn(i)) /\ ~(w = v /\ Turn(i) = at)
    OBVIOUS
  <2>2. About(w, i) = {}
    BY <2>1 DEF Snap, Untouched
  <2>3. QED
    BY <1>3, <1>4, <2>1, <2>2
<1>6. Snapshot'
  <2> SUFFICES ASSUME NEW w \in AllVrfs, NEW i \in 1 .. 2, ~Misread(i), About(w, i)' # {}
               PROVE  \E d \in had[w] : \A m \in About(w, i)' : TrueOf(m, Afis[i], d)
    BY DEF Snapshot, Misread
  <2>1. CASE {m \in new : IsOf(m, w, Afis[i])} = {}
    BY <1>4, <2>1 DEF Snap, Snapshot
  <2>2. CASE {m \in new : IsOf(m, w, Afis[i])} # {}
    <3>1. w = v /\ Turn(i) = at
      BY <1>3, <2>2
    <3>2. About(w, i) = {}
      BY <3>1 DEF Snap, Untouched
    <3>3. (collector = "route" => Afis[i] = Afis[at]) /\ ~Misread(at)
      BY <3>1, MisreadFacts DEF Turn
    <3>4. \A m \in About(w, i)' : TrueOf(m, Afis[i], c)
      BY <1>4, <3>2, <3>3
    <3>5. QED
      BY <3>1, <3>4
  <2>3. QED
    BY <2>1, <2>2
<1>7. NotAgain'
  <2>1. ASSUME NEW m \in new, NEW n \in sent, Series(m) = Series(n) PROVE FALSE
    <3>1. IsOf(m, v, Afis[at])
      BY <1>2 DEF Mine
    <3>2. m.family = n.family /\ m.label = n.label
      BY <2>1 DEF Series
    <3>3. IsOf(n, v, Afis[at])
      BY <3>1, <3>2 DEF IsOf
    <3>4. QED
      BY <1>1, <3>3 DEF About
  <2>2. IfaceCaseMatters /\ DistinctSessions => ~rep
    <3>1. c \in Contents[collector] /\ collector \in Names
      BY DEF Base, Types
    <3>2. QED
      BY <3>1, LabelsDiffer
  <2>3. QED
    BY <2>1, <2>2 DEF Send, Snap, NotAgain
<1>8. QED
  BY <1>5, <1>6, <1>7 DEF Snap

\* Snap holds at the start.
LEMMA SnapInit == Init => Snap
<1> SUFFICES ASSUME Init PROVE Snap
  OBVIOUS
<1>1. sent = {} /\ again = FALSE /\ pc \in {"list", "all"}
  BY DEF Init
<1>2. \A v, i : About(v, i) = {}
  BY <1>1 DEF About
<1>3. QED
  BY <1>1, <1>2 DEF Snap, Untouched, Snapshot, NotAgain, EachOnce

\* What collectors report of a VRF does not depend on the variables of FRR.
LEMMA AboutKept ==
  ASSUME sent' = sent
  PROVE  \A v, i : About(v, i)' = About(v, i)
BY DEF About

\* A change of FRR keeps it: it only adds to what was observed.
LEMMA ChangeSnap == Base /\ Snap /\ Change => Snap'
<1> SUFFICES ASSUME Base, Snap, Change PROVE Snap'
  OBVIOUS
<1>1. /\ collector' = collector /\ again' = again /\ sent' = sent /\ pc' = pc /\ at' = at
      /\ left' = left /\ toAsk' = toAsk /\ Keeps
  BY DEF Change, settings, outVars, Keeps
<1>2. had \in [AllVrfs -> SUBSET Contents[collector]]
  BY DEF Base, Types
<1>3. \A v \in AllVrfs : had[v] \subseteq had'[v]
  <2>1. CASE had' = had
    BY <2>1
  <2>2. ASSUME NEW u, NEW c, had' = [had EXCEPT ![u] = @ \cup {c}]
        PROVE  \A v \in AllVrfs : had[v] \subseteq had'[v]
    BY <1>2, <2>2
  <2>3. QED
    BY <2>1, <2>2 DEF Change
<1>4. \A v \in AllVrfs, i \in 1 .. 2 : Pending(v, Turn(i))' => Pending(v, Turn(i))
  BY <1>1 DEF Pending, Turn
<1>5. EachOnce'
  BY <1>1 DEF Snap, EachOnce, Distinct
<1>6. QED
  BY <1>1, <1>3, <1>4, <1>5, AboutKept, QuietSnap

\* The steps of Update that send nothing.
LEMMA SilentSnap ==
  ASSUME Base, Snap, UNCHANGED <<settings, frrVars, outVars>>, Keeps,
         \A v \in AllVrfs, i \in 1 .. 2 : Pending(v, Turn(i))' => Pending(v, Turn(i)),
         EachOnce'
  PROVE  Snap'
<1>1. collector' = collector /\ again' = again /\ sent' = sent /\ had' = had
  BY DEF settings, frrVars, outVars
<1>2. QED
  BY <1>1, AboutKept, QuietSnap

\* So does a failing command,
LEMMA FailSnap ==
  ASSUME Base, Snap, Fail, UNCHANGED <<settings, frrVars, answers, at, left, toAsk>>,
         pc \in {"all", "process"}
  PROVE  Snap'
<1>0. /\ at' = at /\ left' = left /\ toAsk' = toAsk /\ collector' = collector /\ had' = had
      /\ answers' = answers /\ Keeps
  BY DEF settings, frrVars, Keeps
<1>1. CASE collector # "status" /\ pc' = "err" /\ UNCHANGED outVars
  <2>1. \A v \in AllVrfs, i \in 1 .. 2 : Pending(v, Turn(i))' => Pending(v, Turn(i))
    BY <1>0, <1>1 DEF Pending, Turn
  <2>2. EachOnce'
    BY <1>1 DEF EachOnce
  <2>3. QED
    BY <1>0, <1>1, <2>1, <2>2, SilentSnap
<1>2. CASE collector = "status" /\ pc' = "ok" /\ Send(Down, FALSE)
  <2>1. "default" \in AllVrfs /\ frr["default"] \in had["default"]
    BY DEF AllVrfs, Base, Types, Observations, Observed
  <2>2. Pending("default", at)
    BY DEF Pending
  <2>3. \A m \in Down : \A a : Mine(m, "default", a) /\ TrueOf(m, a, frr["default"])
    <3>1. 0 # 1
      OBVIOUS
    <3>2. QED
      BY <1>2, <3>1, StatusFits DEF Down, Fits
  <2>4. ASSUME NEW w \in AllVrfs, NEW i \in 1 .. 2 PROVE ~Pending(w, Turn(i))'
    <3>1. at = 1 /\ Turn(i)' = 1
      BY <1>0, <1>2, TurnFacts DEF Turn
    <3>2. QED
      BY <1>0, <1>2, <3>1 DEF Pending
  <2>5. EachOnce'
    BY <1>2 DEF EachOnce
  <2>6. QED
    BY <1>0, <1>2, <2>1, <2>2, <2>3, <2>4, <2>5, SendSnap
<1>3. QED
  BY <1>1, <1>2, FailCases

\* a command about all VRFs,
LEMMA AskAllSnap == Base /\ Snap /\ AskAll => Snap'
<1> SUFFICES ASSUME Base, Snap, AskAll PROVE Snap'
  OBVIOUS
<1>0. pc = "all" /\ UNCHANGED <<settings, frrVars, at, left, toAsk>>
  BY DEF AskAll
<1>1. CASE Fail /\ UNCHANGED answers
  BY <1>0, <1>1, FailSnap
<1>2. CASE pc' \in {"process", "all"} /\ UNCHANGED outVars /\ Keeps
  <2>1. \A v \in AllVrfs, i \in 1 .. 2 : Pending(v, Turn(i))' => Pending(v, Turn(i))
    BY <1>0, <1>2 DEF Pending, Turn, settings
  <2>2. EachOnce'
    BY <1>2 DEF EachOnce
  <2>3. QED
    BY <1>0, <1>2, <2>1, <2>2, SilentSnap
<1>3. QED
  BY <1>1, <1>2 DEF AskAll, Keeps

\* The count of all BFD peers is about no VRF, and the first metric sent.
LEMMA CountSnap ==
  ASSUME Base, Snap, pc = "process", pc' = "emit", NEW t, Send(FirstMetrics(t), FALSE),
         UNCHANGED <<settings, frrVars, answers, at>>
  PROVE  Snap'
<1>0. collector' = collector /\ had' = had /\ at' = at /\ Keeps
  BY DEF settings, frrVars, Keeps
<1>1. \A m \in FirstMetrics(t) : m.family = "bfdPeerCount"
  BY DEF FirstMetrics, Metric
<1>2. \A v \in AllVrfs, i \in 1 .. 2 : About(v, i)' = About(v, i)
  BY <1>1 DEF About, Send, IsOf
<1>3. again' = again
  <2>1. sent = {} \/ FirstMetrics(t) = {}
    BY DEF Base, Silent, FirstMetrics
  <2>2. again \in BOOLEAN
    BY DEF Base, Types
  <2>3. QED
    BY <2>1, <2>2 DEF Send
<1>4. \A v \in AllVrfs, i \in 1 .. 2 : Pending(v, Turn(i))' => Pending(v, Turn(i))
  BY <1>0 DEF Pending, Turn
<1>5. EachOnce'
  BY DEF EachOnce
<1>6. QED
  BY <1>0, <1>2, <1>3, <1>4, <1>5, QuietSnap

\* What is made of a mistyped answer is about "default", whose turn it was.
LEMMA MisreadSnap ==
  ASSUME Base, Snap, pc = "process", pc' = "emit", left' = Nothing, answers[at].form = "mistyped",
         Send(RouteMetrics(Afis[at], "default", NoRoutes), FALSE),
         UNCHANGED <<settings, frrVars, answers, at>>
  PROVE  Snap'
<1>0. collector' = collector /\ had' = had /\ at' = at /\ answers' = answers
  BY DEF settings, frrVars
<1>1. at \in DOMAIN answers
  BY DEF Base, Types, Progress, Wanted
<1>2. Misread(at) /\ collector = "route"
  BY <1>1, AnswerFacts DEF Misread
<1>3. "default" \in AllVrfs /\ frr["default"] \in had["default"]
  BY DEF AllVrfs, Base, Types, Observations, Observed
<1>4. Pending("default", at)
  BY DEF Pending
<1>5. \A m \in RouteMetrics(Afis[at], "default", NoRoutes) : Mine(m, "default", Afis[at])
  <2>1. PICK c : c = [a \in {Afis[at]} |-> NoRoutes]
    OBVIOUS
  <2>2. c[Afis[at]] = NoRoutes
    BY <2>1
  <2>3. \A m \in RouteMetrics(Afis[at], "default", c[Afis[at]]) : Fits(m, "default", Afis[at], c)
    BY <1>2, <1>3, RouteFits
  <2>4. QED
    BY <2>2, <2>3 DEF Fits
<1>6. \A w \in AllVrfs, i \in 1 .. 2 :
        Pending(w, Turn(i))' => Pending(w, Turn(i)) /\ ~(w = "default" /\ Turn(i) = at)
  <2> SUFFICES ASSUME NEW w \in AllVrfs, NEW i \in 1 .. 2, Pending(w, Turn(i))'
               PROVE  Pending(w, Turn(i)) /\ Turn(i) # at
    OBVIOUS
  <2>1. Turn(i)' = Turn(i) /\ at \in Int /\ Turn(i) \in Int /\ DOMAIN left' = {}
    BY <1>0, TurnFacts DEF Turn, Nothing
  <2>2. Turn(i) > at
    BY <1>0, <2>1 DEF Pending
  <2>3. QED
    BY <2>1, <2>2 DEF Pending
<1>7. EachOnce'
  BY DEF EachOnce
<1>8. \A m \in RouteMetrics(Afis[at], "default", NoRoutes) : \A a :
        (collector = "route" => a = Afis[at]) =>
          Mine(m, "default", a) /\ (~Misread(at) => TrueOf(m, a, frr["default"]))
  BY <1>2, <1>5
<1>9. QED
  BY <1>0, <1>3, <1>4, <1>6, <1>7, <1>8, SendSnap

\* the start of processing an answer,
LEMMA ProcessSnap == Base /\ Snap /\ Process => Snap'
<1> SUFFICES ASSUME Base, Snap, Process PROVE Snap'
  OBVIOUS
<1>0. pc = "process" /\ UNCHANGED <<settings, frrVars, answers, at, toAsk>> /\ Keeps
  BY DEF Process, Keeps
<1>1. CASE pc' = "emit" /\ Send(FirstMetrics(answers[at].table), FALSE)
  BY <1>0, <1>1, CountSnap
<1>2. CASE pc' = "list" /\ UNCHANGED outVars
  <2>1. \A v \in AllVrfs, i \in 1 .. 2 : Pending(v, Turn(i))' => Pending(v, Turn(i))
    BY <1>0, <1>2 DEF Pending, Turn, settings
  <2>2. EachOnce'
    BY <1>2 DEF EachOnce
  <2>3. QED
    BY <1>0, <1>2, <2>1, <2>2, SilentSnap
<1>3. CASE Fail /\ UNCHANGED left
  BY <1>0, <1>3, FailSnap
<1>4. CASE /\ answers[at].form = "mistyped" /\ pc' = "emit" /\ left' = Nothing
           /\ Send(RouteMetrics(Afis[at], "default", NoRoutes), FALSE)
  BY <1>0, <1>4, MisreadSnap
<1>5. QED
  BY <1>1, <1>2, <1>3, <1>4 DEF Process

\* the metrics of a VRF of the answer,
LEMMA EmitSnap == \A v \in AllVrfs : CaseMatters /\ Base /\ Snap /\ Emit(v) => Snap'
<1> SUFFICES ASSUME NEW v \in AllVrfs, CaseMatters, Base, Snap, Emit(v) PROVE Snap'
  OBVIOUS
<1>0. /\ pc = "emit" /\ v \in DOMAIN left
      /\ collector' = collector /\ had' = had /\ at' = at /\ toAsk' = toAsk /\ answers' = answers
  BY DEF Emit, settings, frrVars
<1>1. /\ collector \in Names /\ v \in SeenVrfs /\ left[v] \in Contents[collector]
      /\ left[v] \in had[v]
  BY <1>0, TableFacts DEF Base, Types, Observations, Observed
<1>2. Pending(v, at)
  BY <1>0 DEF Pending
<1>3. \A m \in MetricsOf(Afis[at], v, left[v]) : \A a :
        (collector = "route" => a = Afis[at]) => Mine(m, v, a) /\ TrueOf(m, a, left[v])
  BY <1>1, MetricsFit DEF Fits
<1>4. CASE /\ Send(MetricsOf(Afis[at], v, left[v]), SameLabels(left[v]))
           /\ left' = [w \in DOMAIN left \ {v} |-> left[w]]
           /\ UNCHANGED pc
  <2>1. \A w \in AllVrfs, i \in 1 .. 2 :
          Pending(w, Turn(i))' => Pending(w, Turn(i)) /\ ~(w = v /\ Turn(i) = at)
    <3> SUFFICES ASSUME NEW w \in AllVrfs, NEW i \in 1 .. 2, Pending(w, Turn(i))'
                 PROVE  Pending(w, Turn(i)) /\ ~(w = v /\ Turn(i) = at)
      OBVIOUS
    <3>1. Turn(i)' = Turn(i) /\ pc' = "emit" /\ DOMAIN left' = DOMAIN left \ {v} /\ at \in Int
          /\ Turn(i) \in Int
      BY <1>0, <1>4, TurnFacts DEF Turn
    <3>2. Turn(i) > at \/ (Turn(i) = at /\ w \in DOMAIN left \ {v})
      BY <1>0, <3>1 DEF Pending
    <3>3. QED
      BY <1>0, <3>1, <3>2 DEF Pending
  <2>2. EachOnce'
    BY <1>0, <1>4 DEF EachOnce
  <2>3. SameLabels(left[v]) \in BOOLEAN
    BY DEF SameLabels
  <2>4. QED
    BY <1>0, <1>1, <1>2, <1>3, <1>4, <2>1, <2>2, <2>3, SendSnap
<1>5. ASSUME collector = "pim", pc' = "err", NEW some \in SUBSET UpTimes(v, left[v]),
             NEW rep \in BOOLEAN, rep => SameLabels(left[v]), Send(some, rep)
      PROVE  Snap'
  <2>1. \A m \in some : m \in MetricsOf(Afis[at], v, left[v])
    BY <1>5 DEF MetricsOf, PimMetrics
  <2>2. \A m \in some : \A a :
          (collector = "route" => a = Afis[at]) => Mine(m, v, a) /\ TrueOf(m, a, left[v])
    BY <1>3, <2>1
  <2>3. \A w \in AllVrfs, i \in 1 .. 2 :
          Pending(w, Turn(i))' => Pending(w, Turn(i)) /\ ~(w = v /\ Turn(i) = at)
    <3>1. \A i \in 1 .. 2 : at = 1 /\ Turn(i)' = 1
      BY <1>0, <1>5, TurnFacts DEF Turn
    <3>2. QED
      BY <1>0, <1>5, <3>1 DEF Pending
  <2>4. EachOnce'
    BY <1>5 DEF EachOnce
  <2>5. QED
    BY <1>0, <1>1, <1>2, <1>5, <2>2, <2>3, <2>4, SendSnap
<1>6. QED
  BY <1>4, <1>5, EmitCases

\* the next family,
LEMMA ProceedSnap ==
  ASSUME Base, Snap, Proceed, UNCHANGED <<settings, frrVars, answers, left, toAsk, outVars>>
  PROVE  Snap'
<1>1. /\ \/ at' = at + 1 /\ pc' = "process"
         \/ at' = at /\ pc' = "ok"
      /\ collector' = collector /\ Keeps
  BY DEF Proceed, settings, Keeps
<1>2. \A v \in AllVrfs, i \in 1 .. 2 : Pending(v, Turn(i))' => Pending(v, Turn(i))
  <2> SUFFICES ASSUME NEW v \in AllVrfs, NEW i \in 1 .. 2, Pending(v, Turn(i))'
               PROVE  Turn(i) > at
    BY DEF Pending
  <2>1. Turn(i)' = Turn(i) /\ Turn(i) \in Int /\ at \in Int
    BY <1>1, TurnFacts DEF Turn
  <2>2. QED
    BY <1>1, <2>1 DEF Pending
<1>3. EachOnce'
  BY <1>1 DEF EachOnce
<1>4. QED
  BY <1>1, <1>2, <1>3, SilentSnap

\* the list of VRFs
LEMMA ListVrfsSnap == Base /\ Snap /\ ListVrfs => Snap'
<1> SUFFICES ASSUME Base, Snap, ListVrfs PROVE Snap'
  OBVIOUS
<1>0. /\ pc = "list" /\ pc' \in {"one", "err"} /\ at' = at /\ collector' = collector
      /\ UNCHANGED <<settings, frrVars, outVars>> /\ Keeps
  BY DEF ListVrfs, settings, Keeps
<1>1. \A v \in AllVrfs, i \in 1 .. 2 : Pending(v, Turn(i))' => Pending(v, Turn(i))
  BY <1>0 DEF Pending, Turn
<1>2. EachOnce'
  <2>1. collector \in {"route", "rpki"}
    BY <1>0 DEF Base, Progress
  <2>2. pc' = "one" => \E s \in Orders(Listed) : toAsk' = <<"default">> \o s
    BY DEF ListVrfs
  <2>3. QED
    BY <2>1, <2>2, TheList DEF EachOnce, Distinct
<1>3. QED
  BY <1>0, <1>1, <1>2, SilentSnap

\* and the metrics of a VRF that was asked.
LEMMA AskOneSnap == CaseMatters /\ Base /\ Snap /\ AskOne => Snap'
<1> SUFFICES ASSUME CaseMatters, Base, Snap, AskOne PROVE Snap'
  OBVIOUS
<1>0. /\ pc = "one" /\ toAsk # <<>> /\ at' = at /\ collector' = collector /\ had' = had
      /\ UNCHANGED <<settings, frrVars, left>> /\ left' = left /\ answers' = answers /\ Keeps
  BY DEF AskOne, settings, frrVars, Keeps
<1> DEFINE v == Head(toAsk)
<1>1. /\ toAsk \in Seq(AllVrfs) /\ collector \in Names /\ frr \in Tables /\ Observed(frr)
      /\ collector \in {"route", "rpki"} /\ Distinct(toAsk)
  BY <1>0 DEF Base, Types, Observations, Progress, Snap, EachOnce
<1>2. /\ v \in AllVrfs /\ 1 \in DOMAIN toAsk /\ toAsk[1] = v
      /\ \A k \in DOMAIN Tail(toAsk) : k + 1 \in DOMAIN toAsk /\ Tail(toAsk)[k] = toAsk[k + 1]
                                        /\ k \in Nat \ {0}
  BY <1>0, <1>1
<1>3. \A k \in DOMAIN Tail(toAsk) : Tail(toAsk)[k] # v
  <2> SUFFICES ASSUME NEW k \in DOMAIN Tail(toAsk), Tail(toAsk)[k] = v PROVE FALSE
    OBVIOUS
  <2>1. toAsk[k + 1] = toAsk[1] /\ k + 1 \in DOMAIN toAsk
    BY <1>2
  <2>2. k + 1 = 1
    BY <1>1, <1>2, <2>1 DEF Distinct
  <2>3. QED
    BY <1>2, <2>2
<1>4. Distinct(Tail(toAsk))
  <2> SUFFICES ASSUME NEW j \in DOMAIN Tail(toAsk), NEW k \in DOMAIN Tail(toAsk),
                      Tail(toAsk)[j] = Tail(toAsk)[k]
               PROVE  j = k
    BY DEF Distinct
  <2>1. j + 1 = k + 1
    BY <1>1, <1>2 DEF Distinct
  <2>2. QED
    BY <1>2, <2>1
<1>5. CASE GoneIsError /\ UNCHANGED outVars
  <2>1. \A w \in AllVrfs, i \in 1 .. 2 : Pending(w, Turn(i))' => Pending(w, Turn(i))
    BY <1>0, <1>5 DEF Pending, Turn, GoneIsError
  <2>2. EachOnce'
    BY <1>5 DEF EachOnce, GoneIsError
  <2>3. QED
    BY <1>0, <1>5, <2>1, <2>2, SilentSnap
<1>6. ASSUME pc' = pc, NextVrf
      PROVE  /\ \A w \in AllVrfs, i \in 1 .. 2 :
                  Pending(w, Turn(i))' => Pending(w, Turn(i)) /\ ~(w = v /\ Turn(i) = at)
             /\ EachOnce'
  <2>1. ASSUME NEW w \in AllVrfs, NEW i \in 1 .. 2, Pending(w, Turn(i))'
        PROVE  Pending(w, Turn(i)) /\ ~(w = v /\ Turn(i) = at)
    <3>1. Turn(i)' = Turn(i) /\ at \in Int /\ Turn(i) \in Int /\ pc' = "one" /\ toAsk' = Tail(toAsk)
      BY <1>0, <1>6, TurnFacts DEF Turn, NextVrf
    <3>2. \/ Turn(i) > at
          \/ Turn(i) = at /\ \E k \in DOMAIN Tail(toAsk) : Tail(toAsk)[k] = w
      BY <1>0, <2>1, <3>1 DEF Pending
    <3>3. CASE Turn(i) > at
      BY <3>1, <3>3 DEF Pending
    <3>4. ASSUME Turn(i) = at, NEW k \in DOMAIN Tail(toAsk), Tail(toAsk)[k] = w
          PROVE  Pending(w, Turn(i)) /\ w # v
      <4>1. k + 1 \in DOMAIN toAsk /\ toAsk[k + 1] = w
        BY <1>2, <3>4
      <4>2. QED
        BY <1>0, <1>3, <3>4, <4>1 DEF Pending
    <3>5. QED
      BY <3>2, <3>3, <3>4
  <2>2. EachOnce'
    BY <1>4, <1>6 DEF EachOnce, NextVrf, Distinct
  <2>3. QED
    BY <2>1, <2>2
<1>7. CASE Empty(v) /\ pc' = pc /\ NextVrf
  BY <1>0, <1>6, <1>7, SilentSnap DEF Empty
<1>8. CASE Answer(v) /\ pc' = pc /\ NextVrf
  <2>1. v \in SeenVrfs /\ frr[v] \in Contents[collector] /\ frr[v] \in had[v]
    BY <1>1, <1>8, TableFacts DEF Answer, Observed
  <2>2. \A m \in MetricsOf(Afis[at], v, frr[v]) : \A a :
          (collector = "route" => a = Afis[at]) => Mine(m, v, a) /\ TrueOf(m, a, frr[v])
    BY <1>1, <2>1, MetricsFit DEF Fits
  <2>3. Pending(v, at)
    BY <1>0, <1>2 DEF Pending
  <2>4. Send(MetricsOf(Afis[at], v, frr[v]), SameLabels(frr[v])) /\ SameLabels(frr[v]) \in BOOLEAN
    BY <1>8 DEF Answer, SameLabels
  <2>5. QED
    BY <1>0, <1>2, <1>6, <1>8, <2>1, <2>2, <2>3, <2>4, SendSnap
<1>9. QED
  BY <1>5, <1>7, <1>8 DEF AskOne

\* A step that changes nothing keeps Snap.
LEMMA StutterSnap == Snap /\ UNCHANGED vars => Snap'
BY DEF vars, settings, frrVars, outVars, Snap, Untouched, Snapshot, NotAgain, EachOnce, Distinct,
       About, Pending, Turn, Misread

\* Hence every step does.
LEMMA StepsKeepSnap == CaseMatters /\ Base /\ Snap /\ [Next]_vars => Snap'
<1> SUFFICES ASSUME CaseMatters, Base, Snap, [Next]_vars PROVE Snap'
  OBVIOUS
<1>1. CASE Change \/ AskAll \/ Process \/ ListVrfs \/ AskOne
  BY <1>1, ChangeSnap, AskAllSnap, ProcessSnap, ListVrfsSnap, AskOneSnap
<1>2. ASSUME NEW v \in AllVrfs, Emit(v) PROVE Snap'
  BY <1>2, EmitSnap
<1>3. CASE EndAnswer \/ EndList
  BY <1>3, ProceedSnap DEF EndAnswer, EndList
<1>4. CASE Returned \/ UNCHANGED vars
  BY <1>4, StutterSnap DEF Returned
<1>5. QED
  BY <1>1, <1>2, <1>3, <1>4 DEF Next, Update

\* OneSnapshot: if no two VRFs differ in case only, all that an Update sends of
\* a VRF in one address family was true of it at one moment of the run, however
\* FRR changes between its commands, and whichever way it asks; a family whose
\* answer was mistyped is left out.
THEOREM OutOfOneSnapshot ==
  ASSUME CaseMatters
  PROVE  Spec => []OneSnapshot
<1>1. Snap => OneSnapshot
  BY DEF Snap, Snapshot, OneSnapshot, About, Afis, Misread
<1>2. CaseMatters
  OBVIOUS
<1>3. QED
  BY <1>1, <1>2, BaseInit, StepsKeepBase, SnapInit, StepsKeepSnap, PTL DEF Spec

\* UniqueSeries: if no interfaces of PIM do either, and no two BFD sessions of a
\* VRF differ in being multihop only, no series is sent a second time: the turn of
\* a VRF comes once, and a series says whose it is, and what of it.
THEOREM NoDuplicates ==
  ASSUME CaseMatters, IfaceCaseMatters, DistinctSessions
  PROVE  Spec => []UniqueSeries
<1>1. Snap => UniqueSeries
  BY DEF Snap, NotAgain, UniqueSeries
<1>2. CaseMatters
  OBVIOUS
<1>3. QED
  BY <1>1, <1>2, BaseInit, StepsKeepBase, SnapInit, StepsKeepSnap, PTL DEF Spec

-----------------------------------------------------------------------------
(* What an Update that returns nil has reported.                           *)

\* A VRF that was there all the time, as "default" was, is in every answer.
InAnswers ==
  "default" \in stayed /\ \A k \in DOMAIN answers : stayed \subseteq DOMAIN answers[k].table
\* Its turns that are over have reported something that it held.
AllReported ==
  pc # "err" =>
    \A v \in stayed, i \in 1 .. Wanted :
      ~Misread(i) /\ ~Pending(v, i) => \E c \in had[v] : Reported(v, Afis[i], c)
\* All turns have come when nil is returned, and status sends in its only one.
Finished  == pc = "ok" => at = Wanted
OneStatus == collector = "status" /\ Pending("default", 1) => sent = {}
Rep == InAnswers /\ AllReported /\ Finished /\ OneStatus

\* What was reported stays so.
LEMMA ReportedKept ==
  ASSUME collector \in Names, UNCHANGED settings, NEW v, NEW afi, NEW c, Reported(v, afi, c),
         sent \subseteq sent', collector = "status" => sent' = sent
  PROVE  Reported(v, afi, c)'
<1>1. \A f, b : Has(f, b) => Has(f, b)'
  BY DEF Has
<1>2. collector' = collector /\ detailed' = detailed
  BY DEF settings
<1>3. CASE collector \in {"route", "rpki"}
  BY <1>1, <1>2, <1>3 DEF Reported
<1>4. CASE collector \in {"pim", "bfd"}
  BY <1>1, <1>2, <1>4 DEF Reported
<1>5. CASE collector \in {"vrrp", "status"}
  BY <1>1, <1>2, <1>5 DEF Reported
<1>6. QED
  BY <1>3, <1>4, <1>5 DEF Names

\* The metrics that emitRouteSummaryMetrics sends report the VRF.
LEMMA RouteReported ==
  ASSUME collector = "route", UNCHANGED settings, NEW v, NEW afi, NEW c,
         RouteMetrics(afi, v, c[afi]) \subseteq sent'
  PROVE  Reported(v, afi, c)'
<1>1. collector' = "route" /\ detailed' = detailed
  BY DEF settings
<1>2. ASSUME NEW f \in {"total", "totalFib"} PROVE Has(f, [afi |-> afi, vrf |-> v])'
  <2>1. PICK x : Metric(f, << <<"afi", afi>>, <<"vrf", v>> >>, x) \in sent'
    BY DEF RouteMetrics
  <2>2. LabelNames[f] = <<"afi", "vrf">> /\ "afi" # "vrf"
    BY DEF LabelNames
  <2>3. PICK m \in sent' : /\ m.family = f /\ m.label["afi"] = <<"afi", afi>>
                           /\ m.label["vrf"] = <<"vrf", v>>
    BY <2>1, <2>2, Label2
  <2>4. m.label["afi"][2] = afi /\ m.label["vrf"][2] = v
    BY <2>3
  <2>5. QED
    BY <2>3, <2>4 DEF Has
<1>3. ASSUME detailed, NEW t \in DOMAIN c[afi].types
      PROVE  Has("ribCount", [afi |-> afi, vrf |-> v, route_type |-> t])'
  <2>1. PICK x : Metric("ribCount", RouteValues(afi, t, v), x) \in sent'
    BY <1>3 DEF RouteMetrics
  <2>2. /\ LabelNames["ribCount"] = <<"afi", "route_type", "vrf">>
        /\ "afi" # "route_type" /\ "afi" # "vrf" /\ "route_type" # "vrf"
    BY DEF LabelNames
  <2>3. PICK m \in sent' : /\ m.family = "ribCount" /\ m.label["afi"] = <<"afi", afi>>
                           /\ m.label["vrf"] = <<"vrf", v>>
                           /\ m.label["route_type"] = <<"route_type", t>>
    BY <2>1, <2>2, Label3 DEF RouteValues
  <2>4. /\ m.label["afi"][2] = afi /\ m.label["vrf"][2] = v
        /\ m.label["route_type"][2] = t
    BY <2>3
  <2>5. QED
    BY <2>3, <2>4 DEF Has
<1>4. QED
  BY <1>1, <1>2, <1>3 DEF Reported

\* Those that processRPKICacheConnection sends.
LEMMA RpkiReported ==
  ASSUME collector = "rpki", UNCHANGED settings, NEW v, NEW afi, NEW c,
         RpkiMetrics(v, c) \subseteq sent'
  PROVE  Reported(v, afi, c)'
<1>1. collector' = "rpki"
  BY DEF settings
<1>2. ASSUME NEW h \in DOMAIN c, NEW f \in {"cacheState", "cachePreference"}
      PROVE  Has(f, [vrf |-> v, host |-> h])'
  <2>1. PICK x : Metric(f, << <<"vrf", v>>, <<"host", h>> >>, x) \in sent'
    BY DEF RpkiMetrics
  <2>2. LabelNames[f] = <<"vrf", "host">> /\ "vrf" # "host"
    BY DEF LabelNames
  <2>3. PICK m \in sent' : /\ m.family = f /\ m.label["vrf"] = <<"vrf", v>>
                           /\ m.label["host"] = <<"host", h>>
    BY <2>1, <2>2, Label2
  <2>4. m.label["vrf"][2] = v /\ m.label["host"][2] = h
    BY <2>3
  <2>5. QED
    BY <2>3, <2>4 DEF Has
<1>3. QED
  BY <1>1, <1>2 DEF Reported

\* Those that processPIMNeighbors sends.
LEMMA PimReported ==
  ASSUME collector = "pim", UNCHANGED settings, NEW v, NEW afi, NEW c,
         PimMetrics(v, c) \subseteq sent'
  PROVE  Reported(v, afi, c)'
<1>1. collector' = "pim"
  BY DEF settings
<1>2. Has("neighborCount", [vrf |-> v])'
  <2>1. PICK x : Metric("neighborCount", << <<"vrf", v>> >>, x) \in sent'
    BY DEF PimMetrics
  <2>2. LabelNames["neighborCount"] = <<"vrf">>
    BY DEF LabelNames
  <2>3. PICK m \in sent' : m.family = "neighborCount" /\ m.label["vrf"] = <<"vrf", v>>
    BY <2>1, <2>2, Label1
  <2>4. m.label["vrf"][2] = v
    BY <2>3
  <2>5. QED
    BY <2>3, <2>4 DEF Has
<1>3. ASSUME NEW n \in DOMAIN c, c[n] # NoTime
      PROVE  Has("upTime", [vrf |-> Lower[v], iface |-> Lower[n[1]], neighbor |-> n[2]])'
  <2>1. PICK x : Metric("upTime", << <<"vrf", Lower[v]>>, <<"iface", Lower[n[1]]>>,
                                     <<"neighbor", n[2]>> >>, x) \in sent'
    BY <1>3 DEF PimMetrics, UpTimes, Parsed
  <2>2. /\ LabelNames["upTime"] = <<"vrf", "iface", "neighbor">>
        /\ "vrf" # "iface" /\ "vrf" # "neighbor" /\ "iface" # "neighbor"
    BY DEF LabelNames
  <2>3. PICK m \in sent' : /\ m.family = "upTime" /\ m.label["vrf"] = <<"vrf", Lower[v]>>
                           /\ m.label["iface"] = <<"iface", Lower[n[1]]>>
                           /\ m.label["neighbor"] = <<"neighbor", n[2]>>
    BY <2>1, <2>2, Label3
  <2>4. /\ m.label["vrf"][2] = Lower[v] /\ m.label["iface"][2] = Lower[n[1]]
        /\ m.label["neighbor"][2] = n[2]
    BY <2>3
  <2>5. QED
    BY <2>3, <2>4 DEF Has
<1>4. QED
  BY <1>1, <1>2, <1>3 DEF Reported

\* Those that processBFDPeers sends.
LEMMA BfdReported ==
  ASSUME collector = "bfd", UNCHANGED settings, NEW v, NEW afi, NEW c,
         BfdMetrics(v, c) \subseteq sent'
  PROVE  Reported(v, afi, c)'
<1>1. collector' = "bfd"
  BY DEF settings
<1>2. ASSUME NEW p \in DOMAIN c, NEW f \in {"bfdPeerState", "bfdPeerUptime"}
      PROVE  Has(f, [vrf |-> v, local |-> p[1], peer |-> p[2], iface |-> p[3]])'
  <2>1. PICK x : Metric(f, << <<"local", p[1]>>, <<"peer", p[2]>>, <<"iface", p[3]>>,
                              <<"vrf", v>> >>, x) \in sent'
    <3> DEFINE values == << <<"local", p[1]>>, <<"peer", p[2]>>, <<"iface", p[3]>>, <<"vrf", v>> >>
    <3> DEFINE pair == {Metric("bfdPeerUptime", values, c[p].uptime),
                        Metric("bfdPeerState", values, IF c[p].status = "up" THEN 1 ELSE 0)}
    <3>0. \A m \in pair : m \in BfdMetrics(v, c)
      BY Zenon DEF BfdMetrics
    <3>1. /\ Metric("bfdPeerUptime", values, c[p].uptime) \in sent'
          /\ Metric("bfdPeerState", values, IF c[p].status = "up" THEN 1 ELSE 0) \in sent'
      BY <3>0
    <3>2. QED
      BY <3>1
  <2>2. /\ LabelNames[f] = <<"local", "peer", "iface", "vrf">>
        /\ "local" # "peer" /\ "local" # "iface" /\ "local" # "vrf" /\ "peer" # "iface"
        /\ "peer" # "vrf" /\ "iface" # "vrf"
    BY DEF LabelNames
  <2>3. PICK m \in sent' :
          /\ m.family = f /\ m.label["local"] = <<"local", p[1]>>
          /\ m.label["peer"] = <<"peer", p[2]>> /\ m.label["iface"] = <<"iface", p[3]>>
          /\ m.label["vrf"] = <<"vrf", v>>
    BY <2>1, <2>2, Label4
  <2>4. /\ m.label["local"][2] = p[1] /\ m.label["peer"][2] = p[2]
        /\ m.label["iface"][2] = p[3] /\ m.label["vrf"][2] = v
    BY <2>3
  <2>5. QED
    BY <2>3, <2>4 DEF Has
<1>3. QED
  BY <1>1, <1>2 DEF Reported

\* Those that processInstance sends for v4 and v6.
LEMMA VrrpReported ==
  ASSUME collector = "vrrp", UNCHANGED settings, NEW v, NEW afi, NEW c,
         VrrpMetrics(c) \subseteq sent'
  PROVE  Reported(v, afi, c)'
<1>1. collector' = "vrrp"
  BY DEF settings
<1>2. ASSUME NEW r \in DOMAIN c, NEW p \in {"v4", "v6"}, NEW s \in VrrpStates
      PROVE  Has("vrrpState", [vrid |-> r[1], interface |-> r[2], proto |-> p, state |-> s])'
  <2>1. processInstance(r, "v4", c[r]["v4"]) \subseteq sent'
        /\ processInstance(r, "v6", c[r]["v6"]) \subseteq sent'
    BY DEF VrrpMetrics
  <2>2. processInstance(r, p, c[r][p]) \subseteq sent'
    BY <2>1
  <2>3. PICK x : Metric("vrrpState", Append(<< <<"proto", p>>, <<"vrid", r[1]>>, <<"interface", r[2]>>,
                                              <<"subinterface", c[r][p].sub>> >>, <<"state", s>>), x) \in sent'
    BY <2>2 DEF processInstance
  <2>4. Metric("vrrpState", << <<"proto", p>>, <<"vrid", r[1]>>, <<"interface", r[2]>>,
                               <<"subinterface", c[r][p].sub>>, <<"state", s>> >>, x) \in sent'
    BY <2>3, AppendToFour
  <2>5. /\ "proto" # "vrid" /\ "proto" # "interface" /\ "proto" # "subinterface"
        /\ "proto" # "state" /\ "vrid" # "interface" /\ "vrid" # "subinterface"
        /\ "vrid" # "state" /\ "interface" # "subinterface" /\ "interface" # "state"
        /\ "subinterface" # "state"
        /\ LabelNames["vrrpState"] = <<"proto", "vrid", "interface", "subinterface", "state">>
    BY DEF LabelNames
  <2>6. PICK m \in sent' :
          /\ m.family = "vrrpState" /\ m.label["proto"] = <<"proto", p>>
          /\ m.label["vrid"] = <<"vrid", r[1]>> /\ m.label["interface"] = <<"interface", r[2]>>
          /\ m.label["state"] = <<"state", s>>
    BY <2>4, <2>5, Label5
  <2>7. /\ m.label["vrid"][2] = r[1] /\ m.label["interface"][2] = r[2]
        /\ m.label["proto"][2] = p /\ m.label["state"][2] = s
    BY <2>6
  <2>8. QED
    BY <2>6, <2>7 DEF Has
<1>3. QED
  BY <1>1, <1>2 DEF Reported

\* Whatever the collector: the metrics made of a content report it.
LEMMA MetricsReport ==
  ASSUME collector \in Names, UNCHANGED settings, NEW v, NEW afi, NEW c,
         MetricsOf(afi, v, c) \subseteq sent',
         collector = "status" => \E x : sent' = {x}
  PROVE  Reported(v, afi, c)'
<1>1. CASE collector = "status"
  <2>1. collector' = "status"
    BY <1>1 DEF settings
  <2>2. Cardinality(sent') = 1
    BY <1>1, FS_Singleton
  <2>3. QED
    BY <2>1, <2>2 DEF Reported
<1>2. CASE collector = "route"
  BY <1>2, RouteReported DEF MetricsOf
<1>3. CASE collector = "rpki"
  BY <1>3, RpkiReported DEF MetricsOf
<1>4. CASE collector = "pim"
  BY <1>4, PimReported DEF MetricsOf
<1>5. CASE collector = "bfd"
  BY <1>5, BfdReported DEF MetricsOf
<1>6. CASE collector = "vrrp"
  BY <1>6, VrrpReported DEF MetricsOf
<1>7. QED
  BY <1>1, <1>2, <1>3, <1>4, <1>5, <1>6 DEF Names

\* Initially no turn is over.
LEMMA RepInit == Init => Rep
<1> SUFFICES ASSUME Init PROVE Rep
  OBVIOUS
<1>1. /\ answers = <<>> /\ sent = {} /\ at = 1 /\ pc \in {"list", "all"} /\ "default" \in stayed
  BY DEF Init
<1>2. \A v, i : i \in 1 .. Wanted => Pending(v, i)
  BY <1>1 DEF Pending, Wanted
<1>3. QED
  BY <1>1, <1>2 DEF Rep, InAnswers, AllReported, Finished, OneStatus

\* There is one turn of each VRF, two for route.
LEMMA WantedFacts ==
  ASSUME Base
  PROVE  /\ Wanted \in {1, 2} /\ at \in 1 .. Wanted /\ Len(answers) <= Wanted
         /\ Len(answers) \in Nat /\ DOMAIN answers = 1 .. Len(answers)
         /\ collector # "route" => Wanted = 1
BY DEF Base, Types, Wanted

\* A step that ends no turn keeps what was reported, and so does one that ends
\* a turn for which something is reported.
LEMMA TurnsReported ==
  ASSUME Base, Rep, UNCHANGED <<settings, answers>>, sent \subseteq sent', pc # "err",
         \A v \in stayed' : v \in stayed /\ had[v] \subseteq had'[v],
         \A v \in stayed', i \in 1 .. Wanted :
           pc' # "err" /\ ~Misread(i) /\ ~Pending(v, i)' =>
             \/ ~Pending(v, i) /\ (collector = "status" => sent' = sent)
             \/ \E c \in had'[v] : Reported(v, Afis[i], c)'
  PROVE  AllReported'
<1>1. Wanted' = Wanted /\ collector \in Names /\ \A i : Misread(i)' <=> Misread(i)
  BY SettingsKept DEF Base, Types, Misread
<1> SUFFICES ASSUME pc' # "err", NEW v \in stayed', NEW i \in 1 .. Wanted,
                    ~Misread(i), ~Pending(v, i)'
             PROVE  \E c \in had'[v] : Reported(v, Afis[i], c)'
  BY <1>1 DEF AllReported
<1>2. CASE ~Pending(v, i) /\ (collector = "status" => sent' = sent)
  <2>1. PICK c \in had[v] : Reported(v, Afis[i], c)
    BY <1>2 DEF Rep, AllReported
  <2>2. Reported(v, Afis[i], c)'
    BY <1>1, <1>2, <2>1, ReportedKept
  <2>3. QED
    BY <2>2
<1>3. QED
  BY <1>2

\* FRR changes: there are fewer VRFs that stayed, and more that they held.
LEMMA ChangeRep == Base /\ Rep /\ Change => Rep'
<1> SUFFICES ASSUME Base, Rep, Change PROVE Rep'
  OBVIOUS
<1>1. /\ UNCHANGED settings /\ collector' = collector /\ sent' = sent /\ pc' = pc /\ at' = at
      /\ left' = left /\ toAsk' = toAsk /\ answers' = answers /\ Wanted' = Wanted /\ pc # "err"
  BY SettingsKept DEF Change, settings, outVars
<1>2. /\ stayed' \subseteq stayed /\ ("default" \in stayed => "default" \in stayed')
      /\ \A v \in AllVrfs : had[v] \subseteq had'[v]
  <2>1. had \in [AllVrfs -> SUBSET Contents[collector]]
    BY DEF Base, Types
  <2>2. stayed' \subseteq stayed /\ ("default" \in stayed => "default" \in stayed')
    BY DEF Change
  <2>3. CASE had' = had
    BY <2>2, <2>3
  <2>4. ASSUME NEW u, NEW c, had' = [had EXCEPT ![u] = @ \cup {c}]
        PROVE  \A v \in AllVrfs : had[v] \subseteq had'[v]
    BY <2>1, <2>4
  <2>5. QED
    BY <2>2, <2>3, <2>4 DEF Change
<1>3. stayed \subseteq AllVrfs
  BY TableFacts DEF Base, Types
<1>4. \A v, i : Pending(v, i)' <=> Pending(v, i)
  BY <1>1 DEF Pending
<1>5. AllReported'
  <2>1. \A v \in stayed' : v \in stayed /\ had[v] \subseteq had'[v]
    BY <1>2, <1>3
  <2>2. \A v \in stayed', i \in 1 .. Wanted :
          pc' # "err" /\ ~Misread(i) /\ ~Pending(v, i)' =>
            ~Pending(v, i) /\ (collector = "status" => sent' = sent)
    BY <1>1, <1>4
  <2>3. QED
    BY <1>1, <2>1, <2>2, TurnsReported
<1>6. QED
  BY <1>1, <1>2, <1>4, <1>5 DEF Rep, InAnswers, Finished, OneStatus

\* Steps of Update that keep what FRR has, the answers and the turns.
LEMMA QuietRep ==
  ASSUME Base, Rep, UNCHANGED <<settings, frrVars, answers>>, pc # "err",
         sent \subseteq sent', collector = "status" => sent' = sent /\ pc' # "err",
         pc' = "ok" => at' = Wanted,
         \A v \in stayed, i \in 1 .. Wanted :
           pc' # "err" /\ ~Misread(i) => (Pending(v, i)' <=> Pending(v, i))
  PROVE  Rep'
<1>1. /\ collector' = collector /\ stayed' = stayed /\ had' = had /\ answers' = answers
      /\ Wanted' = Wanted /\ UNCHANGED settings
  BY SettingsKept DEF settings, frrVars
<1>2. AllReported'
  <2>1. \A v \in stayed' : v \in stayed /\ had[v] \subseteq had'[v]
    BY <1>1
  <2>2. \A v \in stayed', i \in 1 .. Wanted :
          pc' # "err" /\ ~Misread(i) /\ ~Pending(v, i)' =>
            ~Pending(v, i) /\ (collector = "status" => sent' = sent)
    BY <1>1
  <2>3. QED
    BY <1>1, <2>1, <2>2, TurnsReported
<1>3. OneStatus'
  <2>1. 1 \in 1 .. Wanted /\ (collector = "status" => ~Misread(1))
    BY WantedFacts, MisreadFacts
  <2>2. QED
    BY <1>1, <2>1 DEF OneStatus, Rep, InAnswers
<1>4. QED
  BY <1>1, <1>2, <1>3 DEF Rep, InAnswers, Finished


\* The status collector that fails has sent its one metric.
LEMMA FailRep ==
  ASSUME Base, Rep, Fail, UNCHANGED <<settings, frrVars, answers, at, left, toAsk>>,
         pc \in {"all", "process"}
  PROVE  Rep'
<1>0. /\ UNCHANGED settings /\ collector' = collector /\ stayed' = stayed /\ had' = had
      /\ answers' = answers /\ at' = at /\ Wanted' = Wanted
  BY SettingsKept DEF settings, frrVars
<1>1. CASE collector # "status" /\ pc' = "err" /\ UNCHANGED outVars
  BY <1>1, QuietRep DEF outVars
<1>2. CASE collector = "status" /\ pc' = "ok" /\ Send(Down, FALSE)
  <2>1. /\ Wanted = 1 /\ at = 1 /\ sent = {}
    <3>1. Wanted = 1 /\ at = 1
      BY <1>2, WantedFacts
    <3>2. QED
      BY <1>2, <3>1 DEF Rep, OneStatus, Pending
  <2>2. sent' = {StatusMetric("unknown", 0)}
    BY <1>2, <2>1 DEF Send, Down
  <2>3. Cardinality(sent') = 1
    BY <2>2, FS_Singleton
  <2>4. ASSUME NEW v \in stayed, NEW i PROVE \E c \in had[v] : Reported(v, Afis[i], c)'
    <3>1. PICK c \in had[v] : c = frr[v]
      BY DEF Base, Types, Observations, Observed
    <3>2. Reported(v, Afis[i], c)'
      BY <1>0, <1>2, <2>3 DEF Reported
    <3>3. QED
      BY <3>1, <3>2
  <2>5. AllReported'
    BY <1>0, <2>4 DEF AllReported
  <2>6. OneStatus'
    BY <1>0, <1>2, <2>1 DEF OneStatus, Pending
  <2>7. QED
    BY <1>0, <2>1, <2>5, <2>6 DEF Rep, InAnswers, Finished
<1>3. QED
  BY <1>1, <1>2, FailCases

\* The command over all VRFs is answered with those that FRR has.
LEMMA AskAllRep == Base /\ Rep /\ AskAll => Rep'
<1> SUFFICES ASSUME Base, Rep, AskAll PROVE Rep'
  OBVIOUS
<1>0. /\ pc = "all" /\ UNCHANGED <<settings, frrVars, at, left, toAsk>> /\ UNCHANGED settings
      /\ collector' = collector /\ stayed' = stayed /\ had' = had /\ at' = at /\ Wanted' = Wanted
  BY SettingsKept DEF AskAll, settings, frrVars
<1>1. CASE Fail /\ UNCHANGED answers
  BY <1>0, <1>1, FailRep
<1>2. ASSUME NEW d \in Forms, answers' = Append(answers, [form |-> d, table |-> frr]),
             pc' \in {"process", "all"}, UNCHANGED outVars
      PROVE  Rep'
  <2>1. sent' = sent
    BY <1>2 DEF outVars
  <2>2. at = 1 /\ answers \in Seq(Answers) /\ stayed \subseteq DOMAIN frr
    BY <1>0 DEF Base, Types, Progress
  <2>3. InAnswers'
    <3>1. ASSUME NEW k \in DOMAIN answers' PROVE stayed \subseteq DOMAIN answers'[k].table
      <4>1. CASE k \in DOMAIN answers
        <5>1. answers'[k] = answers[k]
          BY <1>2, <2>2, <4>1
        <5>2. QED
          BY <4>1, <5>1 DEF Rep, InAnswers
      <4>2. CASE k \notin DOMAIN answers
        <5>1. k = Len(answers) + 1
          BY <1>2, <2>2, <4>2
        <5>2. answers'[k] = [form |-> d, table |-> frr]
          BY <1>2, <2>2, <5>1
        <5>3. QED
          BY <2>2, <5>2
      <4>3. QED
        BY <4>1, <4>2
    <3>2. QED
      BY <1>0, <3>1 DEF Rep, InAnswers
  <2>4. \A v, i : i \in 1 .. Wanted => Pending(v, i)'
    BY <1>0, <1>2, <2>2 DEF Pending, Wanted
  <2>5. AllReported'
    BY <1>0, <2>4 DEF AllReported
  <2>6. OneStatus'
    BY <1>0, <2>1, <2>2 DEF OneStatus, Rep, Pending
  <2>7. QED
    BY <1>2, <2>3, <2>5, <2>6 DEF Rep, Finished
<1>3. QED
  BY <1>0, <1>1, <1>2 DEF AskAll

\* An answer that decodes has all the VRFs that stayed; one that does not gives
\* none of them a turn yet; one that is mistyped takes it from them.
LEMMA ProcessRep == Base /\ Rep /\ Process => Rep'
<1> SUFFICES ASSUME Base, Rep, Process PROVE Rep'
  OBVIOUS
<1>0. /\ pc = "process" /\ UNCHANGED <<settings, frrVars, answers, at, toAsk>>
      /\ UNCHANGED <<settings, frrVars, answers>> /\ at' = at
  BY DEF Process
<1>1. at \in DOMAIN answers
  BY <1>0, WantedFacts DEF Base, Progress
<1>2. \A v, i : Pending(v, i) <=> i > at \/ i = at
  BY <1>0 DEF Pending
<1>3. CASE pc' = "emit" /\ left' = answers[at].table /\ Send(FirstMetrics(answers[at].table), FALSE)
  <2>1. stayed \subseteq DOMAIN left'
    BY <1>1, <1>3 DEF Rep, InAnswers
  <2>2. \A v \in stayed, i \in 1 .. Wanted : Pending(v, i)' <=> Pending(v, i)
    BY <1>0, <1>2, <1>3, <2>1 DEF Pending
  <2>3. sent \subseteq sent' /\ (collector = "status" => sent' = sent)
    BY <1>3 DEF Send, FirstMetrics
  <2>4. QED
    BY <1>0, <1>3, <2>2, <2>3, QuietRep
<1>4. CASE pc' = "list" /\ UNCHANGED outVars
  <2>1. \A v \in stayed, i \in 1 .. Wanted : Pending(v, i)' <=> Pending(v, i)
    BY <1>0, <1>2, <1>4 DEF Pending
  <2>2. QED
    BY <1>0, <1>4, <2>1, QuietRep DEF outVars
<1>5. CASE Fail /\ UNCHANGED left
  BY <1>0, <1>5, FailRep
<1>6. CASE /\ answers[at].form = "mistyped" /\ pc' = "emit" /\ left' = Nothing
           /\ Send(RouteMetrics(Afis[at], "default", NoRoutes), FALSE)
  <2>1. Misread(at) /\ collector = "route"
    BY <1>1, <1>6, AnswerFacts DEF Misread
  <2>2. \A v \in stayed, i \in 1 .. Wanted : ~Misread(i) => (Pending(v, i)' <=> Pending(v, i))
    BY <1>0, <1>2, <2>1 DEF Pending
  <2>3. sent \subseteq sent'
    BY <1>6 DEF Send
  <2>4. QED
    BY <1>0, <1>6, <2>1, <2>2, <2>3, QuietRep
<1>7. QED
  BY <1>3, <1>4, <1>5, <1>6 DEF Process

\* Emit and AskOne: a turn of VRF w ends with the metrics of what it held.
LEMMA TurnRep ==
  ASSUME Base, Rep, UNCHANGED <<settings, frrVars, answers>>, at' = at, pc' = pc,
         pc \in {"emit", "one"},
         NEW w \in AllVrfs, w \in stayed => \E c \in had[w] : Reported(w, Afis[at], c)',
         sent \subseteq sent',
         \A v \in AllVrfs, i \in 1 .. Wanted :
           Pending(v, i) => Pending(v, i)' \/ (v = w /\ i = at),
         collector = "status" => w = "default" /\ ~Pending("default", 1)'
  PROVE  Rep'
<1>0. /\ UNCHANGED settings /\ collector' = collector /\ stayed' = stayed /\ had' = had
      /\ answers' = answers /\ Wanted' = Wanted
  BY SettingsKept DEF settings, frrVars
<1>1. stayed \subseteq AllVrfs /\ (collector = "status" => stayed \subseteq {"default"})
  BY TableFacts DEF Base, Types, SeenVrfs, ByVrf
<1>2. AllReported'
  <2>1. \A v \in stayed' : v \in stayed /\ had[v] \subseteq had'[v]
    BY <1>0
  <2>2. ASSUME NEW v \in stayed, NEW i \in 1 .. Wanted, ~Pending(v, i)'
        PROVE  \/ ~Pending(v, i) /\ (collector = "status" => sent' = sent)
               \/ \E c \in had'[v] : Reported(v, Afis[i], c)'
    <3>1. CASE v = w /\ i = at
      BY <1>0, <3>1
    <3>2. CASE ~(v = w /\ i = at)
      <4>1. ~Pending(v, i)
        BY <1>1, <2>2, <3>2
      <4>2. collector # "status"
        BY <1>1, <3>2, WantedFacts
      <4>3. QED
        BY <4>1, <4>2
    <3>3. QED
      BY <3>1, <3>2
  <2>3. QED
    BY <1>0, <2>1, <2>2, TurnsReported
<1>3. OneStatus'
  BY <1>0 DEF OneStatus
<1>4. QED
  BY <1>0, <1>2, <1>3 DEF Rep, InAnswers, Finished

\* The metrics of one VRF of the answer.
LEMMA EmitRep == \A w \in AllVrfs : Base /\ Rep /\ Emit(w) => Rep'
<1> SUFFICES ASSUME NEW w \in AllVrfs, Base, Rep, Emit(w) PROVE Rep'
  OBVIOUS
<1>0. /\ pc = "emit" /\ w \in DOMAIN left /\ UNCHANGED <<settings, frrVars, answers>>
      /\ UNCHANGED settings /\ at' = at /\ toAsk' = toAsk
  BY DEF Emit
<1>1. CASE /\ Send(MetricsOf(Afis[at], w, left[w]), SameLabels(left[w]))
           /\ left' = [v \in DOMAIN left \ {w} |-> left[v]]
           /\ UNCHANGED pc
  <2>1. \A v \in AllVrfs, i \in 1 .. Wanted :
          Pending(v, i) => Pending(v, i)' \/ (v = w /\ i = at)
    BY <1>0, <1>1, WantedFacts DEF Pending
  <2>2. PICK a : a = Afis[at]
    OBVIOUS
  <2>3. PICK c \in had[w] : c = left[w]
    BY <1>0 DEF Base, Observations, Observed
  <2>4. collector = "status" => /\ w = "default" /\ ~Pending("default", 1)'
                                /\ \E x : sent' = {x}
    <3> SUFFICES ASSUME collector = "status"
                 PROVE  w = "default" /\ ~Pending("default", 1)' /\ \E x : sent' = {x}
      OBVIOUS
    <3>1. w = "default" /\ at = 1
      BY <1>0, WantedFacts, TableFacts DEF Base, Types, SeenVrfs, ByVrf
    <3>2. sent = {}
      BY <1>0, <3>1 DEF Rep, OneStatus, Pending
    <3>3. sent' = {StatusMetric(c, 1)}
      BY <1>1, <2>3, <3>2 DEF Send, MetricsOf
    <3>4. ~Pending("default", 1)'
      BY <1>0, <1>1, <3>1 DEF Pending
    <3>5. QED
      BY <3>1, <3>3, <3>4
  <2>5. MetricsOf(a, w, c) \subseteq sent' /\ sent \subseteq sent'
    BY <1>1, <2>2, <2>3 DEF Send
  <2>6. Reported(w, a, c)'
    BY <1>0, <2>4, <2>5, MetricsReport DEF Base, Types
  <2>7. \E d \in had[w] : Reported(w, Afis[at], d)'
    BY <1>0, <2>2, <2>3, <2>6
  <2>8. QED
    BY <1>0, <1>1, <2>1, <2>4, <2>5, <2>7, TurnRep
<1>2. ASSUME collector = "pim", pc' = "err", NEW some, NEW rep, Send(some, rep) PROVE Rep'
  BY <1>0, <1>2, QuietRep DEF Send
<1>3. QED
  BY <1>1, <1>2 DEF Emit

\* The turns that end with an answer, or with the list of VRFs, are over before.
LEMMA ProceedRep ==
  ASSUME Base, Rep, Proceed, UNCHANGED <<settings, frrVars, answers, left, toAsk, outVars>>,
         \/ pc = "emit" /\ DOMAIN left = {}
         \/ pc = "one" /\ toAsk = <<>>
  PROVE  Rep'
<1>1. /\ \/ at' = at + 1 /\ pc' = "process"
         \/ at' = at /\ pc' = "ok" /\ at >= Len(answers)
      /\ UNCHANGED <<settings, frrVars, answers>> /\ sent' = sent /\ left' = left /\ toAsk' = toAsk
  BY WantedFacts DEF Proceed, outVars
<1>2. \A v, i : i \in 1 .. Wanted => (Pending(v, i) <=> i > at)
  BY WantedFacts DEF Pending
<1>3. \A v, i : i \in 1 .. Wanted => (Pending(v, i)' <=> i > at)
  BY <1>1, WantedFacts DEF Pending
<1>4. pc' = "ok" => at' = Wanted
  <2>1. collector = "route" => Len(answers) = Wanted
    BY DEF Base, Progress
  <2>2. QED
    BY <1>1, <2>1, WantedFacts
<1>5. pc' # "err"
  BY <1>1
<1>6. QED
  BY <1>1, <1>2, <1>3, <1>4, <1>5, QuietRep

\* The list holds every VRF that FRR has when it is asked for.
LEMMA AllListed ==
  ASSUME Base, NEW s \in Orders(Listed), NEW v \in DOMAIN frr
  PROVE  \E k \in DOMAIN (<<"default">> \o s) : (<<"default">> \o s)[k] = v
<1>1. IsFiniteSet(Listed)
  <2>1. Listed \subseteq Vrfs
    BY TableFacts DEF Base, Types, Listed, AllVrfs
  <2>2. QED
    BY <2>1, VrfsAssumption, FS_Subset
<1>2. /\ Cardinality(Listed) \in Nat /\ s \in [1 .. Cardinality(Listed) -> Listed]
      /\ s \in Seq(Listed) /\ Len(s) = Cardinality(Listed)
  BY <1>1, FS_CardinalityType DEF Orders
<1>3. CASE v = "default"
  BY <1>2, <1>3
<1>4. CASE v # "default"
  <2>1. s \in Injection(1 .. Cardinality(Listed), Listed)
    BY <1>2 DEF Orders, Injection, IsInjective
  <2>2. Cardinality(1 .. Cardinality(Listed)) = Cardinality(Listed)
    BY <1>2, FS_Interval
  <2>3. s \in Surjection(1 .. Cardinality(Listed), Listed)
    BY <1>1, <2>1, <2>2, FS_Injection
  <2>4. PICK k \in 1 .. Cardinality(Listed) : s[k] = v
    BY <1>4, <2>3 DEF Surjection, Listed
  <2>5. k + 1 \in DOMAIN (<<"default">> \o s) /\ (<<"default">> \o s)[k + 1] = v
    BY <1>2, <2>4
  <2>6. QED
    BY <2>5
<1>5. QED
  BY <1>3, <1>4

\* When the list has been read, all that stayed have their turn to come.
LEMMA ListVrfsRep == Base /\ Rep /\ ListVrfs => Rep'
<1> SUFFICES ASSUME Base, Rep, ListVrfs PROVE Rep'
  OBVIOUS
<1>0. /\ pc = "list" /\ UNCHANGED <<settings, frrVars, answers>> /\ at' = at /\ sent' = sent
  BY DEF ListVrfs, outVars
<1>1. collector # "status"
  BY <1>0 DEF Base, Progress
<1>2. CASE pc' = "err"
  BY <1>0, <1>1, <1>2, QuietRep
<1>3. ASSUME pc' = "one", NEW s \in Orders(Listed), toAsk' = <<"default">> \o s PROVE Rep'
  <2>1. stayed \subseteq DOMAIN frr
    BY DEF Base, Types
  <2>2. ASSUME NEW v \in stayed PROVE \E k \in DOMAIN toAsk' : toAsk'[k] = v
    <3>1. v \in DOMAIN frr
      BY <2>1
    <3>2. QED
      BY <1>3, <3>1, AllListed
  <2>3. \A v \in stayed, i \in 1 .. Wanted : Pending(v, i)' <=> Pending(v, i)
    BY <1>0, <1>3, <2>2 DEF Pending
  <2>4. QED
    BY <1>0, <1>1, <1>3, <2>3, QuietRep
<1>4. QED
  BY <1>2, <1>3 DEF ListVrfs

\* The answer for the next VRF of the list, or none to rpki where it has nothing.
LEMMA AskOneRep == Base /\ Rep /\ AskOne => Rep'
<1> SUFFICES ASSUME Base, Rep, AskOne PROVE Rep'
  OBVIOUS
<1> DEFINE w == Head(toAsk)
<1>0. /\ pc = "one" /\ toAsk # <<>> /\ UNCHANGED <<settings, frrVars, answers>>
      /\ UNCHANGED settings /\ at' = at /\ toAsk \in Seq(AllVrfs)
      /\ collector \in {"route", "rpki"} /\ collector \in Names
  BY DEF AskOne, Base, Types, Progress
<1>1. CASE GoneIsError /\ UNCHANGED outVars
  BY <1>0, <1>1, QuietRep DEF GoneIsError, outVars
<1>2. ASSUME pc' = pc, NextVrf
      PROVE  \A v \in AllVrfs, i \in 1 .. Wanted :
               Pending(v, i) => Pending(v, i)' \/ (v = w /\ i = at)
  <2> SUFFICES ASSUME NEW v \in AllVrfs, NEW i \in 1 .. Wanted, Pending(v, i)
               PROVE  Pending(v, i)' \/ (v = w /\ i = at)
    OBVIOUS
  <2>1. CASE i > at
    BY <1>0, <2>1 DEF Pending
  <2>2. ASSUME i = at, NEW k \in DOMAIN toAsk, toAsk[k] = v PROVE Pending(v, i)' \/ v = w
    <3>1. CASE k = 1
      BY <1>0, <2>2, <3>1
    <3>2. CASE k # 1
      <4>1. k - 1 \in DOMAIN Tail(toAsk) /\ Tail(toAsk)[k - 1] = v
        BY <1>0, <2>2, <3>2
      <4>2. QED
        BY <1>0, <1>2, <2>2, <4>1 DEF Pending, NextVrf
    <3>3. QED
      BY <3>1, <3>2
  <2>3. QED
    BY <1>0, <2>1, <2>2, WantedFacts DEF Pending
<1>3. w \in AllVrfs
  BY <1>0
<1>4. CASE Answer(w) /\ pc' = pc /\ NextVrf
  <2>1. PICK a : a = Afis[at]
    OBVIOUS
  <2>2. PICK v : v = w
    OBVIOUS
  <2>3. PICK c \in had[v] : c = frr[v]
    BY <1>4, <2>2 DEF Answer, Base, Observations, Observed
  <2>4. MetricsOf(a, v, c) \subseteq sent' /\ sent \subseteq sent'
    BY <1>4, <2>1, <2>2, <2>3 DEF Answer, Send
  <2>5. Reported(v, a, c)'
    BY <1>0, <2>4, MetricsReport
  <2>6. \E d \in had[v] : Reported(v, Afis[at], d)'
    BY <1>0, <2>1, <2>3, <2>5
  <2>7. \A u \in AllVrfs, i \in 1 .. Wanted :
          Pending(u, i) => Pending(u, i)' \/ (u = v /\ i = at)
    BY <1>2, <1>4, <2>2
  <2>8. QED
    BY <1>0, <1>3, <1>4, <2>2, <2>4, <2>6, <2>7, TurnRep
<1>5. CASE Empty(w) /\ pc' = pc /\ NextVrf
  <2>1. PICK v : v = w
    OBVIOUS
  <2>2. ASSUME v \in stayed PROVE \E d \in had[v] : Reported(v, Afis[at], d)'
    <3>1. frr[v] = Nothing /\ frr[v] \in had[v] /\ collector = "rpki"
      BY <1>5, <2>1, <2>2 DEF Empty, Base, Types, Observations, Observed
    <3>2. collector' = "rpki"
      BY <1>0, <3>1 DEF settings
    <3>3. DOMAIN Nothing = {}
      BY DEF Nothing
    <3>4. \A a : Reported(v, a, Nothing)'
      BY <3>2, <3>3 DEF Reported
    <3>5. QED
      BY <3>1, <3>4
  <2>3. sent \subseteq sent'
    BY <1>5 DEF Empty, outVars
  <2>4. \A u \in AllVrfs, i \in 1 .. Wanted :
          Pending(u, i) => Pending(u, i)' \/ (u = v /\ i = at)
    BY <1>2, <1>5, <2>1
  <2>5. QED
    BY <1>0, <1>3, <1>5, <2>1, <2>2, <2>3, <2>4, TurnRep
<1>6. QED
  BY <1>1, <1>4, <1>5 DEF AskOne

\* Every step keeps what its turns have reported.
LEMMA StepsKeepRep == Base /\ Rep /\ [Next]_vars => Rep'
<1> SUFFICES ASSUME Base, Rep, [Next]_vars PROVE Rep'
  OBVIOUS
<1>1. CASE Change \/ AskAll \/ Process \/ ListVrfs \/ AskOne
  BY <1>1, ChangeRep, AskAllRep, ProcessRep, ListVrfsRep, AskOneRep
<1>2. ASSUME NEW v \in AllVrfs, Emit(v) PROVE Rep'
  BY <1>2, EmitRep
<1>3. CASE EndAnswer \/ EndList
  BY <1>3, ProceedRep DEF EndAnswer, EndList
<1>4. CASE Returned \/ UNCHANGED vars
  <2>1. UNCHANGED vars
    BY <1>4 DEF Returned
  <2>2. /\ UNCHANGED settings /\ collector' = collector /\ stayed' = stayed /\ had' = had
        /\ answers' = answers /\ at' = at /\ Wanted' = Wanted /\ pc' = pc /\ sent' = sent
        /\ toAsk' = toAsk /\ left' = left
    BY <2>1, SettingsKept DEF vars, settings, frrVars, outVars
  <2>3. \A v, i : Pending(v, i)' <=> Pending(v, i)
    BY <2>2 DEF Pending
  <2>4. CASE pc = "err"
    BY <2>2, <2>3, <2>4 DEF Rep, InAnswers, AllReported, Finished, OneStatus
  <2>5. CASE pc # "err"
    BY <2>2, <2>3, <2>5, TurnsReported DEF Rep, InAnswers, Finished, OneStatus
  <2>6. QED
    BY <2>4, <2>5
<1>5. QED
  BY <1>1, <1>2, <1>3, <1>4 DEF Next, Update

-----------------------------------------------------------------------------
(* The count of BFD peers.                                                 *)

\* The pairs of a VRF out of D and a peer of it, and the state metric of one.
Pairs(t, D) == UNION {{<<v, p>> : p \in DOMAIN t[v]} : v \in D}
PeerValues(v, p) == <<<<"local", p[1]>>, <<"peer", p[2]>>, <<"iface", p[3]>>, <<"vrf", v>>>>
StateOf(t, x) == Metric("bfdPeerState", PeerValues(x[1], x[2]),
                        IF t[x[1]][x[2]].status = "up" THEN 1 ELSE 0)
States(set) == {m \in set : m.family = "bfdPeerState"}

\* The count is that of the whole answer, the peers those of the VRFs done.
Counted ==
  /\ collector # "bfd" => \A m \in sent : m.family # "bfdPeerCount"
  /\ collector = "bfd" /\ pc \in {"emit", "ok"} =>
       LET t == answers[1].table IN
       /\ t \in Tables
       /\ pc = "ok" => DOMAIN left = {}
       /\ \A v \in DOMAIN left : v \in DOMAIN t /\ left[v] = t[v]
       /\ \A m \in sent : m.family = "bfdPeerCount" => m.value = CountOfAll(t)
       /\ States(sent) = {StateOf(t, x) : x \in Pairs(t, DOMAIN t \ DOMAIN left)}

\* Only bfd sends a count of BFD peers, and not out of one VRF; only pim uptimes.
LEMMA NoCountOfVrf ==
  ASSUME collector \in Names, NEW afi, NEW v, NEW c, NEW m \in MetricsOf(afi, v, c)
  PROVE  m.family # "bfdPeerCount" /\ (collector # "pim" => m.family # "upTime")
<1>0. \A f, values, x : Metric(f, values, x).family = f
  BY DEF Metric
<1>1. CASE collector = "route"
  <2>1. m \in RouteMetrics(afi, v, c[afi])
    BY <1>1 DEF MetricsOf
  <2>2. QED
    BY <1>0, <2>1 DEF RouteMetrics
<1>2. CASE collector = "rpki"
  <2>1. m \in RpkiMetrics(v, c)
    BY <1>2 DEF MetricsOf
  <2>2. PICK h \in DOMAIN c :
          LET values == << <<"vrf", v>>, <<"host", h>> >> IN
          \/ m = Metric("cacheState", values, IF c[h].state = "connected" THEN 1 ELSE 0)
          \/ m = Metric("cachePreference", values, c[h].preference)
    BY <2>1 DEF RpkiMetrics
  <2>3. QED
    BY <1>0, <2>2
<1>3. CASE collector = "pim"
  <2>1. m \in PimMetrics(v, c)
    BY <1>3 DEF MetricsOf
  <2>2. CASE m = Metric("neighborCount", << <<"vrf", v>> >>, NeighborCount(c))
    BY <1>0, <2>2
  <2>3. ASSUME NEW n, m = Metric("upTime", << <<"vrf", Lower[v]>>, <<"iface", Lower[n[1]]>>,
                                              <<"neighbor", n[2]>> >>, c[n])
        PROVE  m.family # "bfdPeerCount"
    BY <1>0, <2>3
  <2>4. QED
    BY <1>3, <2>1, <2>2, <2>3 DEF PimMetrics, UpTimes
<1>4. CASE collector = "bfd"
  <2>1. m \in BfdMetrics(v, c)
    BY <1>4 DEF MetricsOf
  <2>2. PICK p \in DOMAIN c :
          LET values == << <<"local", p[1]>>, <<"peer", p[2]>>, <<"iface", p[3]>>, <<"vrf", v>> >> IN
          \/ m = Metric("bfdPeerUptime", values, c[p].uptime)
          \/ m = Metric("bfdPeerState", values, IF c[p].status = "up" THEN 1 ELSE 0)
    BY <2>1 DEF BfdMetrics
  <2>3. QED
    BY <1>0, <2>2
<1>5. CASE collector = "status"
  BY <1>0, <1>5 DEF MetricsOf, StatusMetric
<1>6. CASE collector = "vrrp"
  <2>1. PICK r \in DOMAIN c : \/ m \in processInstance(r, "v4", c[r].v4)
                              \/ m \in processInstance(r, "v6", c[r].v6)
    BY <1>6 DEF MetricsOf, VrrpMetrics
  <2>2. ASSUME NEW p, NEW i, m \in processInstance(r, p, i)
        PROVE  m.family \in {"vrrpState", "adverTx"}
    <3> DEFINE values == << <<"proto", p>>, <<"vrid", r[1]>>, <<"interface", r[2]>>,
                            <<"subinterface", i.sub>> >>
    <3>1. m \in {Metric("vrrpState", Append(values, <<"state", s>>),
                        IF EqualFold(i.status, s) THEN 1 ELSE 0) : s \in VrrpStates}
                \cup {Metric("adverTx", values, n) : n \in i.adverTx}
      BY <2>2 DEF processInstance
    <3>2. ASSUME NEW s, m = Metric("vrrpState", Append(values, <<"state", s>>),
                                   IF EqualFold(i.status, s) THEN 1 ELSE 0)
          PROVE  m.family = "vrrpState"
      BY <1>0, <3>2
    <3>3. ASSUME NEW n, m = Metric("adverTx", values, n) PROVE m.family = "adverTx"
      BY <1>0, <3>3
    <3>4. QED
      BY <3>1, <3>2, <3>3
  <2>3. QED
    BY <2>1, <2>2
<1>7. QED
  BY <1>1, <1>2, <1>3, <1>4, <1>5, <1>6 DEF Names

\* Neither is what is sent without the content of a VRF.
LEMMA NoneOfThem ==
  \A m \in Down \cup RouteMetrics(Afis[at], "default", NoRoutes) :
    m.family \notin {"bfdPeerCount", "upTime"}
<1>1. \A f, values, x : Metric(f, values, x).family = f
  BY DEF Metric
<1>2. \A m \in Down : m.family = "up"
  BY <1>1 DEF Down, StatusMetric
<1>3. \A m \in RouteMetrics(Afis[at], "default", NoRoutes) : m.family \in {"total", "totalFib", "ribCount"}
  BY <1>1 DEF RouteMetrics
<1>4. QED
  BY <1>2, <1>3

\* The states among the metrics of one VRF are those of its peers.
LEMMA StatesOfVrf ==
  ASSUME NEW t, NEW v
  PROVE  States(BfdMetrics(v, t[v])) = {StateOf(t, x) : x \in Pairs(t, {v})}
<1>0. \A f, values, x : Metric(f, values, x).family = f
  BY DEF Metric
<1>1. \A p : StateOf(t, <<v, p>>) = Metric("bfdPeerState", PeerValues(v, p),
                                           IF t[v][p].status = "up" THEN 1 ELSE 0)
  BY DEF StateOf
<1>2. ASSUME NEW m \in BfdMetrics(v, t[v]), m.family = "bfdPeerState"
      PROVE  \E p \in DOMAIN t[v] : m = StateOf(t, <<v, p>>)
  <2>1. PICK p \in DOMAIN t[v] :
          LET values == << <<"local", p[1]>>, <<"peer", p[2]>>, <<"iface", p[3]>>, <<"vrf", v>> >> IN
          \/ m = Metric("bfdPeerUptime", values, t[v][p].uptime)
          \/ m = Metric("bfdPeerState", values, IF t[v][p].status = "up" THEN 1 ELSE 0)
    BY DEF BfdMetrics
  <2>2. m = StateOf(t, <<v, p>>)
    BY <1>0, <1>1, <1>2, <2>1 DEF PeerValues
  <2>3. QED
    BY <2>2
<1>3. ASSUME NEW p \in DOMAIN t[v]
      PROVE  StateOf(t, <<v, p>>) \in BfdMetrics(v, t[v])
  <2> DEFINE values == << <<"local", p[1]>>, <<"peer", p[2]>>, <<"iface", p[3]>>, <<"vrf", v>> >>
         pair == {Metric("bfdPeerUptime", values, t[v][p].uptime),
                  Metric("bfdPeerState", values, IF t[v][p].status = "up" THEN 1 ELSE 0)}
  <2>1. \A m \in pair : m \in BfdMetrics(v, t[v])
    BY Zenon DEF BfdMetrics
  <2>2. StateOf(t, <<v, p>>) = Metric("bfdPeerState", values,
                                      IF t[v][p].status = "up" THEN 1 ELSE 0)
    BY <1>1 DEF PeerValues
  <2>3. QED
    BY <2>1, <2>2
<1>4. \A p : StateOf(t, <<v, p>>).family = "bfdPeerState"
  BY <1>0, <1>1
<1>5. Pairs(t, {v}) = {<<v, p>> : p \in DOMAIN t[v]}
  BY DEF Pairs
<1>6. QED
  BY <1>2, <1>3, <1>4, <1>5 DEF States

\* The count of the whole answer is sent first.
LEMMA ProcessCounted == Base /\ Counted /\ Process => Counted'
<1> SUFFICES ASSUME Base, Counted, Process PROVE Counted'
  OBVIOUS
<1>0. /\ pc = "process" /\ answers' = answers /\ collector' = collector /\ Tables' = Tables
  BY SettingsKept DEF Process, settings
<1>1. CASE collector # "bfd"
  <2>1. \/ sent' = sent \/ sent' = sent \cup Down
        \/ sent' = sent \cup RouteMetrics(Afis[at], "default", NoRoutes)
    BY <1>1 DEF Process, Send, Fail, FirstMetrics, outVars
  <2>2. \A m \in Down \cup RouteMetrics(Afis[at], "default", NoRoutes) : m.family # "bfdPeerCount"
    BY NoneOfThem
  <2>3. QED
    BY <1>0, <1>1, <2>1, <2>2 DEF Counted
<1>2. CASE collector = "bfd"
  <2>1. at = 1 /\ 1 \in DOMAIN answers /\ answers[at].form # "mistyped"
    BY <1>0, <1>2, WantedFacts, AnswerFacts DEF Base, Progress
  <2>2. PICK t : t = answers[1].table
    OBVIOUS
  <2>3. CASE /\ pc' = "emit" /\ left' = answers[at].table
             /\ Send(FirstMetrics(answers[at].table), FALSE)
    <3>1. sent' = {Metric("bfdPeerCount", <<>>, CountOfAll(t))}
      BY <1>0, <1>2, <2>1, <2>2, <2>3 DEF Send, FirstMetrics, Base, Silent
    <3>2. \A m \in sent' : m.family = "bfdPeerCount" /\ m.value = CountOfAll(t)
      BY <3>1 DEF Metric
    <3>3. States(sent') = {}
      BY <3>2 DEF States
    <3>4. Pairs(t, DOMAIN t \ DOMAIN left') = {}
      BY <2>1, <2>2, <2>3 DEF Pairs
    <3>5. t \in Tables
      BY <2>1, <2>2, AnswerFacts
    <3>6. answers'[1].table = t /\ left' = t
      BY <1>0, <2>1, <2>2, <2>3
    <3>7. QED
      BY <1>0, <1>2, <2>3, <3>2, <3>3, <3>4, <3>5, <3>6 DEF Counted
  <2>4. CASE pc' \notin {"emit", "ok"}
    BY <1>0, <1>2, <2>4 DEF Counted
  <2>5. QED
    BY <1>2, <2>1, <2>3, <2>4 DEF Process, Fail
<1>3. QED
  BY <1>1, <1>2

\* The metrics of a VRF move its peers to those done.
LEMMA EmitCounted == \A w \in AllVrfs : Base /\ Counted /\ Emit(w) => Counted'
<1> SUFFICES ASSUME NEW w \in AllVrfs, Base, Counted, Emit(w) PROVE Counted'
  OBVIOUS
<1>0. /\ pc = "emit" /\ w \in DOMAIN left /\ answers' = answers /\ collector' = collector
      /\ Tables' = Tables /\ collector \in Names
  BY SettingsKept DEF Emit, settings, Base, Types
<1>1. CASE collector # "bfd"
  <2>1. ASSUME NEW m \in sent' \ sent PROVE m.family # "bfdPeerCount"
    <3>1. CASE m \in MetricsOf(Afis[at], w, left[w])
      BY <1>0, <3>1, NoCountOfVrf
    <3>2. CASE collector = "pim" /\ m \in UpTimes(w, left[w])
      <4>1. m \in MetricsOf(Afis[at], w, left[w])
        BY <3>2 DEF MetricsOf, PimMetrics
      <4>2. QED
        BY <1>0, <4>1, NoCountOfVrf
    <3>3. QED
      BY <2>1, <3>1, <3>2, EmitCases DEF Send
  <2>2. QED
    BY <1>0, <1>1, <2>1 DEF Counted
<1>2. CASE collector = "bfd"
  <2>1. PICK t : t = answers[1].table
    OBVIOUS
  <2>2. /\ t \in Tables /\ w \in DOMAIN t /\ left[w] = t[w]
        /\ \A v \in DOMAIN left : v \in DOMAIN t /\ left[v] = t[v]
        /\ \A m \in sent : m.family = "bfdPeerCount" => m.value = CountOfAll(t)
        /\ States(sent) = {StateOf(t, x) : x \in Pairs(t, DOMAIN t \ DOMAIN left)}
    BY <1>0, <1>2, <2>1 DEF Counted
  <2>3. /\ sent' = sent \cup BfdMetrics(w, t[w])
        /\ left' = [v \in DOMAIN left \ {w} |-> left[v]] /\ pc' = "emit"
    BY <1>0, <1>2, <2>2 DEF Emit, Send, MetricsOf
  <2>4. \A m \in BfdMetrics(w, t[w]) : m.family # "bfdPeerCount"
    BY <1>0, <1>2, NoCountOfVrf DEF MetricsOf
  <2>5. States(sent') = States(sent) \cup States(BfdMetrics(w, t[w]))
    BY <2>3 DEF States
  <2>6. DOMAIN t \ DOMAIN left' = (DOMAIN t \ DOMAIN left) \cup {w}
    BY <1>0, <2>2, <2>3
  <2>7. Pairs(t, DOMAIN t \ DOMAIN left') = Pairs(t, DOMAIN t \ DOMAIN left) \cup Pairs(t, {w})
    BY <2>6 DEF Pairs
  <2>8. States(sent') = {StateOf(t, x) : x \in Pairs(t, DOMAIN t \ DOMAIN left')}
    <3>1. \A A, B : {StateOf(t, x) : x \in A \cup B}
                      = {StateOf(t, x) : x \in A} \cup {StateOf(t, x) : x \in B}
      OBVIOUS
    <3>2. States(BfdMetrics(w, t[w])) = {StateOf(t, x) : x \in Pairs(t, {w})}
      BY StatesOfVrf
    <3>3. QED
      BY <2>2, <2>5, <2>7, <3>1, <3>2
  <2>9. \A m \in sent' : m.family = "bfdPeerCount" => m.value = CountOfAll(t)
    BY <2>2, <2>3, <2>4
  <2>10. \A v \in DOMAIN left' : v \in DOMAIN t /\ left'[v] = t[v]
    BY <2>2, <2>3
  <2>11. answers'[1].table = t
    BY <1>0, <2>1
  <2>12. QED
    BY <1>0, <1>2, <2>2, <2>3, <2>8, <2>9, <2>10, <2>11 DEF Counted
<1>3. QED
  BY <1>1, <1>2

\* The steps that send nothing, and the answers of the collectors that go by
\* the list of VRFs.
LEMMA StepsKeepCounted == Base /\ Counted /\ [Next]_vars => Counted'
<1> SUFFICES ASSUME Base, Counted, [Next]_vars PROVE Counted'
  OBVIOUS
<1>0. collector \in Names
  BY DEF Base, Types
<1>1. ASSUME UNCHANGED <<settings, answers, left>>, sent' = sent,
             collector = "bfd" /\ pc' \in {"emit", "ok"} =>
               pc' = pc \/ (pc = "emit" /\ DOMAIN left = {})
      PROVE  Counted'
  <2>1. /\ collector' = collector /\ answers' = answers /\ left' = left /\ Tables' = Tables
    BY <1>1, SettingsKept DEF settings
  <2>2. QED
    BY <1>1, <2>1 DEF Counted
<1>2. CASE Change \/ Returned \/ UNCHANGED vars
  <2>1. UNCHANGED <<settings, answers, left, pc, outVars>>
    BY <1>2 DEF Change, Returned, vars
  <2>2. QED
    BY <1>1, <2>1 DEF outVars
<1>3. CASE AskAll
  <2>1. collector' = collector /\ pc = "all"
    BY <1>3 DEF AskAll, settings
  <2>2. CASE collector = "bfd"
    BY <1>3, <2>1, <2>2 DEF AskAll, Fail, Counted
  <2>3. CASE collector # "bfd"
    <3>1. sent' = sent \/ sent' = sent \cup Down
      BY <1>3 DEF AskAll, Send, Fail, outVars
    <3>2. \A m \in Down : m.family # "bfdPeerCount"
      BY DEF Down, StatusMetric, Metric
    <3>3. QED
      BY <2>1, <2>3, <3>1, <3>2 DEF Counted
  <2>4. QED
    BY <2>2, <2>3
<1>4. CASE EndAnswer
  BY <1>1, <1>4 DEF EndAnswer, settings, outVars
<1>5. CASE ListVrfs \/ EndList
  <2>1. collector # "bfd"
    BY <1>5 DEF ListVrfs, EndList, Base, Progress
  <2>2. QED
    BY <1>1, <1>5, <2>1 DEF ListVrfs, EndList, settings, outVars
<1>6. CASE AskOne
  <2>1. collector' = collector /\ collector # "bfd"
    BY <1>6 DEF AskOne, settings, Base, Progress
  <2>2. \A m \in sent' \ sent : m.family # "bfdPeerCount"
    BY <1>0, <1>6, NoCountOfVrf DEF AskOne, Answer, Empty, Send, outVars
  <2>3. QED
    BY <2>1, <2>2 DEF Counted
<1>7. QED
  BY <1>2, <1>3, <1>4, <1>5, <1>6, ProcessCounted, EmitCounted DEF Next, Update

\* Different sessions have different state metrics, so that there are as many of
\* these as the answer has sessions.
LEMMA StatesAreCounted ==
  ASSUME DistinctSessions, collector = "bfd", NEW t \in Tables
  PROVE  Cardinality({StateOf(t, x) : x \in Pairs(t, DOMAIN t)}) = CountOfAll(t)
<1> DEFINE P == Pairs(t, DOMAIN t)
           T == {StateOf(t, x) : x \in P}
           f == [x \in P |-> StateOf(t, x)]
           Peers == UNION {DOMAIN c : c \in Contents.bfd}
<1>1. DOMAIN t \subseteq AllVrfs /\ t \in [DOMAIN t -> Contents.bfd]
  BY TableFacts
<1>2. \A x \in P : /\ x = <<x[1], x[2]>> /\ x[1] \in AllVrfs /\ x[2] \in Peers
                   /\ t[x[1]] \in Contents.bfd /\ x[2] \in DOMAIN t[x[1]]
  <2> SUFFICES ASSUME NEW x \in P
               PROVE  /\ x = <<x[1], x[2]>> /\ x[1] \in AllVrfs /\ x[2] \in Peers
                      /\ t[x[1]] \in Contents.bfd /\ x[2] \in DOMAIN t[x[1]]
    OBVIOUS
  <2>1. PICK v \in DOMAIN t : \E p \in DOMAIN t[v] : x = <<v, p>>
    BY DEF Pairs
  <2>2. PICK p \in DOMAIN t[v] : x = <<v, p>>
    BY <2>1
  <2>3. t[v] \in Contents.bfd
    BY <1>1
  <2>4. p \in Peers
    BY <2>3
  <2>5. x[1] = v /\ x[2] = p
    BY <2>2
  <2>6. QED
    BY <1>1, <2>2, <2>3, <2>4, <2>5
<1>3. IsFiniteSet(P)
  <2>1. IsFiniteSet(AllVrfs)
    BY VrfsAssumption, FS_AddElement DEF AllVrfs
  <2>2. IsFiniteSet(AllVrfs \X Peers)
    BY <2>1, PeersAssumption, FS_Product
  <2>3. P \subseteq AllVrfs \X Peers
    BY <1>2
  <2>4. QED
    BY <2>2, <2>3, FS_Subset
<1>4. ASSUME NEW x \in P, NEW y \in P, StateOf(t, x) = StateOf(t, y)
      PROVE  x = y
  <2>1. /\ LabelNames["bfdPeerState"] = <<"local", "peer", "iface", "vrf">>
        /\ "local" # "peer" /\ "local" # "iface" /\ "local" # "vrf" /\ "peer" # "iface"
        /\ "peer" # "vrf" /\ "iface" # "vrf"
    BY DEF LabelNames
  <2>2. ASSUME NEW z
        PROVE  /\ StateOf(t, z).label["local"] = <<"local", z[2][1]>>
               /\ StateOf(t, z).label["peer"] = <<"peer", z[2][2]>>
               /\ StateOf(t, z).label["iface"] = <<"iface", z[2][3]>>
               /\ StateOf(t, z).label["vrf"] = <<"vrf", z[1]>>
    <3>1. PICK s : s = IF t[z[1]][z[2]].status = "up" THEN 1 ELSE 0
      OBVIOUS
    <3>2. StateOf(t, z) = Metric("bfdPeerState", << <<"local", z[2][1]>>, <<"peer", z[2][2]>>,
                                                  <<"iface", z[2][3]>>, <<"vrf", z[1]>> >>, s)
      BY <3>1 DEF StateOf, PeerValues
    <3>3. QED
      BY <2>1, <3>2, Label4
  <2>3. /\ <<"local", x[2][1]>> = <<"local", y[2][1]>> /\ <<"peer", x[2][2]>> = <<"peer", y[2][2]>>
        /\ <<"iface", x[2][3]>> = <<"iface", y[2][3]>> /\ <<"vrf", x[1]>> = <<"vrf", y[1]>>
    <3>1. PICK m : m = StateOf(t, x) /\ m = StateOf(t, y)
      BY <1>4
    <3>2. /\ m.label["local"] = <<"local", x[2][1]>> /\ m.label["peer"] = <<"peer", x[2][2]>>
          /\ m.label["iface"] = <<"iface", x[2][3]>> /\ m.label["vrf"] = <<"vrf", x[1]>>
      BY <2>2, <3>1
    <3>3. /\ m.label["local"] = <<"local", y[2][1]>> /\ m.label["peer"] = <<"peer", y[2][2]>>
          /\ m.label["iface"] = <<"iface", y[2][3]>> /\ m.label["vrf"] = <<"vrf", y[1]>>
      BY <2>2, <3>1
    <3>4. QED
      BY <3>2, <3>3
  <2>4. /\ x[2][1] = y[2][1] /\ x[2][2] = y[2][2] /\ x[2][3] = y[2][3] /\ x[1] = y[1]
    BY <2>3
  <2>5. x[2] = y[2]
    <3>1. \A i \in 1 .. 3 : x[2][i] = y[2][i]
      BY <2>4
    <3>2. t[x[1]] \in Contents.bfd /\ x[2] \in DOMAIN t[x[1]] /\ y[2] \in DOMAIN t[x[1]]
      BY <1>2, <2>4
    <3>3. QED
      BY <3>1, <3>2 DEF DistinctSessions
  <2>6. QED
    BY <1>2, <2>4, <2>5
<1>5. f \in Bijection(P, T)
  <2>1. f \in Injection(P, T)
    BY <1>4 DEF Injection, IsInjective
  <2>2. f \in Surjection(P, T)
    BY DEF Surjection
  <2>3. QED
    BY <2>1, <2>2 DEF Bijection
<1>6. Cardinality(T) = Cardinality(P)
  BY <1>3, <1>5, FS_Bijection DEF ExistsBijection
<1>7. QED
  BY <1>6 DEF CountOfAll, Pairs

\* CompleteOnSuccess: if Update returns nil, each VRF that was there all the
\* time is reported in full in every address family whose answer was not mistyped,
\* with what it held at some moment, and, if no two BFD sessions of a VRF differ in
\* being multihop only, the count of BFD peers is that of the peers listed.
THEOREM NothingLeftOut ==
  ASSUME DistinctSessions
  PROVE  Spec => []CompleteOnSuccess
<1>1. Init => Counted
  BY DEF Init, Counted
<1>2. Base /\ Rep /\ Counted => CompleteOnSuccess
  <2> SUFFICES ASSUME Base, Rep, Counted, pc = "ok" PROVE CompleteOnSuccess
    BY DEF CompleteOnSuccess
  <2>1. ASSUME NEW v \in stayed, NEW i \in 1 .. Wanted, ~Misread(i)
        PROVE  \E c \in had[v] : Reported(v, Afis[i], c)
    <3>1. ~Pending(v, i)
      BY WantedFacts DEF Rep, Finished, Pending
    <3>2. QED
      BY <2>1, <3>1 DEF Rep, AllReported
  <2>2. ASSUME NEW m \in sent, m.family = "bfdPeerCount"
        PROVE  m.value = Cardinality({n \in sent : n.family = "bfdPeerState"})
    <3>1. collector = "bfd"
      BY <2>2 DEF Counted
    <3>2. PICK t : t = answers[1].table
      OBVIOUS
    <3>3. /\ t \in Tables /\ DOMAIN left = {} /\ m.value = CountOfAll(t)
          /\ States(sent) = {StateOf(t, x) : x \in Pairs(t, DOMAIN t \ DOMAIN left)}
      BY <2>2, <3>1, <3>2 DEF Counted
    <3>4. DOMAIN t \ DOMAIN left = DOMAIN t
      BY <3>3
    <3>5. QED
      BY <3>1, <3>3, <3>4, StatesAreCounted DEF States
  <2>3. QED
    BY <2>1, <2>2 DEF CompleteOnSuccess
<1>3. QED
  BY <1>1, <1>2, BaseInit, StepsKeepBase, RepInit, StepsKeepRep, StepsKeepCounted, PTL DEF Spec

-----------------------------------------------------------------------------
(* The uptimes of PIM and the count that comes after them.                 *)

\* The uptimes that were sent without a count of the neighbours of their VRF.
Lacking == {m \in sent : m.family = "upTime" /\ ~HasCount(m.label.vrf[2])}

\* There are some only after a failure, and then only those of the VRF it was in.
Contained ==
  /\ pc # "err" => Lacking = {}
  /\ \A m, n \in Lacking : m.label.vrf = n.label.vrf

\* A count stays sent.
LEMMA CountKept ==
  ASSUME sent \subseteq sent'
  PROVE  \A vrf : HasCount(vrf) => HasCount(vrf)'
<1>1. \A f, b : Has(f, b) => Has(f, b)'
  BY DEF Has
<1>2. QED
  BY <1>1 DEF HasCount

\* Steps that send each uptime, if any, with the count of its VRF.
LEMMA SendContained ==
  ASSUME Contained, pc # "err", sent \subseteq sent',
         \A m \in sent' \ sent : m.family = "upTime" => HasCount(m.label.vrf[2])'
  PROVE  Contained'
<1>1. Lacking' = {}
  BY CountKept DEF Contained, Lacking
<1>2. QED
  BY <1>1 DEF Contained

\* The uptimes of a VRF carry it, in lower case.
LEMMA UpTimesOf ==
  ASSUME NEW v, NEW c, NEW m \in UpTimes(v, c)
  PROVE  m.label.vrf = <<"vrf", Lower[v]>>
<1>1. PICK n : m = Metric("upTime", << <<"vrf", Lower[v]>>, <<"iface", Lower[n[1]]>>,
                                       <<"neighbor", n[2]>> >>, c[n])
  BY DEF UpTimes
<1>2. /\ LabelNames["upTime"] = <<"vrf", "iface", "neighbor">>
      /\ "vrf" # "iface" /\ "vrf" # "neighbor" /\ "iface" # "neighbor"
  BY DEF LabelNames
<1>3. m.label["vrf"] = <<"vrf", Lower[v]>>
  BY <1>1, <1>2, Label3
<1>4. QED
  BY <1>3

\* What is sent of a whole VRF has the count of it.
LEMMA VrfCounted ==
  ASSUME collector \in Names, NEW afi, NEW v \in AllVrfs, NEW c,
         MetricsOf(afi, v, c) \subseteq sent', NEW m \in MetricsOf(afi, v, c),
         m.family = "upTime"
  PROVE  HasCount(m.label.vrf[2])'
<1>1. collector = "pim"
  BY NoCountOfVrf
<1>2. m \in PimMetrics(v, c) /\ Metric("neighborCount", << <<"vrf", v>> >>, NeighborCount(c)) \in sent'
  BY <1>1 DEF MetricsOf, PimMetrics
<1>3. LabelNames["neighborCount"] = <<"vrf">>
  BY DEF LabelNames
<1>4. PICK k \in sent' : k.family = "neighborCount" /\ DOMAIN k.label = {"vrf"} /\ k.label["vrf"] = <<"vrf", v>>
  BY <1>2, <1>3, Label1
<1>5. k.label["vrf"][2] = v
  BY <1>4
<1>6. Has("neighborCount", [vrf |-> v])'
  BY <1>4, <1>5 DEF Has
<1>7. m.label.vrf = <<"vrf", Lower[v]>>
  <2>1. m \in UpTimes(v, c)
    <3>1. m.family # Metric("neighborCount", << <<"vrf", v>> >>, NeighborCount(c)).family
      BY DEF Metric
    <3>2. QED
      BY <1>2, <3>1 DEF PimMetrics
  <2>2. QED
    BY <2>1, UpTimesOf
<1>8. QED
  BY <1>6, <1>7 DEF HasCount

\* The failing step of pim sends uptimes of one VRF; before it all had a count.
LEMMA EmitContained == \A v \in AllVrfs : Base /\ Contained /\ Emit(v) => Contained'
<1> SUFFICES ASSUME NEW v \in AllVrfs, Base, Contained, Emit(v) PROVE Contained'
  OBVIOUS
<1>0. pc = "emit" /\ collector \in Names
  BY DEF Emit, Base, Types
<1>1. CASE Send(MetricsOf(Afis[at], v, left[v]), SameLabels(left[v]))
  <2>1. sent' = sent \cup MetricsOf(Afis[at], v, left[v])
    BY <1>1 DEF Send
  <2>2. \A m \in MetricsOf(Afis[at], v, left[v]) : m.family = "upTime" => HasCount(m.label.vrf[2])'
    BY <1>0, <2>1, VrfCounted
  <2>3. QED
    BY <1>0, <2>1, <2>2, SendContained
<1>2. ASSUME NEW some \in SUBSET UpTimes(v, left[v]), NEW rep, Send(some, rep), pc' = "err"
      PROVE  Contained'
  <2>1. Lacking = {} /\ sent' = sent \cup some
    BY <1>0, <1>2 DEF Contained, Send
  <2>2. \A m \in Lacking' : m \in some
    BY <2>1, CountKept DEF Lacking
  <2>3. \A m \in some : m.label.vrf = <<"vrf", Lower[v]>>
    BY UpTimesOf
  <2>4. QED
    BY <1>2, <2>2, <2>3 DEF Contained
<1>3. QED
  BY <1>1, <1>2, EmitCases

\* Every step keeps it.
LEMMA StepsKeepContained == Base /\ Contained /\ [Next]_vars => Contained'
<1> SUFFICES ASSUME Base, Contained, [Next]_vars PROVE Contained'
  OBVIOUS
<1>0. collector \in Names
  BY DEF Base, Types
<1>1. ASSUME sent' = sent, pc # "err" PROVE Contained'
  BY <1>1, SendContained
<1>2. CASE Returned \/ UNCHANGED vars
  <2>1. sent' = sent /\ pc' = pc
    BY <1>2 DEF Returned, vars, outVars
  <2>2. \A f, b : Has(f, b)' <=> Has(f, b)
    BY <2>1 DEF Has
  <2>3. \A vrf : HasCount(vrf)' <=> HasCount(vrf)
    BY <2>2 DEF HasCount
  <2>4. Lacking' = Lacking
    BY <2>1, <2>3 DEF Lacking
  <2>5. QED
    BY <2>1, <2>4 DEF Contained
<1>3. CASE Change \/ EndAnswer \/ ListVrfs \/ EndList
  BY <1>1, <1>3 DEF Change, EndAnswer, ListVrfs, EndList, outVars
<1>4. ASSUME pc # "err", NEW new, sent' = sent \cup new, \A m \in new : m.family # "upTime"
      PROVE  Contained'
  BY <1>4, SendContained
<1>5. CASE AskAll \/ Process
  <2>1. pc # "err"
    BY <1>5 DEF AskAll, Process
  <2>2. ASSUME NEW t PROVE \A m \in FirstMetrics(t) : m.family # "upTime"
    BY DEF FirstMetrics, Metric
  <2>3. \A m \in Down \cup RouteMetrics(Afis[at], "default", NoRoutes) : m.family # "upTime"
    BY NoneOfThem
  <2>4. CASE sent' = sent
    BY <1>1, <2>1, <2>4
  <2>5. CASE sent' = sent \cup Down
    BY <1>4, <2>1, <2>3, <2>5
  <2>6. CASE sent' = sent \cup RouteMetrics(Afis[at], "default", NoRoutes)
    BY <1>4, <2>1, <2>3, <2>6
  <2>7. CASE sent' = sent \cup FirstMetrics(answers[at].table)
    BY <1>4, <2>1, <2>2, <2>7
  <2>8. QED
    BY <1>5, <2>4, <2>5, <2>6, <2>7 DEF AskAll, Process, Fail, Send, outVars
<1>6. CASE AskOne
  <2>1. pc # "err" /\ collector # "pim" /\ toAsk # <<>>
    BY <1>6 DEF AskOne, Base, Progress
  <2>2. PICK v : v = Head(toAsk)
    OBVIOUS
  <2>3. sent' = sent \/ sent' = sent \cup MetricsOf(Afis[at], v, frr[v])
    BY <1>6, <2>2 DEF AskOne, Answer, Empty, Send, outVars
  <2>4. \A m \in MetricsOf(Afis[at], v, frr[v]) : m.family # "upTime"
    BY <1>0, <2>1, NoCountOfVrf
  <2>5. QED
    BY <1>1, <1>4, <2>1, <2>3, <2>4
<1>7. QED
  BY <1>2, <1>3, <1>5, <1>6, EmitContained DEF Next, Update

\* FailureContained: bfd and vrrp that fail have sent nothing, route sends nothing
\* before both address families were answered, status never fails; and uptimes of
\* PIM lack the count of their VRF only if pim failed, in one VRF.
THEOREM FailsContained == Spec => []FailureContained
<1>1. Init => Contained
  BY DEF Init, Contained, Lacking
<1>2. Base /\ Contained => FailureContained
  <2> SUFFICES ASSUME Base, Contained PROVE FailureContained
    OBVIOUS
  <2>1. FailureSendsNothing
    BY DEF Base, Silent
  <2>2. UpTimesCounted
    BY DEF UpTimesCounted, Contained, Lacking
  <2>3. QED
    BY <2>1, <2>2 DEF FailureContained
<1>3. QED
  BY <1>1, <1>2, BaseInit, StepsKeepBase, StepsKeepContained, PTL DEF Spec

-----------------------------------------------------------------------------
(* Update keeps its promise, and comes to its end.                         *)

\* A step of a run that has not returned adds to what was sent at most, one
\* after it returned changes nothing that the caller sees.
LEMMA PromiseStep ==
  ASSUME (pc \notin {"ok", "err"} /\ sent \subseteq sent') \/ UNCHANGED <<pc, sent>>
  PROVE  [Promise!Next]_<<Outcome, Output>>
<1>1. CASE UNCHANGED <<pc, sent>>
  <2>1. Outcome' = Outcome /\ Output' = Output
    BY <1>1 DEF Outcome, Output, Runs
  <2>2. QED
    BY <2>1
<1>2. CASE pc \notin {"ok", "err"} /\ sent \subseteq sent'
  <2> DEFINE u == "update"
  <2>1. /\ Runs = {u}
        /\ Outcome = [r \in {u} |-> Outcome[u]] /\ Outcome' = [r \in {u} |-> Outcome'[u]]
        /\ Output = [r \in {u} |-> sent] /\ Output' = [r \in {u} |-> sent']
        /\ Outcome[u] = "running" /\ Outcome'[u] \in {"running", "ok", "err"}
    BY <1>2 DEF Outcome, Output, Runs
  <2>2. Promise!Adds(u)
    BY <1>2, <2>1 DEF Promise!Adds
  <2>3. CASE Outcome'[u] = "running"
    <3>1. Outcome' = Outcome
      BY <2>1, <2>3
    <3>2. Promise!Send(u)
      BY <2>1, <2>2, <3>1 DEF Promise!Send
    <3>3. QED
      BY <2>1, <3>2 DEF Promise!Next
  <2>4. CASE Outcome'[u] \in {"ok", "err"}
    <3>1. Outcome' = [Outcome EXCEPT ![u] = Outcome'[u]]
      BY <2>1
    <3>2. Promise!Return(u)
      BY <2>1, <2>2, <2>4, <3>1 DEF Promise!Return, Promise!Results
    <3>3. QED
      BY <2>1, <3>2 DEF Promise!Next
  <2>5. QED
    BY <2>1, <2>3, <2>4
<1>3. QED
  BY <1>1, <1>2

\* Update takes nothing back and sends nothing when it has returned.  That it
\* does return is what AlwaysProgress and UpdateEnds are about, further below.
THEOREM PromiseKept == Spec => Promise!Init /\ [][Promise!Next]_<<Outcome, Output>>
<1>1. Init => Promise!Init
  BY DEF Init, Promise!Init, Outcome, Output, Runs
<1>2. [Next]_vars => [Promise!Next]_<<Outcome, Output>>
  <2> SUFFICES ASSUME [Next]_vars PROVE [Promise!Next]_<<Outcome, Output>>
    OBVIOUS
  <2>1. CASE Update
    <3>1. pc \notin {"ok", "err"}
      BY <2>1 DEF Update, AskAll, Process, Emit, EndAnswer, ListVrfs, AskOne, EndList
    <3>2. sent \subseteq sent'
      <4>1. Fail => sent \subseteq sent'
        BY FailCases DEF Send, outVars
      <4>2. QED
        BY <2>1, <4>1 DEF Update, AskAll, Process, Emit, EndAnswer, ListVrfs, AskOne, EndList,
           Answer, Empty, Send, outVars
    <3>3. QED
      BY <3>1, <3>2, PromiseStep
  <2>2. CASE Change \/ Returned \/ UNCHANGED vars
    BY <2>2, PromiseStep DEF Change, Returned, vars, outVars
  <2>3. QED
    BY <2>1, <2>2 DEF Next
<1>3. QED
  BY <1>1, <1>2, PTL DEF Spec

\* A list without a VRF twice has the first one only there.
LEMMA FirstOnce ==
  ASSUME NEW s \in Seq(AllVrfs), s # <<>>, Distinct(s)
  PROVE  /\ Distinct(Tail(s)) /\ Head(s) \in AllVrfs
         /\ \E i \in DOMAIN s : s[i] = Head(s)
         /\ \A i \in DOMAIN Tail(s) : /\ Tail(s)[i] # Head(s)
                                      /\ \E j \in DOMAIN s : s[j] = Tail(s)[i]
<1>1. /\ Head(s) \in AllVrfs /\ 1 \in DOMAIN s /\ s[1] = Head(s)
      /\ \A i \in DOMAIN Tail(s) : i + 1 \in DOMAIN s /\ Tail(s)[i] = s[i + 1] /\ i \in Nat \ {0}
  OBVIOUS
<1>2. \A i \in DOMAIN Tail(s) : Tail(s)[i] # Head(s)
  <2> SUFFICES ASSUME NEW i \in DOMAIN Tail(s), Tail(s)[i] = Head(s) PROVE FALSE
    OBVIOUS
  <2>1. i + 1 = 1
    BY <1>1 DEF Distinct
  <2>2. QED
    BY <1>1, <2>1
<1>3. Distinct(Tail(s))
  <2> SUFFICES ASSUME NEW i \in DOMAIN Tail(s), NEW j \in DOMAIN Tail(s), Tail(s)[i] = Tail(s)[j]
               PROVE  i = j
    BY DEF Distinct
  <2>1. i + 1 = j + 1
    BY <1>1 DEF Distinct
  <2>2. QED
    BY <1>1, <2>1
<1>4. QED
  BY <1>1, <1>2, <1>3

\* No VRF comes twice in the list, however the VRFs are spelt.
LEMMA EachOnceKept == Base /\ EachOnce /\ [Next]_vars => EachOnce'
<1> SUFFICES ASSUME Base, EachOnce, [Next]_vars PROVE EachOnce'
  OBVIOUS
<1>1. CASE ListVrfs
  <2>1. collector \in {"route", "rpki"}
    BY <1>1 DEF ListVrfs, Base, Progress
  <2>2. pc' = "one" => Distinct(toAsk')
    BY <1>1, <2>1, TheList DEF ListVrfs
  <2>3. QED
    BY <2>2 DEF EachOnce, Distinct
<1>2. CASE AskOne
  <2>1. toAsk \in Seq(AllVrfs) /\ toAsk # <<>> /\ Distinct(toAsk)
    BY <1>2 DEF AskOne, Base, Types, EachOnce
  <2>2. pc' = "err" \/ toAsk' = Tail(toAsk)
    BY <1>2 DEF AskOne, GoneIsError, NextVrf
  <2>3. pc' = "err" \/ Distinct(toAsk')
    BY <2>1, <2>2, FirstOnce
  <2>4. QED
    BY <2>3 DEF EachOnce, Distinct
<1>3. CASE ~ListVrfs /\ ~AskOne
  <2>1. toAsk' = toAsk /\ (pc' = "one" => pc = "one")
    BY <1>3, FailCases DEF Next, Change, Returned, vars, Update, AskAll, Process, Emit, EndAnswer,
       EndList, Proceed
  <2>2. QED
    BY <2>1 DEF EachOnce, Distinct
<1>4. QED
  BY <1>1, <1>2, <1>3

LEMMA OnceInvariance == Spec => [](Base /\ EachOnce)
<1>1. Init => EachOnce
  BY DEF Init, EachOnce
<1>2. QED
  BY <1>1, BaseInit, StepsKeepBase, EachOnceKept, PTL DEF Spec

\* What is ahead, in its parts.
AskAhead  == {i \in Open : pc = "all" /\ i > Len(answers)}
StepAhead == {x \in Open \X {"process", "list", "end"} : x[1] = at => x[2] \in StepsFrom}
VrfAhead  == {x \in Open \X AllVrfs : x[1] = at => x[2] \in VrfsFrom}

\* Less in one part and no more in the others is less.
LEMMA LessAhead ==
  ASSUME AskAhead' \subseteq AskAhead, StepAhead' \subseteq StepAhead, VrfAhead' \subseteq VrfAhead,
         AskAhead' # AskAhead \/ StepAhead' # StepAhead \/ VrfAhead' # VrfAhead
  PROVE  Ahead' \subseteq Ahead /\ Ahead' # Ahead
<1>1. /\ Ahead = ({"ask"} \X AskAhead) \cup ({"step"} \X StepAhead) \cup ({"vrf"} \X VrfAhead)
      /\ Ahead' = ({"ask"} \X AskAhead') \cup ({"step"} \X StepAhead') \cup ({"vrf"} \X VrfAhead')
  BY DEF Ahead, AskAhead, StepAhead, VrfAhead
<1>2. /\ \A x : <<"ask", x>> \in Ahead <=> x \in AskAhead
      /\ \A x : <<"step", x>> \in Ahead <=> x \in StepAhead
      /\ \A x : <<"vrf", x>> \in Ahead <=> x \in VrfAhead
  BY <1>1
<1>3. /\ \A x : <<"ask", x>> \in Ahead' <=> x \in AskAhead'
      /\ \A x : <<"step", x>> \in Ahead' <=> x \in StepAhead'
      /\ \A x : <<"vrf", x>> \in Ahead' <=> x \in VrfAhead'
  BY <1>1
<1>4. Ahead' \subseteq Ahead
  BY <1>1
<1>5. Ahead' # Ahead
  BY <1>2, <1>3
<1>6. QED
  BY <1>4, <1>5

\* The positions, and that the answer in question is open until the return.
LEMMA Positions ==
  ASSUME Base
  PROVE  /\ Wanted \in {1, 2} /\ at \in 1 .. Wanted /\ Len(answers) \in Nat
         /\ DOMAIN left \subseteq AllVrfs /\ toAsk \in Seq(AllVrfs)
         /\ pc \notin {"ok", "err"} => at \in Open /\ <<at, "end">> \in StepAhead
<1>1. /\ Wanted \in {1, 2} /\ at \in 1 .. Wanted /\ answers \in Seq(Answers)
      /\ DOMAIN left \subseteq AllVrfs /\ toAsk \in Seq(AllVrfs)
  BY TableFacts DEF Base, Types, Wanted
<1>2. pc \notin {"ok", "err"} => at \in Open
  BY <1>1 DEF Open
<1>3. "end" \in StepsFrom
  BY DEF StepsFrom
<1>4. QED
  BY <1>1, <1>2, <1>3 DEF StepAhead

\* To return, with an error or without, leaves nothing ahead.
LEMMA ReturnCounts ==
  ASSUME Base, pc \notin {"ok", "err"}, pc' \in {"ok", "err"}
  PROVE  Ahead' \subseteq Ahead /\ Ahead' # Ahead
<1>1. Open' = {}
  BY DEF Open
<1>2. AskAhead' = {} /\ StepAhead' = {} /\ VrfAhead' = {}
  BY <1>1 DEF AskAhead, StepAhead, VrfAhead
<1>3. StepAhead # {}
  BY Positions
<1>4. QED
  BY <1>2, <1>3, LessAhead

\* A step within the processing of an answer, after all commands were sent.
LEMMA WithinCounts ==
  ASSUME Base, UNCHANGED <<settings, answers, at>>,
         pc \notin {"all", "ok", "err"}, pc' \notin {"all", "ok", "err"},
         StepsFrom' \subseteq StepsFrom, VrfsFrom' \subseteq VrfsFrom, VrfsFrom \subseteq AllVrfs,
         StepsFrom \subseteq {"process", "list", "end"},
         StepsFrom' # StepsFrom \/ VrfsFrom' # VrfsFrom
  PROVE  Ahead' \subseteq Ahead /\ Ahead' # Ahead
<1>1. Open' = Open
  BY SettingsKept DEF Open
<1>2. AskAhead' = {} /\ AskAhead = {}
  BY DEF AskAhead
<1>3. StepAhead' \subseteq StepAhead /\ VrfAhead' \subseteq VrfAhead
  BY <1>1 DEF StepAhead, VrfAhead
<1>4. at \in Open
  BY Positions
<1>5. /\ \A k \in StepsFrom : <<at, k>> \in StepAhead
      /\ \A k : <<at, k>> \in StepAhead' => k \in StepsFrom'
  BY <1>1, <1>4 DEF StepAhead
<1>6. /\ \A v \in VrfsFrom : <<at, v>> \in VrfAhead
      /\ \A v : <<at, v>> \in VrfAhead' => v \in VrfsFrom'
  BY <1>1, <1>4 DEF VrfAhead
<1>7. StepAhead' # StepAhead \/ VrfAhead' # VrfAhead
  BY <1>5, <1>6
<1>8. QED
  BY <1>2, <1>3, <1>7, LessAhead

\* A command over all VRFs is behind.
LEMMA AskAllCounts ==
  ASSUME Base, AskAll
  PROVE  Ahead' \subseteq Ahead /\ Ahead' # Ahead
<1>1. pc = "all" /\ at' = at /\ UNCHANGED settings
  BY DEF AskAll
<1>2. CASE pc' \in {"ok", "err"}
  BY <1>1, <1>2, ReturnCounts
<1>3. CASE pc' \notin {"ok", "err"}
  <2>1. PICK a : answers' = Append(answers, a)
    BY <1>3, FailCases DEF AskAll
  <2>2. pc' \in {"all", "process"}
    BY <1>3, FailCases DEF AskAll
  <2>3. answers \in Seq(Answers) /\ Len(answers) < Wanted /\ at = 1 /\ Wanted \in {1, 2}
    BY <1>1, Positions DEF Base, Types, Progress
  <2>4. Len(answers') = Len(answers) + 1 /\ Len(answers) \in Nat
    BY <2>1, <2>3
  <2>5. Open' = Open /\ Len(answers) + 1 \in Open
    BY <1>1, <2>2, <2>3, <2>4, SettingsKept DEF Open
  <2>6. StepAhead' = StepAhead /\ VrfAhead' = VrfAhead
    <3>1. StepsFrom' = StepsFrom /\ VrfsFrom' = VrfsFrom
      BY <1>1, <2>2 DEF StepsFrom, VrfsFrom
    <3>2. QED
      BY <1>1, <2>5, <3>1 DEF StepAhead, VrfAhead
  <2>7. \A i \in Open : i \in Int
    BY <2>3 DEF Open
  <2>8. /\ AskAhead' \subseteq AskAhead
        /\ Len(answers) + 1 \in AskAhead /\ Len(answers) + 1 \notin AskAhead'
    BY <1>1, <2>4, <2>5, <2>7 DEF AskAhead
  <2>9. QED
    BY <2>6, <2>8, LessAhead
<1>4. QED
  BY <1>2, <1>3

\* An answer was decoded, or has to be replaced by answers for each VRF.
LEMMA ProcessCounts ==
  ASSUME Base, Process
  PROVE  Ahead' \subseteq Ahead /\ Ahead' # Ahead
<1>1. pc = "process" /\ pc' \in {"emit", "list", "ok", "err"} /\ UNCHANGED <<settings, answers, at>>
  BY FailCases DEF Process
<1>2. CASE pc' \in {"ok", "err"}
  BY <1>1, <1>2, ReturnCounts
<1>3. CASE pc' \in {"emit", "list"}
  <2>1. DOMAIN left' \subseteq AllVrfs
    <3>1. left' \in Tables
      BY <1>1, ProcessBase, SettingsKept DEF Base, Types
    <3>2. QED
      BY <3>1, TableFacts
  <2>2. /\ StepsFrom = {"process", "list", "end"} /\ StepsFrom' \subseteq {"list", "end"}
        /\ VrfsFrom = AllVrfs /\ VrfsFrom' \subseteq AllVrfs
    BY <1>1, <1>3, <2>1 DEF StepsFrom, VrfsFrom
  <2>3. QED
    BY <1>1, <1>3, <2>2, WithinCounts
<1>4. QED
  BY <1>1, <1>2, <1>3

\* A VRF of the answer was turned into metrics.
LEMMA EmitCounts ==
  ASSUME Base, NEW v \in AllVrfs, Emit(v)
  PROVE  Ahead' \subseteq Ahead /\ Ahead' # Ahead
<1>1. /\ pc = "emit" /\ v \in DOMAIN left /\ UNCHANGED <<settings, answers, at>>
      /\ pc' = "err" \/ (pc' = "emit" /\ left' = [w \in DOMAIN left \ {v} |-> left[w]])
  BY DEF Emit
<1>2. CASE pc' = "err"
  BY <1>1, <1>2, ReturnCounts
<1>3. CASE pc' = "emit" /\ left' = [w \in DOMAIN left \ {v} |-> left[w]]
  <2>1. /\ StepsFrom = {"end"} /\ StepsFrom' = {"end"}
        /\ VrfsFrom = DOMAIN left /\ VrfsFrom' = DOMAIN left \ {v}
    BY <1>1, <1>3 DEF StepsFrom, VrfsFrom
  <2>2. QED
    BY <1>1, <1>3, <2>1, WithinCounts, Positions
<1>4. QED
  BY <1>1, <1>2, <1>3

\* The VRFs were listed; the list has none that was not ahead.
LEMMA ListCounts ==
  ASSUME Base, ListVrfs
  PROVE  Ahead' \subseteq Ahead /\ Ahead' # Ahead
<1>1. pc = "list" /\ pc' \in {"one", "err"} /\ UNCHANGED <<settings, answers, at>>
  BY DEF ListVrfs
<1>2. CASE pc' = "err"
  BY <1>1, <1>2, ReturnCounts
<1>3. CASE pc' = "one"
  <2>1. toAsk' \in Seq(AllVrfs)
    BY ListVrfsBase DEF Base, Types, AllVrfs
  <2>2. /\ StepsFrom = {"list", "end"} /\ StepsFrom' = {"end"}
        /\ VrfsFrom = AllVrfs /\ VrfsFrom' \subseteq AllVrfs
    BY <1>1, <1>3, <2>1 DEF StepsFrom, VrfsFrom
  <2>3. QED
    BY <1>1, <1>3, <2>2, WithinCounts
<1>4. QED
  BY <1>1, <1>2, <1>3

\* A VRF of the list was asked, and is not in the list again.
LEMMA AskOneCounts ==
  ASSUME Base, EachOnce, AskOne
  PROVE  Ahead' \subseteq Ahead /\ Ahead' # Ahead
<1>1. /\ pc = "one" /\ toAsk # <<>> /\ UNCHANGED <<settings, answers, at>>
      /\ pc' = "err" \/ (pc' = "one" /\ toAsk' = Tail(toAsk))
  BY DEF AskOne, NextVrf, GoneIsError
<1>2. CASE pc' = "err"
  BY <1>1, <1>2, ReturnCounts
<1>3. CASE pc' = "one" /\ toAsk' = Tail(toAsk)
  <2>1. toAsk \in Seq(AllVrfs) /\ Distinct(toAsk)
    BY <1>1, Positions DEF EachOnce
  <2>2. /\ StepsFrom = {"end"} /\ StepsFrom' = {"end"}
        /\ VrfsFrom = {toAsk[i] : i \in DOMAIN toAsk}
        /\ VrfsFrom' = {Tail(toAsk)[i] : i \in DOMAIN Tail(toAsk)}
    BY <1>1, <1>3 DEF StepsFrom, VrfsFrom
  <2>3. /\ VrfsFrom' \subseteq VrfsFrom /\ VrfsFrom \subseteq AllVrfs
        /\ Head(toAsk) \in VrfsFrom /\ Head(toAsk) \notin VrfsFrom'
    BY <1>1, <2>1, <2>2, FirstOnce
  <2>4. QED
    BY <1>1, <1>3, <2>2, <2>3, WithinCounts
<1>4. QED
  BY <1>1, <1>2, <1>3

\* An answer, or the list in its place, is done with.
LEMMA EndCounts ==
  ASSUME Base, EndAnswer \/ EndList
  PROVE  Ahead' \subseteq Ahead /\ Ahead' # Ahead
<1>1. /\ pc \in {"emit", "one"} /\ UNCHANGED <<settings, answers>>
      /\ pc' = "ok" \/ (pc' = "process" /\ at' = at + 1)
  BY DEF EndAnswer, EndList, Proceed
<1>2. CASE pc' = "ok"
  BY <1>1, <1>2, ReturnCounts
<1>3. CASE pc' = "process" /\ at' = at + 1
  <2>1. at \in Int /\ at \in Open /\ <<at, "end">> \in StepAhead
    BY <1>1, Positions
  <2>2. \A i \in Open : i \in Int
    BY DEF Open
  <2>3. Open' \subseteq Open \ {at}
    BY <1>1, <1>3, <2>1, SettingsKept DEF Open
  <2>4. AskAhead' = {} /\ AskAhead = {}
    BY <1>1, <1>3 DEF AskAhead
  <2>5. StepAhead' \subseteq StepAhead /\ VrfAhead' \subseteq VrfAhead /\ <<at, "end">> \notin StepAhead'
    BY <2>3 DEF StepAhead, VrfAhead
  <2>6. QED
    BY <2>1, <2>4, <2>5, LessAhead
<1>4. QED
  BY <1>1, <1>2, <1>3

\* Every step of Update takes something from what is ahead, of either kind of
\* FRR and for every collector, and no change of the VRFs adds anything to it.
THEOREM AlwaysProgress == Spec => EveryStepCounts
<1> DEFINE Counts == IF changes' = changes THEN Ahead' \subseteq Ahead /\ Ahead' # Ahead
                                           ELSE Ahead' = Ahead
<1>1. Base /\ EachOnce /\ [Next]_vars => Counts \/ UNCHANGED vars
  <2> SUFFICES ASSUME Base, EachOnce, [Next]_vars PROVE Counts \/ UNCHANGED vars
    OBVIOUS
  <2>1. CASE Change
    <3>1. changes \in Nat /\ changes' = changes + 1
      BY <2>1, BoundAssumption DEF Change, Base, Types
    <3>2. Ahead' = Ahead
      BY <2>1, SettingsKept DEF Change, Ahead, Open, StepsFrom, VrfsFrom
    <3>3. QED
      BY <3>1, <3>2
  <2>2. CASE Update
    <3>1. changes' = changes
      BY <2>2 DEF Update, AskAll, Process, Emit, EndAnswer, ListVrfs, AskOne, EndList, frrVars
    <3>2. QED
      BY <2>2, <3>1, AskAllCounts, ProcessCounts, EmitCounts, ListCounts, AskOneCounts, EndCounts
         DEF Update
  <2>3. QED
    BY <2>1, <2>2 DEF Next, Returned
<1>2. QED
  BY <1>1, OnceInvariance, PTL DEF Spec, EveryStepCounts

\* How much is ahead is a number, and each step of Update makes it smaller,
\* whatever FRR answers, and however its VRFs change.
THEOREM UpdateEnds ==
  Spec => [][/\ Cardinality(Ahead) \in Nat
             /\ IF changes' = changes THEN Cardinality(Ahead') < Cardinality(Ahead)
                                      ELSE Cardinality(Ahead') = Cardinality(Ahead)]_vars
<1> DEFINE Fewer == /\ Cardinality(Ahead) \in Nat
                    /\ IF changes' = changes THEN Cardinality(Ahead') < Cardinality(Ahead)
                                             ELSE Cardinality(Ahead') = Cardinality(Ahead)
           Counts == IF changes' = changes THEN Ahead' \subseteq Ahead /\ Ahead' # Ahead
                                           ELSE Ahead' = Ahead
<1>1. Base => IsFiniteSet(Ahead)
  <2> SUFFICES ASSUME Base PROVE IsFiniteSet(Ahead)
    OBVIOUS
  <2>1. IsFiniteSet(Open)
    <3>1. 1 \in Int /\ Wanted \in Int
      BY Positions
    <3>2. IsFiniteSet(1 .. Wanted)
      BY <3>1, FS_Interval, Zenon
    <3>3. QED
      BY <3>2, FS_Subset DEF Open
  <2>2. IsFiniteSet(AllVrfs)
    BY VrfsAssumption, FS_Singleton, FS_Union DEF AllVrfs
  <2>3. IsFiniteSet({"process", "list", "end"}) /\ IsFiniteSet({"ask", "step", "vrf"})
    <3>1. /\ IsFiniteSet({"process"} \cup {"list"} \cup {"end"})
          /\ IsFiniteSet({"ask"} \cup {"step"} \cup {"vrf"})
      BY FS_Singleton, FS_Union
    <3>2. /\ {"process"} \cup {"list"} \cup {"end"} = {"process", "list", "end"}
          /\ {"ask"} \cup {"step"} \cup {"vrf"} = {"ask", "step", "vrf"}
      OBVIOUS
    <3>3. QED
      BY <3>1, <3>2
  <2>4. IsFiniteSet(Open \cup (Open \X {"process", "list", "end"}) \cup (Open \X AllVrfs))
    BY <2>1, <2>2, <2>3, FS_Product, FS_Union
  <2>5. IsFiniteSet({"ask", "step", "vrf"}
                      \X (Open \cup (Open \X {"process", "list", "end"}) \cup (Open \X AllVrfs)))
    BY <2>3, <2>4, FS_Product
  <2>6. Ahead \subseteq {"ask", "step", "vrf"}
                          \X (Open \cup (Open \X {"process", "list", "end"}) \cup (Open \X AllVrfs))
    BY DEF Ahead
  <2>7. QED
    BY <2>5, <2>6, FS_Subset
<1>2. Base /\ Counts => Fewer
  <2> SUFFICES ASSUME Base, Counts PROVE Fewer
    OBVIOUS
  <2>1. IsFiniteSet(Ahead) /\ Cardinality(Ahead) \in Nat
    BY <1>1, FS_CardinalityType
  <2>2. CASE changes' = changes
    <3>1. Ahead' \subseteq Ahead /\ Ahead' # Ahead
      BY <2>2
    <3>2. /\ IsFiniteSet(Ahead') /\ Cardinality(Ahead') <= Cardinality(Ahead)
          /\ Cardinality(Ahead') = Cardinality(Ahead) => Ahead' = Ahead
      BY <2>1, <3>1, FS_Subset
    <3>3. Cardinality(Ahead') \in Nat
      BY <3>2, FS_CardinalityType
    <3>4. QED
      BY <2>1, <2>2, <3>1, <3>2, <3>3
  <2>3. CASE changes' # changes
    BY <2>1, <2>3
  <2>4. QED
    BY <2>2, <2>3
<1>3. Spec => [][Counts]_vars
  BY AlwaysProgress DEF EveryStepCounts
<1>4. QED
  BY <1>2, <1>3, OnceInvariance, PTL

=============================================================================
