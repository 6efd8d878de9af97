----------------------------- MODULE OspfProofs -----------------------------
(***************************************************************************)
(* Proofs about OspfCollector, for any lists of instances, any VRFs and    *)
(* any number of changes of FRR: what its runs send, and that they end.    *)
(***************************************************************************)
EXTENDS OspfCollector, FiniteSetTheorems, TLAPS

IInv == TypeOK /\ PanicsOnlyAtZero

-----------------------------------------------------------------------------
(* The two lists of a metric family.                                       *)

\* The label names there are.
LabelNames == {"instance", "vrf", "area", "iface", "neighbor",
               "local_address", "remote_address"}

\* The label values of an item of VRF v for instance id.
Items(v, id) ==
  {<<"vrf", Lower[v]>>, Area, <<"iface", v>>, <<"neighbor", v>>,
   <<"local_address", v>>, <<"remote_address", v>>, <<"instance", id>>}

\* The two lists are equally long, and at each place the value, a member of
\* S, is what the name announces.
Agree(names, values, S) ==
  /\ names \in Seq(LabelNames) /\ values \in Seq(S)
  /\ Len(values) = Len(names)
  /\ \A i \in 1 .. Len(names) : values[i][1] = names[i]

\* Lists that agree still do when a name and its value are added at the end.
LEMMA AgreeAppend ==
  ASSUME NEW S, NEW ns, NEW vs, NEW n \in LabelNames, NEW x \in S,
         Agree(ns, vs, S), x[1] = n
  PROVE  Agree(Append(ns, n), Append(vs, x), S)
<1>1. /\ Append(ns, n) \in Seq(LabelNames) /\ Append(vs, x) \in Seq(S)
      /\ Len(Append(ns, n)) = Len(ns) + 1 /\ Len(Append(vs, x)) = Len(ns) + 1
      /\ Len(ns) \in Nat
  BY DEF Agree
<1>2. ASSUME NEW i \in 1 .. Len(ns) + 1
      PROVE  Append(vs, x)[i][1] = Append(ns, n)[i]
  <2>1. CASE i \in 1 .. Len(ns)
    <3>1. Append(ns, n)[i] = ns[i] /\ Append(vs, x)[i] = vs[i]
      BY <2>1 DEF Agree
    <3>2. QED
      BY <2>1, <3>1 DEF Agree
  <2>2. CASE i = Len(ns) + 1
    <3>1. Append(ns, n)[i] = n /\ Append(vs, x)[i] = x
      BY <2>2 DEF Agree
    <3>2. QED
      BY <3>1
  <2>3. QED
    BY <1>1, <2>1, <2>2
<1>3. QED
  BY <1>1, <1>2 DEF Agree

\* They still do when a name and its value are put first.
LEMMA AgreePrepend ==
  ASSUME NEW S, NEW ns, NEW vs, NEW n \in LabelNames, NEW x \in S,
         Agree(ns, vs, S), x[1] = n
  PROVE  Agree(<<n>> \o ns, <<x>> \o vs, S)
<1>1. /\ <<n>> \o ns \in Seq(LabelNames) /\ <<x>> \o vs \in Seq(S)
      /\ Len(<<n>> \o ns) = Len(ns) + 1 /\ Len(<<x>> \o vs) = Len(ns) + 1
      /\ Len(ns) \in Nat
  BY DEF Agree
<1>2. ASSUME NEW i \in 1 .. Len(ns) + 1
      PROVE  (<<x>> \o vs)[i][1] = (<<n>> \o ns)[i]
  <2>1. CASE i = 1
    <3>1. (<<n>> \o ns)[i] = n /\ (<<x>> \o vs)[i] = x
      BY <2>1 DEF Agree
    <3>2. QED
      BY <3>1
  <2>2. CASE i - 1 \in 1 .. Len(ns)
    <3>1. (<<n>> \o ns)[i] = ns[i - 1] /\ (<<x>> \o vs)[i] = vs[i - 1]
      BY <2>2 DEF Agree
    <3>2. QED
      BY <2>2, <3>1 DEF Agree
  <2>3. QED
    BY <1>1, <2>1, <2>2
<1>3. QED
  BY <1>1, <1>2 DEF Agree

\* What every family has without an instance agrees, maxage included.
LEMMA PerVrfAgree ==
  ASSUME NEW f \in Families, NEW v \in Vrfs, NEW id
  PROVE  Agree(PerVrfNames[f], PerVrfValues(f, v), Items(v, id))
<1>1. CASE f = "router"
  <2>1. PerVrfNames[f] = <<"vrf">>
    BY <1>1 DEF PerVrfNames
  <2>2. PerVrfValues(f, v) = <<<<"vrf", Lower[v]>>>>
    BY <1>1 DEF PerVrfValues
  <2>3. QED
    BY <2>1, <2>2 DEF Agree, Items, Area, LabelNames
<1>2. CASE f = "area"
  <2>1. PerVrfNames[f] = <<"vrf", "area">>
    BY <1>2 DEF PerVrfNames
  <2>2. PerVrfValues(f, v) = <<<<"vrf", Lower[v]>>, Area>>
    BY <1>2 DEF PerVrfValues
  <2>3. QED
    BY <2>1, <2>2 DEF Agree, Items, Area, LabelNames
<1>3. CASE f = "iface"
  <2>1. PerVrfNames[f] = <<"vrf", "iface", "area">>
    BY <1>3 DEF PerVrfNames
  <2>2. PerVrfValues(f, v) = <<<<"vrf", Lower[v]>>, <<"iface", v>>, Area>>
    BY <1>3 DEF PerVrfValues
  <2>3. QED
    BY <2>1, <2>2 DEF Agree, Items, Area, LabelNames
<1>4. CASE f = "neigh"
  <2>1. PerVrfNames[f] = <<"vrf", "neighbor", "iface",
                         "local_address", "remote_address">>
    BY <1>4 DEF PerVrfNames
  <2>2. PerVrfValues(f, v) = <<<<"vrf", Lower[v]>>, <<"neighbor", v>>, <<"iface", v>>,
                              <<"local_address", v>>, <<"remote_address", v>>>>
    BY <1>4 DEF PerVrfValues
  <2>3. QED
    BY <2>1, <2>2 DEF Agree, Items, Area, LabelNames
<1>5. CASE f = "maxage"
  <2>1. PerVrfNames[f] = <<"vrf">>
    BY <1>5 DEF PerVrfNames
  <2>2. PerVrfValues(f, v) = <<<<"vrf", Lower[v]>>>>
    BY <1>5 DEF PerVrfValues
  <2>3. QED
    BY <2>1, <2>2 DEF Agree, Items, Area, LabelNames
<1>6. QED
  BY <1>1, <1>2, <1>3, <1>4, <1>5 DEF Families

\* In every family but maxage the label values follow the label names.
LEMMA ListsAgree ==
  ASSUME NEW f \in Families \ {"maxage"}, NEW v \in Vrfs, NEW id,
         id = 0 <=> instanceIDs = <<>>
  PROVE  Agree(Names(f), Values(f, v, id), Items(v, id))
<1>1. Agree(PerVrfNames[f], PerVrfValues(f, v), Items(v, id))
  BY PerVrfAgree
<1>2. /\ <<"instance", id>> \in Items(v, id) /\ <<"instance", id>>[1] = "instance"
      /\ "instance" \in LabelNames
  BY DEF Items, LabelNames
<1>3. CASE id = 0
  BY <1>1, <1>3 DEF Names, Values
<1>4. CASE id # 0 /\ f = "neigh"
  BY <1>1, <1>2, <1>4, AgreePrepend DEF Names, Values
<1>5. CASE id # 0 /\ f \in {"router", "area", "iface"}
  BY <1>1, <1>2, <1>5, AgreeAppend DEF Names, Values
<1>6. QED
  BY <1>3, <1>4, <1>5 DEF Families

\* In every family, maxage included, there are as many values as names.
LEMMA NoMismatch ==
  ASSUME NEW f \in Families, NEW v \in Vrfs, NEW id,
         id = 0 <=> instanceIDs = <<>>
  PROVE  ~Mismatch(f, v, id)
<1>1. CASE f # "maxage"
  BY <1>1, ListsAgree DEF Agree, Mismatch
<1>2. CASE f = "maxage"
  <2>1. Agree(PerVrfNames[f], PerVrfValues(f, v), Items(v, id))
    BY PerVrfAgree
  <2>2. CASE id = 0
    BY <1>2, <2>1, <2>2 DEF Mismatch, Names, Values, Agree
  <2>3. CASE id # 0
    <3>1. Len(Names(f)) = 1 + Len(PerVrfNames[f])
      BY <1>2, <2>1, <2>3 DEF Names, Agree, LabelNames
    <3>2. Len(Values(f, v, id)) = Len(PerVrfValues(f, v)) + 1
      BY <1>2, <2>1, <2>3 DEF Values, Agree, Items
    <3>3. QED
      BY <2>1, <3>1, <3>2 DEF Mismatch, Agree
  <2>4. QED
    BY <2>2, <2>3
<1>3. QED
  BY <1>1, <1>2

\* With a configured instance 0 every family has one value too few.
LEMMA ZeroMismatch ==
  ASSUME NEW f \in Families, NEW v \in Vrfs, instanceIDs # <<>>
  PROVE  Mismatch(f, v, 0)
<1>1. Agree(PerVrfNames[f], PerVrfValues(f, v), Items(v, 0))
  BY PerVrfAgree
<1>2. Len(Names(f)) = Len(PerVrfNames[f]) + 1
  BY <1>1 DEF Names, Agree, LabelNames
<1>3. QED
  BY <1>1, <1>2 DEF Mismatch, Values, Agree

\* So what is not a mismatch carries its instance, and has one if any is configured.
LEMMA MatchingLabelled ==
  ASSUME NEW f \in Families, NEW v \in Vrfs, NEW i
  PROVE  Mismatch(f, v, ID(i)) <=> ~Labelled(i)
<1>1. CASE instanceIDs = <<>>
  <2>1. ID(i) = 0
    BY <1>1 DEF ID
  <2>2. QED
    BY <1>1, <2>1, NoMismatch DEF Labelled
<1>2. CASE instanceIDs # <<>>
  BY <1>2, NoMismatch, ZeroMismatch DEF Labelled
<1>3. QED
  BY <1>1, <1>2

\* A series whose lists agree has every value under the name it belongs to.
LEMMA SeriesNamed ==
  ASSUME NEW f, NEW v, NEW id, NEW S, Agree(Names(f), Values(f, v, id), S),
         NEW n \in DOMAIN Series(f, v, id).label
  PROVE  Series(f, v, id).label[n][1] = n
<1> DEFINE at == CHOOSE i \in DOMAIN Names(f) : Names(f)[i] = n
<1>1. \E i \in DOMAIN Names(f) : Names(f)[i] = n
  BY DEF Series
<1>2. at \in DOMAIN Names(f) /\ Names(f)[at] = n
  BY <1>1
<1>3. Series(f, v, id).label[n] = Values(f, v, id)[at]
  BY DEF Series
<1>4. QED
  BY <1>2, <1>3 DEF Agree

-----------------------------------------------------------------------------
(* The invariant.                                                          *)

\* Initially the first question is to be asked of the first instance.
LEMMA InitIInv == Init => IInv
<1> SUFFICES ASSUME Init PROVE IInv
  OBVIOUS
<1>1. 1 \in 1 .. Rounds
  <2>1. instanceIDs \in Seq(Int)
    BY IDsAssumption DEF Init
  <2>2. QED
    BY <2>1 DEF Rounds
<1>2. 1 \in 1 .. Len(Steps)
  BY DEF Steps
<1>3. changes \in 0 .. MaxChanges
  BY BoundAssumption DEF Init
<1>4. pc \in {"query", "emit", "ok", "err", "panic"} /\ pc # "panic"
  BY DEF Init
<1>5. QED
  BY <1>1, <1>2, <1>3, <1>4 DEF Init, IInv, TypeOK, PanicsOnlyAtZero

\* Emitting the metrics of a VRF: none is sent without its instance, and if one
\* does not fit its description the instance is 0.
LEMMA EmitStep ==
  ASSUME IInv, NEW v \in Vrfs, Emit(v)
  PROVE  IInv'
<1>1. TypeOK /\ idx \in 1 .. Rounds /\ Held(v) \subseteq Families
  <2>1. step \in {1, 2, 3, 4}
    BY DEF IInv, TypeOK, Steps
  <2>2. Steps[step] \subseteq Families
    BY <2>1 DEF Steps, Families
  <2>3. QED
    BY <2>2 DEF IInv, TypeOK, Held
<1>2. instanceIDs' = instanceIDs /\ idx' = idx /\ pc = "emit"
  BY DEF Emit
<1>3. /\ AllSeries' = AllSeries /\ Rounds' = Rounds
      /\ \A i : ID(i)' = ID(i)
  BY <1>2 DEF AllSeries, Series, Names, Values, Rounds, ID, Labelled
<1>4. sent' \subseteq AllSeries
  <2> DEFINE new == {Series(f, v, ID(idx)) : f \in Held(v)}
  <2>1. CASE sent' = sent
    BY <1>1, <2>1 DEF TypeOK
  <2>2. CASE sent' = sent \cup new /\ \A f \in Held(v) : ~Mismatch(f, v, ID(idx))
    <3>1. \A f \in Held(v) : Labelled(idx)
      BY <1>1, <2>2, MatchingLabelled
    <3>2. new \subseteq AllSeries
      BY <1>1, <3>1 DEF AllSeries
    <3>3. QED
      BY <1>1, <2>2, <3>2 DEF TypeOK
  <2>3. QED
    BY <2>1, <2>2 DEF Emit
<1>5. answer' \subseteq Vrfs /\ again' \in BOOLEAN /\ pc' \in {"emit", "err", "panic"}
  BY <1>1, <1>2 DEF Emit, TypeOK
<1>6. PanicsOnlyAtZero'
  <2> SUFFICES ASSUME pc' = "panic" PROVE instanceIDs # <<>> /\ ID(idx) = 0
    BY <1>2, <1>3 DEF PanicsOnlyAtZero
  <2>1. PICK f \in Held(v) : Mismatch(f, v, ID(idx))
    BY <1>2 DEF Emit
  <2>2. ~Labelled(idx)
    BY <1>1, <2>1, MatchingLabelled
  <2>3. QED
    BY <2>2 DEF Labelled, ID
<1>7. QED
  BY <1>1, <1>2, <1>3, <1>4, <1>5, <1>6 DEF Emit, IInv, TypeOK, frrVars

\* Every step preserves the invariant.
LEMMA NextIInv == IInv /\ [Next]_vars => IInv'
<1> SUFFICES ASSUME IInv, [Next]_vars PROVE IInv'
  OBVIOUS
<1>1. TypeOK /\ PanicsOnlyAtZero
  BY DEF IInv
<1>2. instanceIDs' = instanceIDs
  BY DEF Next, Change, Update, Query, Emit, Advance, Returned, vars
<1>3. AllSeries' = AllSeries /\ Rounds' = Rounds /\ \A i : ID(i)' = ID(i)
  BY <1>2 DEF AllSeries, Series, Names, Values, Rounds, ID, Labelled
<1>4. Rounds \in Nat \ {0}
  <2>1. instanceIDs \in Seq(Int)
    BY <1>1, IDsAssumption DEF TypeOK
  <2>2. QED
    BY <2>1 DEF Rounds
<1>5. CASE UNCHANGED vars
  BY <1>1, <1>2, <1>3, <1>5 DEF vars, frrVars, IInv, TypeOK, PanicsOnlyAtZero
<1>6. CASE Change
  BY <1>1, <1>3, <1>6, BoundAssumption DEF Change, IInv, TypeOK, PanicsOnlyAtZero
<1>7. CASE Query
  <2>1. asked' \subseteq (1 .. Len(Steps)) \X {ID(i) : i \in 1 .. Rounds}
    BY <1>1, <1>7 DEF Query, TypeOK
  <2>2. pc' \in {"emit", "err"}
    BY <1>7 DEF Query, ReturnError
  <2>3. answer' \subseteq Vrfs
    BY <1>1, <1>7 DEF Query, TypeOK
  <2>4. QED
    BY <1>1, <1>3, <1>7, <2>1, <2>2, <2>3 DEF Query, frrVars, IInv, TypeOK, PanicsOnlyAtZero
<1>8. ASSUME NEW v \in Vrfs, Emit(v) PROVE IInv'
  BY <1>8, EmitStep
<1>9. CASE Advance
  <2>1. step' \in 1 .. Len(Steps) /\ idx' \in 1 .. Rounds
    BY <1>1, <1>4, <1>9 DEF Advance, MoreRounds, TypeOK, Steps
  <2>2. pc' \in {"query", "ok"}
    BY <1>9 DEF Advance
  <2>3. QED
    BY <1>1, <1>3, <1>9, <2>1, <2>2 DEF Advance, frrVars, IInv, TypeOK, PanicsOnlyAtZero
<1>10. QED
  BY <1>5, <1>6, <1>7, <1>8, <1>9 DEF Next, Update, Returned

\* The invariant holds in every reachable state.
THEOREM SpecIInv == Spec => []IInv
BY InitIInv, NextIInv, PTL DEF Spec

\* Every reachable state is typed: in particular Update never goes beyond its
\* list of instances, and sends no series other than the ones it describes.
THEOREM TypeCorrect == Spec => []TypeOK
BY SpecIInv, PTL DEF IInv

\* With any list of numbers, 0 and negative ones included, the collector's
\* goroutine panics over nothing but an answer of a configured instance 0.
THEOREM PanicsOnlyForZero == Spec => []PanicsOnlyAtZero
BY SpecIInv, PTL DEF IInv

\* The lists that hold no 0: what the constructor's check does not ensure.
NoZero == \A l \in InstanceLists : \A i \in DOMAIN l : l[i] # 0

\* If no list of instances holds a 0, the collector never panics.
THEOREM NeverPanics ==
  ASSUME NoZero
  PROVE  Spec => [](pc # "panic")
<1>1. IInv => pc # "panic"
  <2> SUFFICES ASSUME IInv, pc = "panic" PROVE FALSE
    OBVIOUS
  <2>1. instanceIDs # <<>> /\ ID(idx) = 0 /\ idx \in 1 .. Rounds
    BY DEF IInv, PanicsOnlyAtZero, TypeOK
  <2>2. instanceIDs \in Seq(Int) /\ instanceIDs \in InstanceLists
    BY IDsAssumption DEF IInv, TypeOK
  <2>3. idx \in DOMAIN instanceIDs /\ instanceIDs[idx] = 0
    BY <2>1, <2>2 DEF Rounds, ID
  <2>4. QED
    BY <2>2, <2>3 DEF NoZero
<1>2. QED
  BY <1>1, SpecIInv, PTL

\* In every family but maxage each label value of a metric is what the label
\* name says, with any instances and any VRFs.
THEOREM LabelsCorrect == Spec => []LabelsAsNamed
<1>1. TypeOK => LabelsAsNamed
  <2> SUFFICES ASSUME TypeOK, NEW m \in sent, m.family \in Families \ {"maxage"},
                      NEW n \in DOMAIN m.label
               PROVE  m.label[n][1] = n
    BY DEF LabelsAsNamed, NamedFamilies
  <2>1. PICK f \in Families, v \in Vrfs, i \in 1 .. Rounds :
            m = Series(f, v, ID(i)) /\ Labelled(i)
    BY DEF TypeOK, AllSeries
  <2>2. f \in Families \ {"maxage"}
    BY <2>1 DEF Series
  <2>3. ID(i) = 0 <=> instanceIDs = <<>>
    BY <2>1 DEF Labelled
  <2>4. Agree(Names(f), Values(f, v, ID(i)), Items(v, ID(i)))
    BY <2>2, <2>3, ListsAgree
  <2>5. QED
    BY <2>1, <2>4, SeriesNamed
<1>2. QED
  BY <1>1, TypeCorrect, PTL

-----------------------------------------------------------------------------
(* What a run that returns nil has done.                                   *)

\* The rounds that are over, round i of step s, and those that were asked.
Over(s, i)   == s < step \/ (s = step /\ i < idx)
WasAsked(s, i) == Over(s, i) \/ (s = step /\ i = idx /\ pc # "query")

\* Whether round i of step s has sent the metrics of v, if v was there all the time.
Worked(s, i, v) == Over(s, i) \/ (s = step /\ i = idx /\ pc \in {"emit", "ok"} /\ v \notin answer)

\* What was asked and sent by then.
Asked == \A s \in 1 .. Len(Steps), i \in 1 .. Rounds :
           WasAsked(s, i) => <<s, ID(i)>> \in asked
SentBy ==
  \A s \in 1 .. Len(Steps), i \in 1 .. Rounds, v \in stayed, f \in Families :
    Worked(s, i, v) /\ f \in Steps[s] =>
      (f \in Optional /\ v \in bare) \/ Series(f, v, ID(i)) \in sent
AtEnd == pc = "ok" => step = Len(Steps) /\ idx = Rounds /\ answer = {}

CInv == Asked /\ SentBy /\ AtEnd

\* There are four steps, each family belongs to one of them.
LEMMA FourSteps ==
  /\ Len(Steps) = 4 /\ 1 .. Len(Steps) = {1, 2, 3, 4}
  /\ \A f \in Families : \E s \in 1 .. Len(Steps) : f \in Steps[s]
  /\ \A s \in 1 .. Len(Steps) : Steps[s] \subseteq Families
<1>1. Len(Steps) = 4
  BY DEF Steps
<1>2. 1 .. 4 = {1, 2, 3, 4}
  OBVIOUS
<1>3. /\ Steps[1] = {"router", "area"} /\ Steps[2] = {"iface"}
      /\ Steps[3] = {"neigh"} /\ Steps[4] = {"maxage"}
  BY DEF Steps
<1>4. QED
  BY <1>1, <1>2, <1>3 DEF Families

\* The settings stay, and so do the series.
LEMMA SeriesKept ==
  ASSUME [Next]_vars
  PROVE  /\ instanceIDs' = instanceIDs /\ bare' = bare /\ Rounds' = Rounds
         /\ \A i : ID(i)' = ID(i)
         /\ \A f, v, id : Series(f, v, id)' = Series(f, v, id)
<1>1. instanceIDs' = instanceIDs /\ bare' = bare
  BY DEF Next, Change, Update, Query, Emit, Advance, Returned, vars
<1>2. QED
  BY <1>1 DEF Series, Names, Values, Rounds, ID

\* A step that does not go back from a question, and neither sends less nor
\* finishes more of a VRF than it sends.
LEMMA AskedKept ==
  ASSUME IInv, CInv, [Next]_vars, asked \subseteq asked',
         \A s \in 1 .. Len(Steps), i \in 1 .. Rounds :
           WasAsked(s, i)' => WasAsked(s, i) \/ <<s, ID(i)>> \in asked'
  PROVE  Asked'
BY SeriesKept DEF CInv, Asked

\* The same of what was sent of the VRFs that stay.
LEMMA SentKept ==
  ASSUME IInv, CInv, [Next]_vars, stayed' \subseteq stayed, sent \subseteq sent',
         \A s \in 1 .. Len(Steps), i \in 1 .. Rounds, v \in stayed : \A f \in Steps[s] :
           Worked(s, i, v)' => \/ Worked(s, i, v)
                               \/ f \in Optional /\ v \in bare
                               \/ Series(f, v, ID(i)) \in sent'
  PROVE  SentBy'
BY SeriesKept DEF CInv, SentBy, Optional

\* Every step keeps that what is over was asked and sent.
LEMMA NextCInv == IInv /\ CInv /\ [Next]_vars => CInv'
<1> SUFFICES ASSUME IInv, CInv, [Next]_vars PROVE CInv'
  OBVIOUS
<1>1. /\ step \in 1 .. Len(Steps) /\ idx \in 1 .. Rounds /\ Rounds \in Nat \ {0}
      /\ stayed \subseteq vrfs /\ answer \subseteq Vrfs
  <2>1. instanceIDs \in Seq(Int)
    BY IDsAssumption DEF IInv, TypeOK
  <2>2. Rounds \in Nat \ {0}
    BY <2>1 DEF Rounds
  <2>3. QED
    BY <2>2, BoundAssumption DEF IInv, TypeOK
<1>2. CASE UNCHANGED vars
  <2>1. \A s, i, v : (WasAsked(s, i)' <=> WasAsked(s, i)) /\ (Worked(s, i, v)' <=> Worked(s, i, v))
    BY <1>2 DEF vars, WasAsked, Worked, Over
  <2>2. Asked'
    BY <1>2, <2>1, AskedKept DEF vars
  <2>3. SentBy'
    BY <1>2, <2>1, SentKept DEF vars, frrVars
  <2>4. QED
    BY <1>2, <2>2, <2>3, SeriesKept DEF vars, CInv, AtEnd
<1>3. CASE Change
  <2>1. \A s, i : WasAsked(s, i)' <=> WasAsked(s, i)
    BY <1>3 DEF Change, WasAsked, Over
  <2>2. Asked'
    BY <1>3, <2>1, AskedKept DEF Change
  <2>3. \A s, i, v : Worked(s, i, v)' <=> Worked(s, i, v)
    BY <1>3 DEF Change, Worked, Over
  <2>4. SentBy'
    BY <1>3, <2>3, SentKept DEF Change
  <2>5. QED
    BY <1>3, <2>2, <2>4, SeriesKept DEF Change, CInv, AtEnd
<1>4. CASE Query
  <2>1. /\ pc = "query" /\ pc' \in {"emit", "err"} /\ asked' = asked \cup {<<step, ID(idx)>>}
        /\ pc' = "emit" => answer' = vrfs
        /\ UNCHANGED <<vrfs, stayed, step, idx, sent>>
    BY <1>4 DEF Query, ReturnError, frrVars
  <2>2. \A s, i : WasAsked(s, i)' => WasAsked(s, i) \/ (s = step /\ i = idx)
    BY <2>1 DEF WasAsked, Over
  <2>3. Asked'
    BY <2>1, <2>2, AskedKept
  <2>4. \A s, i : \A v \in stayed : Worked(s, i, v)' => Worked(s, i, v)
    BY <1>1, <2>1 DEF Worked, Over
  <2>5. SentBy'
    BY <2>1, <2>4, SentKept
  <2>6. QED
    BY <2>1, <2>3, <2>5 DEF CInv, AtEnd
<1>5. ASSUME NEW v \in Vrfs, Emit(v) PROVE CInv'
  <2>1. /\ pc = "emit" /\ pc' \in {"emit", "err", "panic"} /\ sent \subseteq sent'
        /\ UNCHANGED <<stayed, step, idx, asked>>
    BY <1>5 DEF Emit, frrVars
  <2>2. \A s, i : WasAsked(s, i)' <=> WasAsked(s, i)
    BY <2>1 DEF WasAsked, Over
  <2>3. Asked'
    BY <2>1, <2>2, AskedKept
  <2>4. \A s, i : \A w : Worked(s, i, w)' =>
          \/ Worked(s, i, w)
          \/ /\ s = step /\ i = idx /\ w = v
             /\ {Series(f, v, ID(idx)) : f \in Held(v)} \subseteq sent'
    BY <1>5, <2>1 DEF Emit, Worked, Over
  <2>5. \A f \in Steps[step] : (f \in Optional /\ v \in bare) \/ f \in Held(v)
    BY DEF Held
  <2>6. SentBy'
    BY <2>1, <2>4, <2>5, SentKept
  <2>7. QED
    BY <2>1, <2>3, <2>6 DEF CInv, AtEnd
<1>6. CASE Advance
  <2>1. /\ pc = "emit" /\ answer = {} /\ pc' \in {"query", "ok"}
        /\ UNCHANGED <<stayed, answer, asked, sent>>
    BY <1>6 DEF Advance, frrVars
  <2>2. \/ idx < Rounds /\ idx' = idx + 1 /\ step' = step /\ pc' = "query"
        \/ idx = Rounds /\ step < Len(Steps) /\ step' = step + 1 /\ idx' = 1 /\ pc' = "query"
        \/ idx = Rounds /\ step = Len(Steps) /\ pc' = "ok" /\ UNCHANGED <<step, idx>>
    BY <1>1, <1>6 DEF Advance, MoreRounds
  <2>3. \A s \in 1 .. Len(Steps), i \in 1 .. Rounds :
          /\ Over(s, i)' => Over(s, i) \/ (s = step /\ i = idx)
          /\ pc' = "query" \/ (s = step /\ i = idx) \/ ~(s = step' /\ i = idx')
    BY <1>1, <2>2, FourSteps DEF Over
  <2>4. \A s \in 1 .. Len(Steps), i \in 1 .. Rounds : WasAsked(s, i)' => WasAsked(s, i)
    BY <2>1, <2>3 DEF WasAsked
  <2>5. Asked'
    BY <2>1, <2>4, AskedKept
  <2>6. \A s \in 1 .. Len(Steps), i \in 1 .. Rounds : \A v : Worked(s, i, v)' => Worked(s, i, v)
    BY <2>1, <2>3 DEF Worked
  <2>7. SentBy'
    BY <2>1, <2>6, SentKept
  <2>8. QED
    BY <2>1, <2>2, <2>5, <2>7, SeriesKept DEF CInv, AtEnd
<1>7. QED
  BY <1>2, <1>3, <1>4, <1>5, <1>6 DEF Next, Update, Returned

\* Initially nothing is over.
LEMMA InitCInv == Init => CInv
<1> SUFFICES ASSUME Init PROVE CInv
  OBVIOUS
<1>1. \A s \in 1 .. Len(Steps), i \in 1 .. Rounds : ~Over(s, i)
  <2>1. instanceIDs \in Seq(Int)
    BY IDsAssumption DEF Init
  <2>2. Rounds \in Nat
    BY <2>1 DEF Rounds
  <2>3. QED
    BY <2>2, FourSteps DEF Init, Over
<1>2. QED
  BY <1>1 DEF Init, CInv, Asked, SentBy, AtEnd, WasAsked, Worked

\* If Update returns nil, every instance was asked all four questions, and a VRF
\* that was there throughout has all its metrics for every instance, whichever came or went.
THEOREM NothingLeftOut == Spec => []CompleteOnSuccess
<1>1. IInv /\ CInv => CompleteOnSuccess
  <2> SUFFICES ASSUME IInv, CInv, pc = "ok"
               PROVE  /\ asked = (1 .. Len(Steps)) \X {ID(i) : i \in 1 .. Rounds}
                      /\ \A f \in Families, v \in stayed, i \in 1 .. Rounds :
                           (f \in Optional /\ v \in bare) \/ Series(f, v, ID(i)) \in sent
    BY DEF CompleteOnSuccess
  <2>1. Rounds \in Nat
    <3>1. instanceIDs \in Seq(Int)
      BY IDsAssumption DEF IInv, TypeOK
    <3>2. QED
      BY <3>1 DEF Rounds
  <2>2. \A s \in 1 .. Len(Steps), i \in 1 .. Rounds : WasAsked(s, i) /\ \A v : Worked(s, i, v)
    BY <2>1, FourSteps DEF CInv, AtEnd, WasAsked, Worked, Over
  <2>3. \A s \in 1 .. Len(Steps), i \in 1 .. Rounds : <<s, ID(i)>> \in asked
    BY <2>2 DEF CInv, Asked
  <2>4. asked = (1 .. Len(Steps)) \X {ID(i) : i \in 1 .. Rounds}
    <3>1. asked \subseteq (1 .. Len(Steps)) \X {ID(i) : i \in 1 .. Rounds}
      BY DEF IInv, TypeOK
    <3>2. QED
      BY <2>3, <3>1
  <2>5. ASSUME NEW f \in Families, NEW v \in stayed, NEW i \in 1 .. Rounds
        PROVE  (f \in Optional /\ v \in bare) \/ Series(f, v, ID(i)) \in sent
    <3>1. PICK s \in 1 .. Len(Steps) : f \in Steps[s]
      BY FourSteps
    <3>2. QED
      BY <2>2, <3>1 DEF CInv, SentBy
  <2>6. QED
    BY <2>4, <2>5
<1>2. Spec => [](IInv /\ CInv)
  <2>1. Init => IInv /\ CInv
    BY InitIInv, InitCInv
  <2>2. (IInv /\ CInv) /\ [Next]_vars => (IInv /\ CInv)'
    BY NextIInv, NextCInv
  <2>3. QED
    BY <2>1, <2>2, PTL DEF Spec
<1>3. QED
  BY <1>1, <1>2, PTL

-----------------------------------------------------------------------------
(* No series twice, if names and instances are distinct.                   *)

\* No two VRFs differ in case only, and no instance is given twice.
CaseMatters == \A v, w \in Vrfs : Lower[v] = Lower[w] => v = w
DistinctIDs == \A l \in InstanceLists : \A i, j \in DOMAIN l : l[i] = l[j] => i = j

\* The label of the series of family f that has the name of the VRF, and the one
\* that has the instance.
VrfAt(f)      == IF f = "maxage" /\ instanceIDs # <<>> THEN "instance" ELSE "vrf"
InstanceAt(f) == IF f = "maxage" THEN "vrf" ELSE "instance"

\* Where things are in a list that one element is put after or before.
LEMMA Places ==
  ASSUME NEW S, NEW s \in Seq(S), NEW x \in S
  PROVE  /\ Len(s) \in Nat
         /\ Len(Append(s, x)) = Len(s) + 1 /\ Append(s, x)[Len(s) + 1] = x
         /\ Len(<<x>> \o s) = Len(s) + 1 /\ (<<x>> \o s)[1] = x
         /\ \A k \in 1 .. Len(s) : Append(s, x)[k] = s[k] /\ (<<x>> \o s)[k + 1] = s[k]
         /\ DOMAIN s = 1 .. Len(s)
         /\ DOMAIN Append(s, x) = 1 .. Len(s) + 1 /\ DOMAIN (<<x>> \o s) = 1 .. Len(s) + 1
OBVIOUS

\* With or without an instance, and wherever it stands, every family but maxage
\* has a label for the VRF and, if there are instances, one for the instance.
LEMMA NamesHave ==
  ASSUME NEW f \in Families \ {"maxage"}
  PROVE  /\ \E k \in DOMAIN Names(f) : Names(f)[k] = "vrf"
         /\ instanceIDs # <<>> => \E k \in DOMAIN Names(f) : Names(f)[k] = "instance"
<1> DEFINE ns == PerVrfNames[f]
<1>0. \/ ns = <<"vrf">> \/ ns = <<"vrf", "area">> \/ ns = <<"vrf", "iface", "area">>
      \/ ns = <<"vrf", "neighbor", "iface", "local_address", "remote_address">>
  BY DEF Families, PerVrfNames
<1> HIDE DEF ns
<1>1. ns \in Seq(LabelNames) /\ ns[1] = "vrf" /\ 1 \in 1 .. Len(ns)
  <2>1. CASE ns = <<"vrf">>
    BY <2>1 DEF LabelNames
  <2>2. CASE ns = <<"vrf", "area">>
    BY <2>2 DEF LabelNames
  <2>3. CASE ns = <<"vrf", "iface", "area">>
    BY <2>3 DEF LabelNames
  <2>4. CASE ns = <<"vrf", "neighbor", "iface", "local_address", "remote_address">>
    BY <2>4 DEF LabelNames
  <2>5. QED
    BY <1>0, <2>1, <2>2, <2>3, <2>4
<1>2. "instance" \in LabelNames
  BY DEF LabelNames
<1>3. CASE instanceIDs = <<>>
  <2>1. Names(f) = ns
    BY <1>3 DEF Names, ns
  <2>2. QED
    BY <1>1, <1>2, <1>3, <2>1, Places
<1>4. CASE instanceIDs # <<>> /\ f = "neigh"
  <2>1. Names(f) = <<"instance">> \o ns
    BY <1>4 DEF Names, ns
  <2>2. /\ 1 \in DOMAIN Names(f) /\ Names(f)[1] = "instance"
        /\ 1 + 1 \in DOMAIN Names(f) /\ Names(f)[1 + 1] = "vrf"
    BY <1>1, <1>2, <2>1, Places
  <2>3. QED
    BY <2>2
<1>5. CASE instanceIDs # <<>> /\ f # "neigh"
  <2>1. Names(f) = Append(ns, "instance")
    BY <1>5 DEF Names, ns
  <2>2. /\ 1 \in DOMAIN Names(f) /\ Names(f)[1] = "vrf"
        /\ Len(ns) + 1 \in DOMAIN Names(f) /\ Names(f)[Len(ns) + 1] = "instance"
    BY <1>1, <1>2, <2>1, Places
  <2>3. QED
    BY <2>2
<1>6. QED
  BY <1>3, <1>4, <1>5

\* A series has the VRF and the instance it was made for, maxage under the
\* wrong names.
LEMMA SeriesHolds ==
  ASSUME NEW f \in Families, NEW v \in Vrfs, NEW id, id = 0 <=> instanceIDs = <<>>
  PROVE  /\ Series(f, v, id).family = f
         /\ Series(f, v, id).label[VrfAt(f)] = <<"vrf", Lower[v]>>
         /\ id # 0 => Series(f, v, id).label[InstanceAt(f)] = <<"instance", id>>
<1>1. Series(f, v, id).family = f
  BY DEF Series
<1>2. CASE f # "maxage"
  <2>1. Agree(Names(f), Values(f, v, id), Items(v, id))
    BY <1>2, ListsAgree
  <2>2. ASSUME NEW n, \E k \in DOMAIN Names(f) : Names(f)[k] = n
        PROVE  Series(f, v, id).label[n] \in Items(v, id) /\ Series(f, v, id).label[n][1] = n
    <3> DEFINE place == CHOOSE k \in DOMAIN Names(f) : Names(f)[k] = n
    <3>1. place \in DOMAIN Names(f) /\ Names(f)[place] = n
      BY <2>2
    <3>2. Series(f, v, id).label[n] = Values(f, v, id)[place]
      BY <2>2 DEF Series
    <3>3. Values(f, v, id)[place] \in Items(v, id) /\ Values(f, v, id)[place][1] = n
      BY <2>1, <3>1 DEF Agree
    <3>4. QED
      BY <3>2, <3>3
  <2>3. /\ \A x \in Items(v, id) : x[1] = "vrf" => x = <<"vrf", Lower[v]>>
        /\ \A x \in Items(v, id) : x[1] = "instance" => x = <<"instance", id>>
    BY DEF Items, Area
  <2>4. VrfAt(f) = "vrf" /\ InstanceAt(f) = "instance"
    BY <1>2 DEF VrfAt, InstanceAt
  <2>5. QED
    BY <1>1, <1>2, <2>2, <2>3, <2>4, NamesHave
<1>3. CASE f = "maxage" /\ id = 0
  <2>1. Names(f) = <<"vrf">> /\ Values(f, v, id) = <<<<"vrf", Lower[v]>>>>
    BY <1>3 DEF Names, Values, PerVrfNames, PerVrfValues
  <2>2. Series(f, v, id).label["vrf"] = <<"vrf", Lower[v]>>
    BY <2>1 DEF Series
  <2>3. QED
    BY <1>1, <1>3, <2>2 DEF VrfAt
<1>4. CASE f = "maxage" /\ id # 0
  <2>1. /\ DOMAIN Names(f) = {1, 2} /\ Names(f)[1] = "instance" /\ Names(f)[2] = "vrf"
    <3>1. Names(f) = <<"instance">> \o <<"vrf">>
      BY <1>4 DEF Names, PerVrfNames
    <3>2. <<"vrf">> \in Seq(LabelNames) /\ "instance" \in LabelNames /\ Len(<<"vrf">>) = 1
      BY DEF LabelNames
    <3>3. QED
      BY <3>1, <3>2, Places
  <2>2. Values(f, v, id)[1] = <<"vrf", Lower[v]>> /\ Values(f, v, id)[2] = <<"instance", id>>
    <3>1. Values(f, v, id) = Append(<<<<"vrf", Lower[v]>>>>, <<"instance", id>>)
      BY <1>4 DEF Values, PerVrfValues
    <3> DEFINE S == {<<"vrf", Lower[v]>>, <<"instance", id>>}
    <3>2. <<<<"vrf", Lower[v]>>>> \in Seq(S) /\ <<"instance", id>> \in S
      OBVIOUS
    <3>3. QED
      BY <3>1, <3>2, Places
  <2>3. /\ (CHOOSE k \in DOMAIN Names(f) : Names(f)[k] = "instance") = 1
        /\ (CHOOSE k \in DOMAIN Names(f) : Names(f)[k] = "vrf") = 2
    BY <2>1
  <2>4. /\ Series(f, v, id).label["instance"] = <<"vrf", Lower[v]>>
        /\ Series(f, v, id).label["vrf"] = <<"instance", id>>
    BY <2>1, <2>2, <2>3 DEF Series
  <2>5. QED
    BY <1>1, <1>4, <2>4 DEF VrfAt, InstanceAt
<1>5. QED
  BY <1>2, <1>3, <1>4

\* So series that are equal are of one family, VRF and round.
LEMMA SeriesDiffer ==
  ASSUME CaseMatters, DistinctIDs, TypeOK,
         NEW f \in Families, NEW g \in Families, NEW v \in Vrfs, NEW w \in Vrfs,
         NEW i \in 1 .. Rounds, NEW j \in 1 .. Rounds,
         Labelled(i), Labelled(j), Series(f, v, ID(i)) = Series(g, w, ID(j))
  PROVE  f = g /\ v = w /\ i = j
<1>1. (ID(i) = 0 <=> instanceIDs = <<>>) /\ (ID(j) = 0 <=> instanceIDs = <<>>)
  BY DEF Labelled
<1>2. f = g
  BY <1>1, SeriesHolds
<1>3. <<"vrf", Lower[v]>> = <<"vrf", Lower[w]>>
  BY <1>1, <1>2, SeriesHolds
<1>4. v = w
  BY <1>3 DEF CaseMatters
<1>5. CASE instanceIDs = <<>>
  BY <1>2, <1>4, <1>5 DEF Rounds
<1>6. CASE instanceIDs # <<>>
  <2>1. <<"instance", ID(i)>> = <<"instance", ID(j)>>
    BY <1>1, <1>2, <1>6, SeriesHolds
  <2>2. instanceIDs \in Seq(Int)
    BY IDsAssumption DEF TypeOK
  <2>3. i \in DOMAIN instanceIDs /\ j \in DOMAIN instanceIDs
    BY <1>6, <2>2 DEF Rounds
  <2>4. instanceIDs[i] = instanceIDs[j]
    BY <1>6, <2>1 DEF ID
  <2>5. QED
    BY <1>2, <1>4, <2>3, <2>4 DEF DistinctIDs, TypeOK
<1>7. QED
  BY <1>5, <1>6

\* The rounds and VRFs whose metrics may have been sent, and that all are of them.
Sendable(s, i, v) == Over(s, i) \/ (s = step /\ i = idx /\ pc # "query" /\ v \notin answer)
SentInTurn ==
  \A m \in sent : \E s \in 1 .. Len(Steps), i \in 1 .. Rounds, v \in Vrfs :
    \E f \in Steps[s] : m = Series(f, v, ID(i)) /\ Labelled(i) /\ Sendable(s, i, v)
UInv == SentInTurn /\ UniqueSeries

\* A step that sends nothing keeps what was sent.
LEMMA SentInTurnKept ==
  ASSUME IInv, UInv, [Next]_vars, sent' = sent, again' = again,
         \A s \in 1 .. Len(Steps), i \in 1 .. Rounds, v \in Vrfs :
           Sendable(s, i, v) => Sendable(s, i, v)'
  PROVE  UInv'
<1>1. \A m \in sent' : \E s \in 1 .. Len(Steps), i \in 1 .. Rounds', v \in Vrfs :
        \E f \in Steps[s] : m = Series(f, v, ID(i))' /\ Labelled(i)' /\ Sendable(s, i, v)'
  BY SeriesKept DEF UInv, SentInTurn, Labelled
<1>2. QED
  BY <1>1 DEF UInv, SentInTurn, UniqueSeries

\* Emitting a VRF sends series that no earlier turn has sent.
LEMMA EmitUInv ==
  ASSUME CaseMatters, DistinctIDs, IInv, UInv, NEW v \in Vrfs, Emit(v)
  PROVE  UInv'
<1> DEFINE new == {Series(f, v, ID(idx)) : f \in Held(v)}
<1>1. /\ step \in 1 .. Len(Steps) /\ idx \in 1 .. Rounds /\ step \in Nat /\ idx \in Nat
      /\ pc = "emit" /\ v \in answer /\ UNCHANGED <<step, idx>>
      /\ pc' \in {"emit", "err", "panic"} /\ answer' \subseteq answer
      /\ \/ sent' = sent /\ again' = again
         \/ /\ \A f \in Held(v) : ~Mismatch(f, v, ID(idx))
            /\ sent' = sent \cup new /\ answer' = answer \ {v}
            /\ again' = (again \/ new \cap sent # {})
  <2>1. Rounds \in Nat /\ Len(Steps) = 4
    <3>1. instanceIDs \in Seq(Int)
      BY IDsAssumption DEF IInv, TypeOK
    <3>2. QED
      BY <3>1, FourSteps DEF Rounds
  <2>2. QED
    BY <2>1 DEF Emit, IInv, TypeOK
<1>2. \A s, i, w : Sendable(s, i, w) => Sendable(s, i, w)'
  BY <1>1 DEF Sendable, Over
<1>3. [Next]_vars
  BY DEF Next, Update
<1>4. CASE sent' = sent /\ again' = again
  BY <1>2, <1>3, <1>4, SentInTurnKept
<1>5. CASE /\ \A f \in Held(v) : ~Mismatch(f, v, ID(idx))
           /\ sent' = sent \cup new /\ answer' = answer \ {v}
           /\ again' = (again \/ new \cap sent # {})
  <2>1. Held(v) \subseteq Steps[step] /\ Held(v) \subseteq Families
    BY <1>1, FourSteps DEF Held
  <2>2. \A f \in Held(v) : Labelled(idx)
    BY <1>5, <2>1, MatchingLabelled
  <2>3. new \cap sent = {}
    <3> SUFFICES ASSUME NEW f \in Held(v), Series(f, v, ID(idx)) \in sent PROVE FALSE
      OBVIOUS
    <3>1. PICK s \in 1 .. Len(Steps), i \in 1 .. Rounds, w \in Vrfs : \E g \in Steps[s] :
            /\ Series(f, v, ID(idx)) = Series(g, w, ID(i))
            /\ Labelled(i) /\ Sendable(s, i, w)
      BY DEF UInv, SentInTurn
    <3>2. PICK g \in Steps[s] : Series(f, v, ID(idx)) = Series(g, w, ID(i)) /\ Labelled(i)
      BY <3>1
    <3>3. f = g /\ v = w /\ i = idx
      BY <1>1, <2>1, <2>2, <3>2, FourSteps, SeriesDiffer DEF IInv
    <3>4. s = step
      BY <1>1, <2>1, <3>3, FourSteps DEF Steps
    <3>5. QED
      BY <1>1, <3>1, <3>3, <3>4 DEF Sendable, Over
  <2>4. Sendable(step, idx, v)'
    BY <1>1, <1>5 DEF Sendable
  <2>5. SentInTurn'
    <3> SUFFICES ASSUME NEW m \in sent'
                 PROVE  \E s \in 1 .. Len(Steps), i \in 1 .. Rounds, w \in Vrfs :
                          \E f \in Steps[s] : /\ m = Series(f, w, ID(i)) /\ Labelled(i)
                                             /\ Sendable(s, i, w)'
      BY <1>3, SeriesKept DEF SentInTurn, Labelled
    <3>1. CASE m \in sent
      BY <1>2, <3>1 DEF UInv, SentInTurn
    <3>2. CASE m \in new
      BY <1>1, <2>1, <2>4, <2>2, <3>2
    <3>3. QED
      BY <1>5, <3>1, <3>2
  <2>6. QED
    BY <1>5, <2>3, <2>5 DEF UInv, UniqueSeries
<1>6. QED
  BY <1>1, <1>4, <1>5

\* Every step keeps that what was sent is of turns that have been.
LEMMA NextUInv ==
  ASSUME CaseMatters, DistinctIDs
  PROVE  IInv /\ UInv /\ [Next]_vars => UInv'
<1> SUFFICES ASSUME IInv, UInv, [Next]_vars PROVE UInv'
  OBVIOUS
<1>1. /\ step \in 1 .. Len(Steps) /\ idx \in 1 .. Rounds /\ Rounds \in Nat
      /\ step \in Nat /\ idx \in Nat
  <2>1. instanceIDs \in Seq(Int)
    BY IDsAssumption DEF IInv, TypeOK
  <2>2. Rounds \in Nat /\ Len(Steps) = 4
    BY <2>1, FourSteps DEF Rounds
  <2>3. QED
    BY <2>2 DEF IInv, TypeOK
<1>2. CASE UNCHANGED vars \/ Change
  BY <1>2, SentInTurnKept DEF Change, vars, Sendable, Over
<1>3. CASE Query
  <2>1. \A s, i, v : Sendable(s, i, v) => Sendable(s, i, v)'
    BY <1>3 DEF Query, Sendable, Over
  <2>2. QED
    BY <1>3, <2>1, SentInTurnKept DEF Query
<1>4. ASSUME NEW v \in Vrfs, Emit(v) PROVE UInv'
  BY <1>4, EmitUInv
<1>5. CASE Advance
  <2>1. \/ idx' = idx + 1 /\ step' = step
        \/ step' = step + 1 /\ idx' = 1
        \/ UNCHANGED <<step, idx>> /\ pc' = "ok"
    BY <1>5 DEF Advance
  <2>2. \A s \in 1 .. Len(Steps), i \in 1 .. Rounds : \A v : Sendable(s, i, v) => Sendable(s, i, v)'
    <3>1. sent' = sent /\ answer' = answer
      BY <1>5 DEF Advance
    <3>2. QED
      BY <1>1, <2>1, <3>1, FourSteps DEF Sendable, Over
  <2>3. QED
    BY <1>5, <2>2, SentInTurnKept DEF Advance
<1>6. QED
  BY <1>2, <1>3, <1>4, <1>5 DEF Next, Update, Returned

\* If no two VRFs differ in case only and no instance is given twice, one Update
\* never sends a series twice, over all instances, steps and VRFs.
THEOREM NoDuplicates ==
  ASSUME CaseMatters, DistinctIDs
  PROVE  Spec => []UniqueSeries
<1>1. Init => UInv
  BY DEF Init, UInv, SentInTurn, UniqueSeries
<1>2. IInv /\ UInv /\ [Next]_vars => UInv'
  BY NextUInv
<1>3. UInv => UniqueSeries
  BY DEF UInv
<1>4. QED
  BY <1>1, <1>2, <1>3, SpecIInv, PTL DEF Spec

-----------------------------------------------------------------------------
(* Update keeps its promise, and comes to its end.                         *)

\* A step of a run that has not returned adds to what was sent at most, one
\* after it returned changes nothing that the caller sees.
LEMMA PromiseStep ==
  ASSUME (pc \notin {"ok", "err"} /\ sent \subseteq sent') \/ UNCHANGED <<pc, sent>>
  PROVE  [Promise!Next]_<<Outcome, Output>>
<1>1. CASE UNCHANGED <<pc, sent>>
  <2>1. Outcome' = Outcome /\ Output' = Output
    BY <1>1 DEF Outcome, Output, Runs
  <2>2. QED
    BY <2>1
<1>2. CASE pc \notin {"ok", "err"} /\ sent \subseteq sent'
  <2> DEFINE u == "update"
  <2>1. /\ Runs = {u}
        /\ Outcome = [r \in {u} |-> Outcome[u]] /\ Outcome' = [r \in {u} |-> Outcome'[u]]
        /\ Output = [r \in {u} |-> sent] /\ Output' = [r \in {u} |-> sent']
        /\ Outcome[u] = "running" /\ Outcome'[u] \in {"running", "ok", "err"}
    BY <1>2 DEF Outcome, Output, Runs
  <2>2. Promise!Adds(u)
    BY <1>2, <2>1 DEF Promise!Adds
  <2>3. CASE Outcome'[u] = "running"
    <3>1. Outcome' = Outcome
      BY <2>1, <2>3
    <3>2. Promise!Send(u)
      BY <2>1, <2>2, <3>1 DEF Promise!Send
    <3>3. QED
      BY <2>1, <3>2 DEF Promise!Next
  <2>4. CASE Outcome'[u] \in {"ok", "err"}
    <3>1. Outcome' = [Outcome EXCEPT ![u] = Outcome'[u]]
      BY <2>1
    <3>2. Promise!Return(u)
      BY <2>1, <2>2, <2>4, <3>1 DEF Promise!Return, Promise!Results
    <3>3. QED
      BY <2>1, <3>2 DEF Promise!Next
  <2>5. QED
    BY <2>1, <2>3, <2>4
<1>3. QED
  BY <1>1, <1>2

\* Update takes nothing back and sends nothing when it has returned.  That it
\* does return is what AlwaysProgress and UpdateEnds are about, further below.
THEOREM PromiseKept == Spec => Promise!Init /\ [][Promise!Next]_<<Outcome, Output>>
<1>1. Init => Promise!Init
  BY DEF Init, Promise!Init, Outcome, Output, Runs
<1>2. IInv /\ [Next]_vars => [Promise!Next]_<<Outcome, Output>>
  <2> SUFFICES ASSUME IInv, [Next]_vars PROVE [Promise!Next]_<<Outcome, Output>>
    OBVIOUS
  <2>1. CASE Update
    BY <2>1, PromiseStep DEF Update, Query, Emit, Advance
  <2>2. CASE Change \/ Returned \/ UNCHANGED vars
    BY <2>2, PromiseStep DEF Change, Returned, vars
  <2>3. QED
    BY <2>1, <2>2 DEF Next
<1>3. QED
  BY <1>1, <1>2, SpecIInv, PTL DEF Spec

\* The rounds that are open after a step, and the positions in the lists.
LEMMA Positions ==
  ASSUME IInv
  PROVE  /\ step \in 1 .. 4 /\ idx \in 1 .. Rounds /\ Rounds \in Nat \ {0} /\ Len(Steps) = 4
         /\ Here \in (1 .. Len(Steps)) \X (1 .. Rounds)
         /\ Here[1] = step /\ Here[2] = idx /\ answer \subseteq Vrfs
<1>1. instanceIDs \in Seq(Int)
  BY IDsAssumption DEF IInv, TypeOK
<1>2. Rounds \in Nat \ {0}
  BY <1>1 DEF Rounds
<1>3. QED
  BY <1>2, FourSteps DEF IInv, TypeOK, Here

\* A question is asked, or fails.
LEMMA QueryCounts ==
  ASSUME IInv, IInv', Query
  PROVE  Ahead' \subseteq Ahead /\ Ahead' # Ahead
<1>1. /\ pc = "query" /\ UNCHANGED <<instanceIDs, step, idx>>
      /\ pc' \in {"emit", "err"} /\ answer' \subseteq Vrfs
  BY Positions DEF Query, ReturnError, IInv, TypeOK
<1>2. Here' = Here /\ Rounds' = Rounds
  BY <1>1 DEF Here, Rounds
<1>3. Here \in Open
  BY <1>1, Positions DEF Open
<1>4. Open' = IF pc' = "err" THEN {} ELSE Open
  BY <1>1, <1>2 DEF Open
<1>5. <<"ask", Here>> \in Ahead
  BY <1>1, <1>3 DEF Ahead
<1>6. <<"ask", Here>> \notin Ahead'
  BY <1>1, <1>2, <1>4 DEF Ahead
<1>7. Ahead' \subseteq Ahead
  BY <1>1, <1>2, <1>4 DEF Ahead
<1>8. QED
  BY <1>5, <1>6, <1>7

\* A VRF is turned into metrics, or fails.
LEMMA EmitCounts ==
  ASSUME IInv, IInv', NEW v \in Vrfs, Emit(v)
  PROVE  Ahead' \subseteq Ahead /\ Ahead' # Ahead
<1>1. /\ pc = "emit" /\ UNCHANGED <<instanceIDs, step, idx>> /\ v \in answer
      /\ pc' \in {"err", "panic"} \/ (pc' = "emit" /\ answer' = answer \ {v})
  BY DEF Emit
<1>2. Here' = Here /\ Rounds' = Rounds
  BY <1>1 DEF Here, Rounds
<1>3. Here \in Open
  BY <1>1, Positions DEF Open
<1>4. Open' = IF pc' \in {"err", "panic"} THEN {} ELSE Open
  BY <1>1, <1>2 DEF Open
<1>5. <<"vrf", <<Here, v>>>> \in Ahead
  BY <1>1, <1>3 DEF Ahead
<1>6. <<"vrf", <<Here, v>>>> \notin Ahead'
  BY <1>1, <1>2, <1>4 DEF Ahead
<1>7. Ahead' \subseteq Ahead
  BY <1>1, <1>2, <1>4 DEF Ahead
<1>8. QED
  BY <1>5, <1>6, <1>7

\* A round is over, and the next one open.
LEMMA AdvanceCounts ==
  ASSUME IInv, IInv', Advance
  PROVE  Ahead' \subseteq Ahead /\ Ahead' # Ahead
<1>1. /\ pc = "emit" /\ UNCHANGED instanceIDs
      /\ \/ pc' = "query" /\ step' = step /\ idx' = idx + 1
         \/ pc' = "query" /\ step' = step + 1 /\ idx' = 1
         \/ pc' = "ok"
  BY DEF Advance
<1>2. Rounds' = Rounds
  BY <1>1 DEF Rounds
<1>3. Here \in Open
  BY <1>1, Positions DEF Open
<1>4. Open' \subseteq Open \ {Here}
  <2> SUFFICES ASSUME NEW r \in Open' PROVE r \in Open /\ r # Here
    OBVIOUS
  <2>1. /\ r \in (1 .. Len(Steps)) \X (1 .. Rounds) /\ pc' = "query"
        /\ r[1] > step' \/ (r[1] = step' /\ r[2] >= idx')
    BY <1>1, <1>2 DEF Open
  <2>2. r[1] \in Int /\ r[2] \in Int /\ step \in Int /\ idx \in Int /\ r[2] >= 1
    BY <2>1, Positions
  <2>3. r[1] > step \/ (r[1] = step /\ r[2] > idx)
    BY <1>1, <2>1, <2>2
  <2>4. r # Here
    BY <2>2, <2>3, Positions
  <2>5. QED
    BY <1>1, <2>1, <2>2, <2>3, <2>4 DEF Open
<1>5. <<"end", Here>> \in Ahead
  BY <1>3 DEF Ahead
<1>6. <<"end", Here>> \notin Ahead'
  BY <1>4 DEF Ahead
<1>7. Ahead' \subseteq Ahead
  <2>1. pc' # "emit"
    BY <1>1
  <2>2. QED
    BY <1>1, <1>4, <2>1 DEF Ahead
<1>8. QED
  BY <1>5, <1>6, <1>7

\* What is ahead does not depend on what FRR has.
LEMMA AheadKept ==
  ASSUME UNCHANGED <<instanceIDs, step, idx, pc, answer>>
  PROVE  Ahead' = Ahead
BY DEF Ahead, Open, Here, Rounds

\* Every step of Update takes something from what is ahead.
THEOREM AlwaysProgress == Spec => EveryStepCounts
<1> DEFINE Counts == IF changes' = changes THEN Ahead' \subseteq Ahead /\ Ahead' # Ahead
                                           ELSE Ahead' = Ahead
<1>1. IInv /\ [Next]_vars => Counts \/ UNCHANGED vars
  <2> SUFFICES ASSUME IInv, [Next]_vars PROVE Counts \/ UNCHANGED vars
    OBVIOUS
  <2>1. IInv'
    BY NextIInv
  <2>2. CASE Change
    <3>1. changes \in Nat /\ changes' = changes + 1
      BY <2>2, BoundAssumption DEF Change, IInv, TypeOK
    <3>2. Ahead' = Ahead
      BY <2>2, AheadKept DEF Change
    <3>3. QED
      BY <3>1, <3>2
  <2>3. CASE Update
    <3>1. changes' = changes
      BY <2>3 DEF Update, Query, Emit, Advance, frrVars
    <3>2. QED
      BY <2>1, <2>3, <3>1, QueryCounts, EmitCounts, AdvanceCounts DEF Update
  <2>4. QED
    BY <2>2, <2>3 DEF Next, Returned
<1>2. QED
  BY <1>1, SpecIInv, PTL DEF Spec, EveryStepCounts

\* How much is ahead is a number, if there are finitely many VRFs, and each step
\* of Update makes it smaller, whatever FRR answers and however it changes.
THEOREM UpdateEnds ==
  ASSUME IsFiniteSet(Vrfs)
  PROVE  Spec => [][/\ Cardinality(Ahead) \in Nat
                    /\ IF changes' = changes THEN Cardinality(Ahead') < Cardinality(Ahead)
                                             ELSE Cardinality(Ahead') = Cardinality(Ahead)]_vars
<1> DEFINE Fewer == /\ Cardinality(Ahead) \in Nat
                    /\ IF changes' = changes THEN Cardinality(Ahead') < Cardinality(Ahead)
                                             ELSE Cardinality(Ahead') = Cardinality(Ahead)
           Counts == IF changes' = changes THEN Ahead' \subseteq Ahead /\ Ahead' # Ahead
                                           ELSE Ahead' = Ahead
<1>1. IInv => IsFiniteSet(Ahead)
  <2> SUFFICES ASSUME IInv PROVE IsFiniteSet(Ahead)
    OBVIOUS
  <2>1. IsFiniteSet(1 .. Len(Steps)) /\ IsFiniteSet(1 .. Rounds)
    <3>1. 1 \in Int /\ Len(Steps) \in Int /\ Rounds \in Int
      BY Positions
    <3>2. QED
      BY <3>1, FS_Interval, Zenon
  <2>2. IsFiniteSet((1 .. Len(Steps)) \X (1 .. Rounds))
    BY <2>1, FS_Product
  <2>3. IsFiniteSet(Open)
    BY <2>2, FS_Subset DEF Open
  <2>4. IsFiniteSet({"ask", "end", "vrf"} \X (Open \cup (Open \X Vrfs)))
    <3>1. IsFiniteSet({"ask", "end", "vrf"})
      <4>1. IsFiniteSet({"ask"} \cup {"end"} \cup {"vrf"})
        BY FS_Singleton, FS_Union
      <4>2. {"ask"} \cup {"end"} \cup {"vrf"} = {"ask", "end", "vrf"}
        OBVIOUS
      <4>3. QED
        BY <4>1, <4>2
    <3>2. IsFiniteSet(Open \cup (Open \X Vrfs))
      BY <2>3, FS_Product, FS_Union
    <3>3. QED
      BY <3>1, <3>2, FS_Product
  <2>5. Ahead \subseteq {"ask", "end", "vrf"} \X (Open \cup (Open \X Vrfs))
    BY DEF Ahead
  <2>6. QED
    BY <2>4, <2>5, FS_Subset
<1>2. IInv /\ Counts => Fewer
  <2> SUFFICES ASSUME IInv, Counts PROVE Fewer
    OBVIOUS
  <2>1. IsFiniteSet(Ahead) /\ Cardinality(Ahead) \in Nat
    BY <1>1, FS_CardinalityType
  <2>2. CASE changes' = changes
    <3>1. Ahead' \subseteq Ahead /\ Ahead' # Ahead
      BY <2>2
    <3>2. /\ IsFiniteSet(Ahead') /\ Cardinality(Ahead') <= Cardinality(Ahead)
          /\ Cardinality(Ahead') = Cardinality(Ahead) => Ahead' = Ahead
      BY <2>1, <3>1, FS_Subset
    <3>3. Cardinality(Ahead') \in Nat
      BY <3>2, FS_CardinalityType
    <3>4. QED
      BY <2>1, <2>2, <3>1, <3>2, <3>3
  <2>3. CASE changes' # changes
    BY <2>1, <2>3
  <2>4. QED
    BY <2>2, <2>3
<1>3. Spec => [][Counts]_vars
  BY AlwaysProgress DEF EveryStepCounts
<1>4. QED
  BY <1>2, <1>3, SpecIInv, PTL

=============================================================================
