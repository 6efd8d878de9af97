--------------------------- MODULE OspfCollector ---------------------------
(***************************************************************************)
(* ospfCollector.Update: four commands, each sent to every configured OSPF *)
(* instance (or once, when none is configured), each answer decoded and    *)
(* turned into metrics per VRF.  VRFs come and go in FRR between commands. *)
(*                                                                         *)
(* A metric is described once, by a list of label names, and sent with a   *)
(* list of label values: only the two orders make the values the ones that *)
(* the names announce.  A value is <<what it is, which one>>.              *)
(***************************************************************************)
EXTENDS Integers, Sequences, FiniteSets

CONSTANTS InstanceLists, \* lists of numbers the flag may give, <<>> if not given
          Vrfs,         \* the VRF names FRR may have
          Lower,        \* Lower[v]: strings.ToLower(v)
          MaxChanges    \* bound: how often the set of VRFs changes

\* Atoi takes any number; FRR counts its instances from 1.
ASSUME IDsAssumption   == InstanceLists \subseteq Seq(Int)
ASSUME LowerAssumption == DOMAIN Lower = Vrfs
ASSUME BoundAssumption == MaxChanges \in Nat

VARIABLES
  instanceIDs, \* the collector's list of instances
  bare,      \* the VRFs without area, active interface and neighbour
  vrfs,      \* the VRFs FRR has now
  changes,   \* how often that has changed
  stayed,    \* the VRFs that were there all the time (observation)
  step,      \* index in the list of steps
  idx,       \* index in instanceIDs
  pc,        \* "query", "emit", "ok" (nil returned), "err", "panic"
  answer,    \* the VRFs of the decoded answer, not yet turned into metrics
  asked,     \* the commands executed so far
  sent,      \* the metrics sent on the channel
  again      \* a metric was sent that had been sent before

frrVars == <<vrfs, changes, stayed>>
vars == <<instanceIDs, bare, frrVars, step, idx, pc, answer, asked, sent, again>>

-----------------------------------------------------------------------------
(* Descriptions and label values.                                          *)

Families == {"router", "area", "iface", "neigh", "maxage"}
PerVrfNames ==
  [router |-> <<"vrf">>,
   area   |-> <<"vrf", "area">>,
   iface  |-> <<"vrf", "iface", "area">>,
   neigh  |-> <<"vrf", "neighbor", "iface", "local_address", "remote_address">>,
   maxage |-> <<"vrf">>]

\* getOSPFDesc and getOSPFIfaceDesc append the instance, getOSPFNeighDesc and
\* getOSPFDataMaxAgeDesc put it first.
Names(f) ==
  IF instanceIDs = <<>> THEN PerVrfNames[f]
  ELSE IF f \in {"neigh", "maxage"} THEN <<"instance">> \o PerVrfNames[f]
  ELSE Append(PerVrfNames[f], "instance")

\* The values for an item of VRF v in the order in which the process functions
\* list them.  An interface, a neighbour and its addresses are of one VRF, an
\* area of the same name may be in several.
Area == <<"area", "backbone">>
PerVrfValues(f, v) ==
  LET vrf     == <<"vrf", Lower[v]>>
      item(n) == <<n, v>>
  IN  [router |-> <<vrf>>,
       area   |-> <<vrf, Area>>,
       iface  |-> <<vrf, item("iface"), Area>>,
       neigh  |-> <<vrf, item("neighbor"), item("iface"),
                    item("local_address"), item("remote_address")>>,
       maxage |-> <<vrf>>][f]

\* With the instance, unless it is 0, which stands for none.
ValuesInstanceLast(f, v, id) ==
  IF id = 0 THEN PerVrfValues(f, v)
  ELSE Append(PerVrfValues(f, v), <<"instance", id>>)
ValuesInstanceLost(f, v, id) ==
  IF id = 0 \/ f = "area" THEN PerVrfValues(f, v)
  ELSE IF f = "neigh" THEN <<<<"instance", id>>>> \o PerVrfValues(f, v)
  ELSE Append(PerVrfValues(f, v), <<"instance", id>>)
Values(f, v, id) ==
  IF id = 0 THEN PerVrfValues(f, v)
  ELSE IF f = "neigh" THEN <<<<"instance", id>>>> \o PerVrfValues(f, v)
  ELSE Append(PerVrfValues(f, v), <<"instance", id>>)

\* What the monitoring system stores: each name with the value at its place.
Series(f, v, id) ==
  [family |-> f,
   label  |-> [n \in {Names(f)[i] : i \in DOMAIN Names(f)} |->
                 Values(f, v, id)[CHOOSE i \in DOMAIN Names(f) : Names(f)[i] = n]]]

\* MustNewConstMetric panics when there are more or fewer values than names.
Mismatch(f, v, id) == Len(Values(f, v, id)) # Len(Names(f))

-----------------------------------------------------------------------------
(* Update.                                                                 *)

\* The metric families each of the four answers is turned into.
Steps == << {"router", "area"}, {"iface"}, {"neigh"}, {"maxage"} >>

Rounds == IF instanceIDs = <<>> THEN 1 ELSE Len(instanceIDs)
IDOfFirst(i) == IF instanceIDs = <<>> THEN 0 ELSE instanceIDs[1]
ID(i)  == IF instanceIDs = <<>> THEN 0 ELSE instanceIDs[i]

Init ==
  /\ instanceIDs \in InstanceLists
  /\ bare \in SUBSET Vrfs
  /\ vrfs \in SUBSET Vrfs
  /\ changes = 0
  /\ stayed = vrfs
  /\ step = 1 /\ idx = 1
  /\ pc = "query"
  /\ answer = {}
  /\ asked = {}
  /\ sent = {}
  /\ again = FALSE

\* A VRF is configured or removed (external).
Change ==
  /\ changes < MaxChanges /\ pc \notin {"ok", "err", "panic"}
  /\ changes' = changes + 1
  /\ \E v \in Vrfs : vrfs' = (vrfs \ {v}) \cup ({v} \ vrfs)
  /\ stayed' = stayed \cap vrfs'
  /\ UNCHANGED <<instanceIDs, bare, step, idx, pc, answer, asked, sent, again>>

\* executeOSPFCommand or executeOSPFMultiInstanceCommand, and json.Unmarshal
\* of the outer map: an answer to work on, or the error that Update returns.
ErrorIgnored == pc' = "emit"
ReturnError  == pc' = "err"
Query ==
  /\ pc = "query"
  /\ asked' = asked \cup {<<step, ID(idx)>>}
  /\ \/ pc' = "emit" /\ answer' = vrfs
     \/ ReturnError /\ UNCHANGED answer
  /\ UNCHANGED <<instanceIDs, bare, frrVars, step, idx, sent, again>>

\* The metrics of one VRF.  It may have no area, only passive interfaces, no
\* neighbour in a state that is in the list.  The interface answer is decoded
\* VRF by VRF, so decoding may still fail when other VRFs have been sent.
Optional == {"area", "iface", "neigh"}
Held(v) == Steps[step] \ (IF v \in bare THEN Optional ELSE {})
Emit(v) ==
  /\ pc = "emit" /\ v \in answer
  /\ \/ /\ \E f \in Held(v) : Mismatch(f, v, ID(idx))
        /\ pc' = "panic"
        /\ UNCHANGED <<answer, sent, again>>
     \/ /\ \A f \in Held(v) : ~Mismatch(f, v, ID(idx))
        /\ LET new == {Series(f, v, ID(idx)) : f \in Held(v)} IN
             /\ sent' = sent \cup new
             /\ again' = (again \/ new \cap sent # {})
        /\ answer' = answer \ {v}
        /\ UNCHANGED pc
     \/ /\ "iface" \in Steps[step]
        /\ pc' = "err"
        /\ UNCHANGED <<answer, sent, again>>
  /\ UNCHANGED <<instanceIDs, bare, frrVars, step, idx, asked>>

\* The answer is done: the next instance, the next step, or return nil.
MoreRounds == idx < Rounds
Advance ==
  /\ pc = "emit" /\ answer = {}
  /\ IF MoreRounds
       THEN idx' = idx + 1 /\ pc' = "query" /\ UNCHANGED step
       ELSE IF step < Len(Steps)
         THEN step' = step + 1 /\ idx' = 1 /\ pc' = "query"
         ELSE pc' = "ok" /\ UNCHANGED <<step, idx>>
  /\ UNCHANGED <<instanceIDs, bare, frrVars, answer, asked, sent, again>>

Update == Query \/ (\E v \in Vrfs : Emit(v)) \/ Advance

Returned == pc \in {"ok", "err", "panic"} /\ UNCHANGED vars

Next == Change \/ Update \/ Returned

Spec == Init /\ [][Next]_vars /\ WF_vars(Update)

-----------------------------------------------------------------------------
(* Correctness.                                                            *)

\* Every variable has its type; sent only holds series that the descriptions
\* and label values of this collector make, none of an instance 0 among them,
\* and answer only VRFs of FRR.
Labelled(i) == ID(i) = 0 <=> instanceIDs = <<>>
AllSeries ==
  {Series(f, v, ID(i)) : f \in Families, v \in Vrfs, i \in {j \in 1 .. Rounds : Labelled(j)}}
TypeOK ==
  /\ instanceIDs \in InstanceLists
  /\ bare \subseteq Vrfs
  /\ vrfs \subseteq Vrfs
  /\ changes \in 0 .. MaxChanges
  /\ stayed \subseteq vrfs
  /\ step \in 1 .. Len(Steps) /\ idx \in 1 .. Rounds
  /\ pc \in {"query", "emit", "ok", "err", "panic"}
  /\ answer \subseteq Vrfs
  /\ asked \subseteq (1 .. Len(Steps)) \X {ID(i) : i \in 1 .. Rounds}
  /\ sent \subseteq AllSeries
  /\ again \in BOOLEAN

\* A metric that is made with more or fewer values than its description has
\* names ends the exporter: MustNewConstMetric panics in the collector's
\* goroutine.  That happens over nothing but an answer of a configured instance
\* 0, which the check of the flag lets through and the values take for none.
PanicsOnlyAtZero == pc = "panic" => instanceIDs # <<>> /\ ID(idx) = 0

\* Every value the monitoring system stores under a label name is what the
\* name says: the two lists, written far apart, agree in their order.
NamedFamilies(fs) ==
  \A m \in sent : m.family \in fs =>
    \A n \in DOMAIN m.label : m.label[n][1] = n
LabelsAsNamed == NamedFamilies(Families \ {"maxage"})

\* The same for frr_ospf_data_ls_max_age.
MaxAgeLabelsAsNamed == NamedFamilies({"maxage"})

\* One Update never sends the same series twice, over all instances, areas
\* and VRFs: the registry answers a scrape that has a duplicate with an error.
UniqueSeries == again = FALSE

\* If Update returns nil, every instance was asked all four questions, and a
\* VRF that was there throughout has all its metrics for every instance, though
\* others came and went between the questions.
CompleteOnSuccess ==
  pc = "ok" =>
    /\ asked = (1 .. Len(Steps)) \X {ID(i) : i \in 1 .. Rounds}
    /\ \A f \in Families, v \in stayed, i \in 1 .. Rounds :
         (f \in Optional /\ v \in bare) \/ Series(f, v, ID(i)) \in sent

\* The collector keeps the promise of UpdateService to its caller: it adds to
\* what it has sent until it returns and nothing afterwards, and it gets through
\* its questions and instances and returns, unless an instance 0 is configured.
Runs    == {"update"}
Outcome == [r \in Runs |-> IF pc \in {"ok", "err"} THEN pc ELSE "running"]
Output  == [r \in Runs |-> sent]
Promise == INSTANCE UpdateService WITH outcome <- Outcome, metrics <- Output
Returns == <>(pc \in {"ok", "err"} \/ \E i \in DOMAIN instanceIDs : instanceIDs[i] = 0)
ImplementsUpdate == Promise!Init /\ [][Promise!Next]_<<Outcome, Output>> /\ Returns

\* What a run has ahead of it: the rounds over steps and instances that are not
\* over, to be asked and to be ended, and the VRFs that each may have to emit.
Here == <<step, idx>>
Open ==
  {r \in (1 .. Len(Steps)) \X (1 .. Rounds) :
     pc \in {"query", "emit"} /\ (r[1] > step \/ (r[1] = step /\ r[2] >= idx))}
Ahead ==
  ({"ask"} \X (IF pc = "emit" THEN Open \ {Here} ELSE Open))
    \cup ({"end"} \X Open)
    \cup ({"vrf"} \X {x \in Open \X Vrfs : pc = "emit" /\ x[1] = Here => x[2] \in answer})

\* Every step of the run is progress: it takes something from what is ahead and
\* adds nothing to it, and no change of FRR adds anything either.  Nothing is
\* tried again, and no list that FRR could make longer is gone through twice.
EveryStepCounts ==
  [][IF changes' = changes THEN Ahead' \subseteq Ahead /\ Ahead' # Ahead
                           ELSE Ahead' = Ahead]_vars

=============================================================================
