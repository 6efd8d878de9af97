-------------------------- MODULE MCOspfCollector --------------------------
(* Instances of OspfCollector: no OSPF instance, two of them, or one that   *)
(* FRR cannot have after one that it can; and two VRFs whose names differ   *)
(* only in their case.                                                      *)
EXTENDS OspfCollector

NoInstances   == {<<>>}
TwoInstances  == {<<1, 5>>}
ZeroInstance  == {<<5, 0>>}
AllLists      == NoInstances \cup TwoInstances \cup ZeroInstance

PlainVrfs == {"default", "Red"}
CaseVrfs  == {"red", "Red"}
LowerOf(names) == [v \in names |-> IF v = "Red" THEN "red" ELSE v]
PlainLower == LowerOf(PlainVrfs)
CaseLower  == LowerOf(CaseVrfs)
=============================================================================
