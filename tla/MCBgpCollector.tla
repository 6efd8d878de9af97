--------------------------- MODULE MCBgpCollector ---------------------------
(* Instances of BgpCollector: two peers of three, which are in one VRF or   *)
(* have one address in two of them, and one prefix, which is monitored.     *)
(* The conditions tell apart what the metrics tell apart: the prefix        *)
(* accepted, filtered or not received, advertised or not, the states, with  *)
(* and without PfxSnt in the summary and the address family in the          *)
(* neighbours.                                                              *)
EXTENDS BgpCollector, TLC

p1 == <<"default", "10.0.0.1">>
p2 == <<"Red", "10.0.0.1">>
p3 == <<"Red", "10.0.0.2">>
TwoVrfs    == {p1, p2, p3}
PlainLower == "default" :> "default" @@ "Red" :> "red"
pfx == "192.0.2.0/24"
OneRoute == {pfx}

In(state, acc, rej, out, pfxSnt, info) ==
  [state |-> state, accepted |-> acc, rejected |-> rej, advertised |-> out,
   pfxSnt |-> pfxSnt, info |-> info]
Conditions ==
  {In("established", {pfx}, {}, {pfx}, FALSE, TRUE),
   In("established", {}, {pfx}, {}, TRUE, TRUE),
   In("active", {}, {}, {}, TRUE, FALSE),
   In("idle (admin)", {}, {}, {}, FALSE, FALSE)}

\* All the per-peer goroutines, and the L2VPN collector.
Unicast == [l2vpn |-> FALSE, monitored |-> <<pfx>>,
            flags |-> {"types", "hostnames", "groups", "accepted", "advertised"}]
Evpn    == [l2vpn |-> TRUE, monitored |-> <<>>, flags |-> {"descs", "nexthop", "advertised"}]
UnicastAndEvpn == {Unicast, Evpn}

\* One option at a time.
Only(flags, monitored) == {[l2vpn |-> FALSE, flags |-> flags, monitored |-> monitored]}
OnlyAccepted == Only({"accepted"}, <<>>)
OnlyPresence == Only({}, <<pfx>>)
OnlyTypes    == Only({"types"}, <<>>)

\* Two keys with different values; two keys with the same value.
TwoTypes  == p1 :> <<"internet", "primary">> @@ p2 :> <<"internet">> @@ p3 :> <<"primary">>
SameTypes == p1 :> <<"internet", "internet">> @@ p2 :> <<>> @@ p3 :> <<>>
=============================================================================
