---------------------------- MODULE MCCollectors ----------------------------
(* Instances of Collectors: two VRFs besides "default", and for every        *)
(* collector contents that differ in each thing it turns into metrics.      *)
EXTENDS Collectors, TLC

PlainVrfs  == {"Red", "blue"}
PlainLower == "default" :> "default" @@ "Red" :> "red" @@ "blue" :> "blue"
                @@ "eth0" :> "eth0" @@ "Eth1" :> "eth1"

Table(total, fib, types) == [total |-> total, fib |-> fib, types |-> types]
RouteContents ==
  {[ipv4 |-> Table(3, 2, "bgp" :> 2 @@ "static" :> 1), ipv6 |-> Table(1, 1, "bgp" :> 1)],
   [ipv4 |-> Table(4, 2, "bgp" :> 4),                  ipv6 |-> Table(0, 0, <<>>)]}

Cache(state, preference) == [state |-> state, preference |-> preference]
RpkiContents ==
  {Nothing,
   "a" :> Cache("connected", 10) @@ "b" :> Cache("connecting", 20),
   "a" :> Cache("connecting", 10)}

\* Two neighbours on one interface, one with an uptime that is no time.
PimContents ==
  {Nothing,
   <<"eth0", "n1">> :> 60 @@ <<"eth0", "n2">> :> NoTime,
   <<"eth0", "n1">> :> 61 @@ <<"Eth1", "n1">> :> 5}

Peer(status, uptime) == [status |-> status, uptime |-> uptime]
BfdContents ==
  {Nothing,
   <<"l", "p", "eth0", FALSE>> :> Peer("up", 7) @@ <<"l", "p", "", TRUE>> :> Peer("down", 0),
   <<"l", "p", "eth0", FALSE>> :> Peer("down", 0)}

\* A status is a state in the spelling of the code or in another one, or none.
Vr(text, asIs, sub, adverTx) ==
  [status |-> [text |-> text, asIs |-> asIs], sub |-> sub, adverTx |-> adverTx]
VrrpContents ==
  {Nothing,
   <<"5", "eth0">> :> [v4 |-> Vr("Master", TRUE, "vrrp4-5", {8}),
                       v6 |-> Vr("Backup", FALSE, "vrrp6-5", {})],
   <<"5", "eth0">> :> [v4 |-> Vr("Backup", TRUE, "vrrp4-5", {9}),
                       v6 |-> Vr("Faulty", TRUE, "", {})]}

AllContents ==
  [route |-> RouteContents, rpki |-> RpkiContents, pim |-> PimContents,
   bfd |-> BfdContents, vrrp |-> VrrpContents, status |-> {"10.1", "8.4"}]
=============================================================================
