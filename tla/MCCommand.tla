----------------------------- MODULE MCCommand -----------------------------
(* Two calls, and one that goes to an OSPF instance; the collectors are     *)
(* ospf, whose constructor may refuse, and one other.                       *)
EXTENDS Command, TLC

CONSTANTS q1, q2, q3

Payloads == q1 :> <<1, 2>> @@ q2 :> <<3>> @@ q3 :> <<>>
TwoCollectors == {"ospf", "route"}
=============================================================================
