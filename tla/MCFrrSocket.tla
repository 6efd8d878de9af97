---------------------------- MODULE MCFrrSocket ----------------------------
(* Two concurrent calls to one daemon: an answer longer than the read       *)
(* buffer, and an empty one (which FRR gives for a feature it lacks).       *)
EXTENDS FrrSocket, TLC

CONSTANTS q1, q2

TwoPayloads == q1 :> <<1, 2, 3>> @@ q2 :> <<>>
=============================================================================
