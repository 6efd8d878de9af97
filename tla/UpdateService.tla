--------------------------- MODULE UpdateService ---------------------------
(***************************************************************************)
(* What runCollector relies on in the Update of a collector: a run that    *)
(* was begun returns, once, nil or an error, whatever FRR does.  Until     *)
(* then metrics are added to the channel it was given, from any of its     *)
(* goroutines, and none is taken back; from then on none is added.         *)
(***************************************************************************)
CONSTANT Runs           \* the calls of Update that may ever be made

VARIABLES outcome,      \* outcome[r]: "none", "running", or what r returned
          metrics       \* metrics[r]: what r has put on the channel

updateVars == <<outcome, metrics>>

Results == {"ok", "err"}

Init ==
  /\ outcome \in [Runs -> {"none", "running"}]
  /\ metrics = [r \in Runs |-> {}]

Begin(r) ==
  /\ outcome[r] = "none"
  /\ outcome' = [outcome EXCEPT ![r] = "running"]
  /\ UNCHANGED metrics

\* The metrics of r, and of no other run, become more or stay as they are.
Adds(r) ==
  /\ metrics[r] \subseteq metrics'[r]
  /\ metrics' = [metrics EXCEPT ![r] = metrics'[r]]

Send(r) ==
  /\ outcome[r] = "running"
  /\ Adds(r)
  /\ UNCHANGED outcome

\* The last metrics may come with the return: no caller can tell.
Return(r) ==
  /\ outcome[r] = "running"
  /\ \E result \in Results : outcome' = [outcome EXCEPT ![r] = result]
  /\ Adds(r)

Next == \E r \in Runs : Begin(r) \/ Send(r) \/ Return(r)

Returns == \A r \in Runs : outcome[r] = "running" ~> outcome[r] \in Results

Spec == Init /\ [][Next]_updateVars /\ Returns
=============================================================================
