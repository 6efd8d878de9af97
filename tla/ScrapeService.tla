--------------------------- MODULE ScrapeService ---------------------------
(***************************************************************************)
(* What the exporter promises the monitoring system that scrapes it: every *)
(* request gets exactly one reply, a reply holds exactly one collector_up  *)
(* verdict for every enabled collector, whatever FRR did meanwhile, and    *)
(* its scrapes_total covers the request itself and every request answered  *)
(* before it arrived, without counting requests that have not arrived.     *)
(***************************************************************************)
EXTENDS Naturals, FiniteSets

CONSTANTS Scrapes,      \* the requests that may ever arrive
          Collectors    \* the names of the enabled collectors

VARIABLES arrived,      \* the requests that have arrived
          floor,        \* floor[s]: how many were answered when s arrived
          reply         \* reply[s]: NoReply, or what s was answered

serviceVars == <<arrived, floor, reply>>

NoReply == [total |-> 0, up |-> [c \in Collectors |-> {}]]

Answered == {s \in Scrapes : reply[s] # NoReply}

Init ==
  /\ arrived = {}
  /\ floor = [s \in Scrapes |-> 0]
  /\ reply = [s \in Scrapes |-> NoReply]

\* A request arrives.
Request(s) ==
  /\ s \notin arrived
  /\ arrived' = arrived \cup {s}
  /\ floor' = [floor EXCEPT ![s] = Cardinality(Answered)]
  /\ UNCHANGED reply

\* A request is answered: any verdicts, and a total between the two bounds.
Answer(s) ==
  /\ s \in arrived \ Answered
  /\ \E total \in floor[s] + 1 .. Cardinality(arrived),
        verdict \in [Collectors -> {0, 1}] :
       reply' = [reply EXCEPT ![s] =
                   [total |-> total, up |-> [c \in Collectors |-> {verdict[c]}]]]
  /\ UNCHANGED <<arrived, floor>>

Next == \E s \in Scrapes : Request(s) \/ Answer(s)

Fairness == \A s \in Scrapes : WF_serviceVars(Answer(s))

Spec == Init /\ [][Next]_serviceVars /\ Fairness
=============================================================================
