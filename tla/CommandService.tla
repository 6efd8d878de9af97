--------------------------- MODULE CommandService ---------------------------
(***************************************************************************)
(* What executeCmd promises its callers: a call that was made returns,     *)
(* once, whatever the daemon does.  Without an error it returns the whole  *)
(* output of its own command and nothing else; with an error it returns a  *)
(* prefix of that output.                                                  *)
(***************************************************************************)
EXTENDS Naturals, Sequences

CONSTANTS Calls,        \* the calls that may ever be made
          Payload       \* Payload[q]: what the daemon outputs for call q

VARIABLES called,       \* the calls that were made
          result        \* result[q]: Pending, or what q returned

commandVars == <<called, result>>

Pending == [done |-> FALSE, ok |-> FALSE, data |-> <<>>]
Returned(ok, data) == [done |-> TRUE, ok |-> ok, data |-> data]

Init == called = {} /\ result = [q \in Calls |-> Pending]

Call(q) ==
  /\ q \notin called
  /\ called' = called \cup {q}
  /\ UNCHANGED result

Return(q) ==
  /\ q \in called
  /\ result[q] = Pending
  /\ \/ result' = [result EXCEPT ![q] = Returned(TRUE, Payload[q])]
     \/ \E n \in 0 .. Len(Payload[q]) :
          result' = [result EXCEPT ![q] = Returned(FALSE, SubSeq(Payload[q], 1, n))]
  /\ UNCHANGED called

Next == \E q \in Calls : Call(q) \/ Return(q)

Spec == Init /\ [][Next]_commandVars /\ \A q \in Calls : WF_commandVars(Return(q))
=============================================================================
