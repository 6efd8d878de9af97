-------------------------- MODULE FrrSocketProofs --------------------------
(***************************************************************************)
(* Proofs about FrrSocket, for any finite set of calls, any answers, any   *)
(* buffer and any timeout above zero: no call takes longer than its        *)
(* timeout, and none leaks its connection.  Both hold whatever the daemon  *)
(* does, so nothing about the daemon's side is needed in the invariant.    *)
(***************************************************************************)
EXTENDS FrrSocket, TLAPS

\* What the two properties need: the types of the client's variables, and
\* that no time passes before the deadline is set.
ClientTypes ==
  /\ pc \in [Calls -> PCs]
  /\ left \in [Calls -> 0 .. Timeout]
  /\ elapsed \in [Calls -> Nat]
  /\ open \subseteq Calls
NotBegun == \A q \in Calls : pc[q] \in {"idle", "dial", "arm"} => elapsed[q] = 0

IInv == ClientTypes /\ NotBegun /\ WithinTimeout /\ ConnectionReleased

-----------------------------------------------------------------------------
\* The parts of the invariant for one call, apart from its types.
CallInv(q) ==
  /\ pc[q] \in {"idle", "dial", "arm"} => elapsed[q] = 0
  /\ elapsed[q] <= Timeout
  /\ pc[q] \in Connected => elapsed[q] + left[q] = Timeout
  /\ q \in open <=> pc[q] \in Connected \cup {"arm"}

\* The invariant is ClientTypes and CallInv of every call.
LEMMA InvSplit == IInv <=> ClientTypes /\ \A q \in Calls : CallInv(q)
BY DEF IInv, NotBegun, WithinTimeout, ConnectionReleased, CallInv

\* The same in the next state: what each step has to show.
LEMMA InvJoin ==
  ASSUME ClientTypes', \A q \in Calls : CallInv(q)'
  PROVE  IInv'
BY DEF IInv, NotBegun, WithinTimeout, ConnectionReleased, CallInv, ClientTypes

\* Initially no call was made.
LEMMA InitIInv == Init => IInv
<1> SUFFICES ASSUME Init PROVE IInv
  OBVIOUS
<1>1. ClientTypes
  BY TimeoutAssumption DEF Init, ClientTypes, PCs
<1>2. ASSUME NEW q \in Calls PROVE CallInv(q)
  BY TimeoutAssumption DEF Init, CallInv, Connected
<1>3. QED
  BY <1>1, <1>2, InvSplit

\* A step that leaves a call's own variables alone preserves its part.
LEMMA CallFrame ==
  ASSUME NEW q \in Calls, CallInv(q),
         pc'[q] = pc[q], left'[q] = left[q], elapsed'[q] = elapsed[q],
         q \in open' <=> q \in open
  PROVE  CallInv(q)'
BY DEF CallInv, Connected

\* A return with an error, after any statement that follows the dial or at
\* the dial itself, closes what was open.
LEMMA ReturnErrStep ==
  ASSUME IInv, NEW q \in Calls, ReturnErr(q), UNCHANGED timeVars
  PROVE  IInv'
<1>1. ClientTypes /\ \A r \in Calls : CallInv(r)
  BY InvSplit
<1>2. ClientTypes'
  BY <1>1 DEF ClientTypes, ReturnErr, Goto, Close, PCs, timeVars
<1>3. ASSUME NEW r \in Calls, r # q PROVE CallInv(r)'
  <2>1. pc'[r] = pc[r] /\ (r \in open' <=> r \in open)
    BY <1>1, <1>3 DEF ClientTypes, ReturnErr, Goto, Close
  <2>2. QED
    BY <1>1, <2>1, CallFrame DEF timeVars
<1>4. CallInv(q)'
  <2>1. pc'[q] = "returned" /\ q \notin open'
    BY <1>1 DEF ClientTypes, ReturnErr, Goto, Close
  <2>2. QED
    BY <1>1, <2>1 DEF CallInv, Connected, timeVars
<1>5. QED
  BY <1>2, <1>3, <1>4, InvJoin

\* A step between two states of the same connection, which takes no time.
LEMMA ConnectedStep ==
  ASSUME IInv, NEW q \in Calls, NEW l \in Connected, pc[q] \in Connected,
         Goto(q, l) \/ pc' = pc, UNCHANGED timeVars, open' = open
  PROVE  IInv'
<1>1. ClientTypes /\ \A r \in Calls : CallInv(r)
  BY InvSplit
<1>2. ClientTypes'
  BY <1>1 DEF ClientTypes, Goto, PCs, Connected, timeVars
<1>3. ASSUME NEW r \in Calls, r # q PROVE CallInv(r)'
  <2>1. pc'[r] = pc[r]
    BY <1>1, <1>3 DEF ClientTypes, Goto
  <2>2. QED
    BY <1>1, <2>1, CallFrame DEF timeVars
<1>4. CallInv(q)'
  <2>1. pc'[q] \in Connected
    BY <1>1 DEF ClientTypes, Goto
  <2>2. QED
    BY <1>1, <2>1 DEF CallInv, Connected, timeVars
<1>5. QED
  BY <1>2, <1>3, <1>4, InvJoin

\* Calling, dialling and setting the deadline.
LEMMA OpeningStep ==
  ASSUME IInv, NEW q \in Calls, Call(q) \/ Dial(q) \/ SetDeadline(q)
  PROVE  IInv'
<1>1. ClientTypes /\ \A r \in Calls : CallInv(r)
  BY InvSplit
<1>2. CASE ReturnErr(q) /\ UNCHANGED timeVars
  BY <1>2, ReturnErrStep
<1>3. CASE Call(q)
  <2>1. ClientTypes'
    BY <1>1, <1>3 DEF ClientTypes, Call, Goto, PCs, timeVars
  <2>2. ASSUME NEW r \in Calls, r # q PROVE CallInv(r)'
    BY <1>1, <1>3, <2>2, CallFrame DEF Call, Goto, ClientTypes, timeVars
  <2>3. CallInv(q)'
    BY <1>1, <1>3 DEF Call, Goto, ClientTypes, CallInv, Connected, timeVars
  <2>4. QED
    BY <2>1, <2>2, <2>3, InvJoin
<1>4. CASE Dial(q) /\ ~ReturnErr(q)
  <2>1. pc[q] = "dial" /\ Goto(q, "arm") /\ open' = open \cup {q} /\ UNCHANGED timeVars
    BY <1>4 DEF Dial
  <2>2. ClientTypes'
    BY <1>1, <2>1 DEF ClientTypes, Goto, PCs, timeVars
  <2>3. ASSUME NEW r \in Calls, r # q PROVE CallInv(r)'
    BY <1>1, <2>1, <2>3, CallFrame DEF Goto, ClientTypes, timeVars
  <2>4. CallInv(q)'
    BY <1>1, <2>1 DEF Goto, ClientTypes, CallInv, Connected, timeVars
  <2>5. QED
    BY <2>2, <2>3, <2>4, InvJoin
<1>5. CASE SetDeadline(q) /\ ~(ReturnErr(q) /\ UNCHANGED timeVars)
  <2>1. /\ pc[q] = "arm" /\ Goto(q, "wEnable") /\ open' = open
        /\ left' = [left EXCEPT ![q] = Timeout] /\ elapsed' = elapsed
    BY <1>5 DEF SetDeadline, Arm, timeVars
  <2>2. ClientTypes'
    BY <1>1, <2>1, TimeoutAssumption DEF ClientTypes, Goto, PCs
  <2>3. ASSUME NEW r \in Calls, r # q PROVE CallInv(r)'
    BY <1>1, <2>1, <2>3, CallFrame DEF Goto, ClientTypes
  <2>4. CallInv(q)'
    BY <1>1, <2>1, TimeoutAssumption DEF Goto, ClientTypes, CallInv, Connected
  <2>5. QED
    BY <2>2, <2>3, <2>4, InvJoin
<1>6. QED
  BY <1>2, <1>3, <1>4, <1>5 DEF Dial

\* Reading and writing on the connection.
LEMMA TalkingStep ==
  ASSUME IInv, NEW q \in Calls,
         WriteEnable(q) \/ ReadEnable(q) \/ WriteCmd(q) \/ ReadCmd(q)
  PROVE  IInv'
<1>1. ClientTypes /\ \A r \in Calls : CallInv(r)
  BY InvSplit
<1>2. CASE ReturnErr(q) /\ UNCHANGED timeVars
  BY <1>2, ReturnErrStep
<1>3. CASE (WriteEnable(q) \/ WriteCmd(q)) /\ ~ReturnErr(q)
  <2>1. PICK l \in {"rEnable", "rCmd"} : Goto(q, l) /\ open' = open
    BY <1>3 DEF WriteEnable, WriteCmd, Write
  <2>2. l \in Connected /\ pc[q] \in Connected /\ UNCHANGED timeVars
    BY <1>3 DEF WriteEnable, WriteCmd, Write, Connected
  <2>3. QED
    BY <2>1, <2>2, ConnectedStep
<1>4. CASE ReadEnable(q) /\ ~ReturnErr(q)
  <2>1. pc[q] \in Connected /\ "wCmd" \in Connected
    BY <1>4 DEF ReadEnable, Connected
  <2>2. Goto(q, "wCmd") /\ open' = open /\ UNCHANGED timeVars
    BY <1>4 DEF ReadEnable
  <2>3. QED
    BY <2>1, <2>2, ConnectedStep
<1>5. CASE ReadCmd(q) /\ ~ReturnErr(q)
  <2>1. pc[q] \in Connected /\ UNCHANGED timeVars
    BY <1>5 DEF ReadCmd, Connected, DeadlineAbsolute
  <2>2. CASE UNCHANGED <<pc, ok, open>>
    BY <2>1, <2>2, ConnectedStep
  <2>3. CASE Goto(q, "returned") /\ Close(q)
    <3>1. ClientTypes'
      BY <1>1, <2>1, <2>3 DEF ClientTypes, Goto, Close, PCs, timeVars
    <3>2. ASSUME NEW r \in Calls, r # q PROVE CallInv(r)'
      BY <1>1, <2>1, <2>3, <3>2, CallFrame DEF ClientTypes, Goto, Close, timeVars
    <3>3. CallInv(q)'
      BY <1>1, <2>1, <2>3 DEF ClientTypes, Goto, Close, CallInv, Connected, timeVars
    <3>4. QED
      BY <3>1, <3>2, <3>3, InvJoin
  <2>4. QED
    BY <1>5, <2>2, <2>3 DEF ReadCmd
<1>6. CASE ReturnErr(q) /\ ~UNCHANGED timeVars
  BY <1>6 DEF WriteEnable, WriteCmd, Write, ReadEnable, ReadCmd, DeadlineAbsolute
<1>7. QED
  BY <1>2, <1>3, <1>4, <1>5, <1>6

\* Time takes from what is left exactly what it adds to what has elapsed, and
\* only while every waiting call has some left.
LEMMA TickStep == IInv /\ Tick => IInv'
<1> SUFFICES ASSUME IInv, Tick PROVE IInv'
  OBVIOUS
<1>1. ClientTypes /\ \A r \in Calls : CallInv(r)
  BY InvSplit
<1>2. ClientTypes'
  BY <1>1, TimeoutAssumption DEF ClientTypes, Tick, Waiting, clientVars
<1>3. ASSUME NEW q \in Calls PROVE CallInv(q)'
  <2>1. pc' = pc /\ open' = open
    BY DEF Tick, clientVars
  <2>2. CASE q \in Waiting
    <3>1. /\ left'[q] = left[q] - 1 /\ elapsed'[q] = elapsed[q] + 1
          /\ left[q] > 0 /\ pc[q] \in Connected
      BY <2>2 DEF Tick, Waiting
    <3>2. /\ left[q] \in Nat /\ elapsed[q] \in Nat
          /\ elapsed[q] + left[q] = Timeout
          /\ q \in open <=> pc[q] \in Connected \cup {"arm"}
      BY <1>1, <3>1 DEF ClientTypes, CallInv
    <3>3. elapsed'[q] <= Timeout /\ elapsed'[q] + left'[q] = Timeout
      BY <3>1, <3>2, TimeoutAssumption
    <3>4. QED
      BY <2>1, <3>1, <3>2, <3>3 DEF CallInv, Connected
  <2>3. CASE q \notin Waiting
    BY <1>1, <2>1, <2>3, CallFrame DEF Tick
  <2>4. QED
    BY <2>2, <2>3
<1>4. QED
  BY <1>2, <1>3, InvJoin

\* Every step preserves the invariant; those of the daemon touch none of it.
LEMMA NextIInv == IInv /\ [Next]_vars => IInv'
<1> SUFFICES ASSUME IInv, [Next]_vars PROVE IInv'
  OBVIOUS
<1>1. CASE UNCHANGED <<clientVars, left, elapsed>>
  <2>1. ClientTypes /\ \A r \in Calls : CallInv(r)
    BY InvSplit
  <2>2. ClientTypes'
    BY <1>1, <2>1 DEF ClientTypes, clientVars
  <2>3. ASSUME NEW q \in Calls PROVE CallInv(q)'
    BY <1>1, <2>1, CallFrame DEF clientVars
  <2>4. QED
    BY <2>2, <2>3, InvJoin
<1>2. CASE Tick
  BY <1>2, TickStep
<1>3. ASSUME NEW q \in Calls, Call(q) \/ executeCmd(q) PROVE IInv'
  BY <1>3, OpeningStep, TalkingStep DEF executeCmd
<1>4. ASSUME NEW q \in Calls, Daemon(q) PROVE IInv'
  BY <1>1, <1>4 DEF Daemon, AnswerEnable, Execute, WriteSome, Drop, timeVars
<1>5. CASE Quiet \/ UNCHANGED vars
  BY <1>1, <1>5 DEF Quiet, vars, timeVars
<1>6. QED
  BY <1>2, <1>3, <1>4, <1>5 DEF Next

\* The invariant holds in every reachable state.
THEOREM SpecIInv == Spec => []IInv
BY InitIInv, NextIInv, PTL DEF Spec

\* No call of executeCmd takes longer than its timeout: the deadline is set
\* once, and bytes that arrive do not move it.
THEOREM DeadlineKept == Spec => []WithinTimeout
BY SpecIInv, PTL DEF IInv

\* The connection of a call is open exactly between its dial and its return,
\* on every way out of executeCmd.
THEOREM NoLeak == Spec => []ConnectionReleased
BY SpecIInv, PTL DEF IInv

=============================================================================
