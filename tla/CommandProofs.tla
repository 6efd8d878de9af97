--------------------------- MODULE CommandProofs ---------------------------
(***************************************************************************)
(* Proofs about Command, for any finite set of calls, any output of FRR,   *)
(* any collectors and any timeout above zero: the safety half of           *)
(* CommandService, what the choice between socket and vtysh promises, and  *)
(* that without sudo every call ends.                                      *)
(***************************************************************************)
EXTENDS Command, SequenceTheorems, TLAPS

\* The calls that have a child process to wait for.
Waits == {"wait", "cancelled", "drain", "drainErr"}

\* The sequences have their types as well.
Types ==
  /\ TypeOK
  /\ todo \in [Calls -> Seq(Nat)]
  /\ pipe \in [Calls -> Seq(Nat)]
  /\ stdout \in [Calls -> Seq(Nat)]

\* Where q is, what has been said to its caller, and who let it go there.
Control(q) ==
  /\ pc[q] = "idle" <=> q \notin called
  /\ pc[q] # "returned" => result[q] = Socket!Pending
  /\ pc[q] = "socket" => ~flags.vtysh
  /\ pc[q] \in Waits \cup {"start"} => flags.vtysh
  /\ q \in late => flags.vtysh /\ flags.sudo

\* The processes: none before Start, and without sudo none that runs after the
\* wait; an exit status of 0 says that everything was written.
Children(q) ==
  /\ pc[q] \in {"idle", "socket", "start"} => sudo[q] = "none" /\ vtysh[q] = "none"
  /\ pc[q] = "wait" /\ ~flags.sudo => vtysh[q] # "none"
  /\ pc[q] \in Waits \ {"wait"} /\ ~flags.sudo => vtysh[q] \in Gone
  /\ vtysh[q] = "ok" => todo[q] = <<>>
  /\ sudo[q] = "ok" => vtysh[q] = "ok"
  /\ pc[q] = "drain" => vtysh[q] = "ok"

\* The output, from the process to the buffer.
Output(q) ==
  /\ pc[q] \in {"idle", "socket", "start"} => pipe[q] = <<>> /\ stdout[q] = <<>>
  /\ pc[q] \in Waits => stdout[q] \o pipe[q] \o todo[q] = Payload[q]

CallInv(q) == Control(q) /\ Children(q) /\ Output(q)

\* An OSPF collector that was constructed was not refused.
Accepted == "ospf" \in built => ~(flags.vtysh /\ flags.instances)

IInv == Types /\ Accepted /\ \A q \in Calls : CallInv(q)

-----------------------------------------------------------------------------
\* The parts of the invariant that the run checks.
LEMMA Consequences ==
  IInv => TypeOK /\ SocketsUntouched /\ LateOnlyBehindSudo /\ OutputConserved
<1> SUFFICES ASSUME IInv
             PROVE  TypeOK /\ SocketsUntouched /\ LateOnlyBehindSudo /\ OutputConserved
  OBVIOUS
<1>1. TypeOK /\ late \subseteq Calls
  BY DEF IInv, Types, TypeOK
<1>2. SocketsUntouched /\ LateOnlyBehindSudo
  BY <1>1 DEF IInv, CallInv, Control, SocketsUntouched, LateOnlyBehindSudo
<1>3. OutputConserved
  BY DEF IInv, CallInv, Output, Waits, OutputConserved
<1>4. QED
  BY <1>1, <1>2, <1>3

\* Initially nothing was constructed and no call was made.
LEMMA InitIInv == Init => IInv
<1> SUFFICES ASSUME Init PROVE IInv
  OBVIOUS
<1>1. Types
  <2>1. <<>> \in Seq(Nat)
    BY EmptySeq
  <2>2. TypeOK
    BY TimeoutAssumption DEF Init, TypeOK, PCs, Procs, Socket!Init
  <2>3. QED
    BY <2>1, <2>2 DEF Init, Types
<1>2. Accepted
  BY DEF Init, Accepted
<1>3. ASSUME NEW q \in Calls PROVE CallInv(q)
  BY DEF Init, CallInv, Control, Children, Output, Waits, Socket!Init
<1>4. QED
  BY <1>1, <1>2, <1>3 DEF IInv

\* A step leaves everything about the call r alone.
Untouched(r) ==
  /\ pc'[r] = pc[r] /\ result'[r] = result[r]
  /\ r \in called' <=> r \in called
  /\ r \in late' <=> r \in late
  /\ sudo'[r] = sudo[r] /\ vtysh'[r] = vtysh[r]
  /\ todo'[r] = todo[r] /\ pipe'[r] = pipe[r] /\ stdout'[r] = stdout[r]

LEMMA CallFrame ==
  ASSUME NEW r \in Calls, CallInv(r), Untouched(r), flags' = flags
  PROVE  CallInv(r)'
BY DEF CallInv, Control, Children, Output, Untouched

\* What a step of one call has to show.
LEMMA CallStep ==
  ASSUME IInv, NEW q \in Calls, startVars' = startVars,
         Types', \A r \in Calls \ {q} : Untouched(r), CallInv(q)'
  PROVE  IInv'
<1>1. flags' = flags /\ built' = built
  BY DEF startVars
<1>2. Accepted'
  BY <1>1 DEF IInv, Accepted
<1>3. ASSUME NEW r \in Calls PROVE CallInv(r)'
  BY <1>1, CallFrame DEF IInv
<1>4. QED
  BY <1>2, <1>3 DEF IInv

-----------------------------------------------------------------------------
\* Start-up: the constructor of ospf refuses vtysh with instances.
LEMMA StartUpStep ==
  ASSUME IInv, (\E c \in Enabled : Construct(c)) \/ Serve
  PROVE  IInv'
<1> USE DEF callVars, timeVars, procVars, bufVars
<1>1. /\ flags' = flags /\ UNCHANGED <<called, result, pc, left, late>>
      /\ UNCHANGED <<sudo, vtysh, todo, pipe, stdout>>
  BY DEF Construct, Serve
<1>2. built' \subseteq Enabled /\ phase' \in {"starting", "serving", "failed"}
  BY DEF IInv, Types, TypeOK, Construct, Serve
<1>3. Types'
  BY <1>1, <1>2 DEF IInv, Types, TypeOK
<1>4. Accepted'
  BY <1>1 DEF IInv, Accepted, Construct, Serve, Refused
<1>5. ASSUME NEW r \in Calls PROVE CallInv(r)'
  BY <1>1, CallFrame DEF IInv, Untouched
<1>6. QED
  BY <1>3, <1>4, <1>5 DEF IInv

\* The choice: a call of an OSPF instance is the one that goes to a socket
\* whatever the flag says, and cannot be made under the flag.
LEMMA CallsStep ==
  ASSUME IInv, NEW q \in Calls, Call(q)
  PROVE  IInv'
<1> USE DEF timeVars, procVars, bufVars
<1>1. /\ pc' = [pc EXCEPT ![q] = IF ByVtysh(q) THEN "start" ELSE "socket"]
      /\ q \notin called /\ called' = called \cup {q} /\ result' = result
      /\ startVars' = startVars
      /\ UNCHANGED <<left, late, sudo, vtysh, todo, pipe, stdout>>
  BY DEF Call, Goto, Socket!Call
<1>2. TypeOK
  BY DEF IInv, Types
<1>3. Types'
  BY <1>1, <1>2 DEF IInv, Types, TypeOK, PCs, startVars
<1>4. \A r \in Calls \ {q} : Untouched(r)
  BY <1>1, <1>2 DEF Untouched, TypeOK
<1>5. pc[q] = "idle" /\ CallInv(q)
  BY <1>1 DEF IInv, CallInv, Control
<1>6. ~ByVtysh(q) => ~flags.vtysh
  BY DEF Call, MayAsk, ByVtysh, IInv, Accepted
<1>7. flags' = flags /\ pc'[q] = IF ByVtysh(q) THEN "start" ELSE "socket"
  BY <1>1, <1>2 DEF startVars, TypeOK
<1>8. CallInv(q)'
  <2>1. \/ pc'[q] = "start" /\ flags'.vtysh
        \/ pc'[q] = "socket" /\ ~flags'.vtysh
    BY <1>6, <1>7 DEF ByVtysh
  <2>2. Control(q)'
    BY <1>1, <1>5, <1>7, <2>1 DEF CallInv, Control, Waits
  <2>3. Children(q)' /\ Output(q)'
    BY <1>1, <1>5, <2>1 DEF CallInv, Children, Output, Waits
  <2>4. QED
    BY <2>2, <2>3 DEF CallInv
<1>9. QED
  BY <1>1, <1>3, <1>4, <1>8, CallStep

\* A return, from the socket or from vtysh.
LEMMA ReturnStep ==
  ASSUME IInv, NEW q \in Calls, pc[q] # "idle", Goto(q, "returned"),
         NEW v, result' = [result EXCEPT ![q] = v],
         UNCHANGED <<startVars, called, timeVars, procVars, bufVars>>
  PROVE  IInv'
<1> USE DEF timeVars, procVars, bufVars
<1>1. /\ pc' = [pc EXCEPT ![q] = "returned"]
      /\ startVars' = startVars /\ called' = called
      /\ UNCHANGED <<left, late, sudo, vtysh, todo, pipe, stdout>>
  BY DEF Goto
<1>2. TypeOK /\ CallInv(q)
  BY DEF IInv, Types
<1>3. Types'
  BY <1>1, <1>2 DEF IInv, Types, TypeOK, PCs, startVars
<1>4. \A r \in Calls \ {q} : Untouched(r)
  BY <1>1, <1>2 DEF Untouched, TypeOK
<1>5. flags' = flags /\ pc'[q] = "returned"
  BY <1>1, <1>2 DEF startVars, TypeOK
<1>6. CallInv(q)'
  BY <1>1, <1>2, <1>5 DEF CallInv, Control, Children, Output, Waits
<1>7. QED
  BY <1>1, <1>3, <1>4, <1>6, CallStep

\* The child is started: vtysh, or sudo.
LEMMA StartedStep ==
  ASSUME IInv, NEW q \in Calls, Start(q), Goto(q, "wait")
  PROVE  IInv'
<1> USE DEF timeVars, procVars, bufVars
<1>1. TypeOK /\ CallInv(q)
  BY DEF IInv, Types
<1>2. /\ pc[q] = "start" /\ pc' = [pc EXCEPT ![q] = "wait"]
      /\ startVars' = startVars /\ called' = called
      /\ UNCHANGED <<left, late, pipe, stdout>>
  BY DEF Start, Goto
<1>3. flags' = flags /\ pc'[q] = "wait"
  BY <1>1, <1>2 DEF startVars, TypeOK
<1>4. /\ result' = result
      /\ todo' = [todo EXCEPT ![q] = Payload[q]]
      /\ \/ flags.sudo /\ sudo' = [sudo EXCEPT ![q] = "running"] /\ UNCHANGED vtysh
         \/ ~flags.sudo /\ vtysh' = [vtysh EXCEPT ![q] = "running"] /\ UNCHANGED sudo
  BY <1>1, <1>3 DEF Start, Return, Goto, TypeOK
<1>5. Types'
  BY <1>1, <1>2, <1>4, PayloadAssumption DEF IInv, Types, TypeOK, PCs, Procs, startVars
<1>6. \A r \in Calls \ {q} : Untouched(r)
  BY <1>1, <1>2, <1>4 DEF Untouched, TypeOK, IInv, Types
<1>7. /\ pipe'[q] = <<>> /\ stdout'[q] = <<>> /\ todo'[q] = Payload[q]
      /\ Payload[q] \in Seq(Nat)
  BY <1>1, <1>2, <1>4, PayloadAssumption DEF CallInv, Output, IInv, Types
<1>8. stdout'[q] \o pipe'[q] \o todo'[q] = Payload[q]
  BY <1>7, ConcatEmptySeq, EmptySeq
<1>9. Output(q)'
  BY <1>3, <1>8 DEF Output
<1>10. Control(q)'
  BY <1>1, <1>2, <1>3, <1>4 DEF CallInv, Control, Waits
<1>11. Children(q)'
  BY <1>1, <1>2, <1>3, <1>4 DEF CallInv, Children, Waits, TypeOK
<1>12. QED
  BY <1>2, <1>5, <1>6, <1>9, <1>10, <1>11, CallStep DEF CallInv

\* Cancelling: without sudo nothing runs on.
LEMMA CancelStep ==
  ASSUME IInv, NEW q \in Calls, Cancel(q)
  PROVE  IInv'
<1> USE DEF timeVars, bufVars
<1>1. TypeOK /\ CallInv(q)
  BY DEF IInv, Types
<1>2. /\ pc[q] = "wait" /\ pc' = [pc EXCEPT ![q] = "cancelled"]
      /\ startVars' = startVars /\ called' = called /\ result' = result
      /\ UNCHANGED <<left, late, todo, pipe, stdout>>
  BY DEF Cancel, Goto
<1>3. flags' = flags /\ pc'[q] = "cancelled"
  BY <1>1, <1>2 DEF startVars, TypeOK
<1>4. /\ sudo' \in {sudo, [sudo EXCEPT ![q] = IF @ = "running" THEN "killed" ELSE @]}
      /\ vtysh' \in {vtysh, [vtysh EXCEPT ![q] = IF @ = "running" THEN "killed" ELSE @]}
      /\ ~flags.sudo => vtysh' = [vtysh EXCEPT ![q] = IF @ = "running" THEN "killed" ELSE @]
  BY <1>1 DEF Cancel, Kill, TypeOK
<1>5. Types'
  BY <1>1, <1>2, <1>4 DEF IInv, Types, TypeOK, PCs, Procs, Gone, startVars
<1>6. \A r \in Calls \ {q} : Untouched(r)
  BY <1>1, <1>2, <1>4 DEF Untouched, TypeOK
<1>7. Control(q)' /\ Output(q)'
  BY <1>1, <1>2, <1>3 DEF CallInv, Control, Output, Waits
<1>8. /\ sudo'[q] = sudo[q] \/ sudo'[q] = "killed"
      /\ vtysh'[q] = vtysh[q] \/ (vtysh'[q] = "killed" /\ vtysh[q] = "running")
      /\ ~flags.sudo => vtysh'[q] # "running"
      /\ vtysh[q] \in Procs /\ vtysh'[q] \in Procs
  BY <1>1, <1>4 DEF TypeOK, Procs, Gone
<1>9. Children(q)'
  BY <1>1, <1>2, <1>3, <1>8 DEF CallInv, Children, Waits, Procs, Gone
<1>10. QED
  BY <1>2, <1>5, <1>6, <1>7, <1>9, CallStep DEF CallInv

\* The child has ended: an exit status of 0 is that of vtysh, with or without
\* sudo, and vtysh has then written everything.
LEMMA ReapStep ==
  ASSUME IInv, NEW q \in Calls, Reap(q)
  PROVE  IInv'
<1> USE DEF timeVars, procVars, bufVars
<1>1. TypeOK /\ CallInv(q)
  BY DEF IInv, Types
<1>2. /\ pc[q] \in {"wait", "cancelled"} /\ Child(q) \in Gone
      /\ pc' = [pc EXCEPT ![q] = IF pc[q] = "wait" /\ Child(q) = "ok"
                                   THEN "drain" ELSE "drainErr"]
      /\ startVars' = startVars /\ called' = called /\ result' = result
      /\ UNCHANGED <<left, late, sudo, vtysh, todo, pipe, stdout>>
  BY DEF Reap, Goto
<1>3. /\ flags' = flags
      /\ pc'[q] = "drainErr" \/ (pc'[q] = "drain" /\ Child(q) = "ok")
  BY <1>1, <1>2 DEF startVars, TypeOK
<1>4. Types'
  BY <1>1, <1>2 DEF IInv, Types, TypeOK, PCs, startVars
<1>5. \A r \in Calls \ {q} : Untouched(r)
  BY <1>1, <1>2 DEF Untouched, TypeOK
<1>6. Control(q)' /\ Output(q)'
  BY <1>1, <1>2, <1>3 DEF CallInv, Control, Output, Waits
<1>7. Children(q)'
  BY <1>1, <1>2, <1>3 DEF CallInv, Children, Child, Waits, Gone
<1>8. QED
  BY <1>2, <1>4, <1>5, <1>6, <1>7, CallStep DEF CallInv

\* Concatenation of outputs is an output, and is associative.
LEMMA ConcatType ==
  \A a, b \in Seq(Nat) : a \o b \in Seq(Nat)
BY ConcatProperties

LEMMA Assoc ==
  \A a, b, c \in Seq(Nat) : (a \o b) \o c = a \o (b \o c)
BY ConcatAssociative

\* Bytes that move from the process into the pipe stay in their order.
LEMMA Cut ==
  \A c \in Seq(Nat) : \A n \in 1 .. Len(c) :
    /\ SubSeq(c, 1, n) \in Seq(Nat) /\ SubSeq(c, n + 1, Len(c)) \in Seq(Nat)
    /\ SubSeq(c, 1, n) \o SubSeq(c, n + 1, Len(c)) = c
<1> TAKE c \in Seq(Nat)
<1> TAKE n \in 1 .. Len(c)
<1>1. Len(c) \in Nat /\ \A i \in 1 .. Len(c) : c[i] \in Nat
  BY LenProperties, ElementOfSeq
<1>2. SubSeq(c, 1, n) \in Seq(Nat)
  BY <1>1, SubSeqProperties
<1>3. SubSeq(c, n + 1, Len(c)) \in Seq(Nat)
  BY <1>1, SubSeqProperties
<1>4. SubSeq(c, 1, n) \o SubSeq(c, n + 1, Len(c)) = SubSeq(c, 1, Len(c))
  <2>1. 1 \in 1 .. Len(c) + 1 /\ n \in 1 - 1 .. Len(c) /\ Len(c) \in n .. Len(c)
    BY <1>1
  <2>2. QED
    BY <2>1, ConcatAdjacentSubSeq
<1>5. QED
  BY <1>2, <1>3, <1>4, SubSeqFull

\* vtysh writes into the pipe; the goroutine copies the pipe into the buffer.
LEMMA PipeStep ==
  ASSUME IInv, NEW q \in Calls, VtyshWrites(q) \/ Copy(q)
  PROVE  IInv'
<1> USE DEF timeVars, callVars, procVars
<1>1. TypeOK /\ CallInv(q)
  BY DEF IInv, Types
<1>2. /\ startVars' = startVars /\ flags' = flags
      /\ UNCHANGED <<called, result, pc, left, late, sudo, vtysh>>
  BY DEF VtyshWrites, Copy, startVars
<1>3. /\ todo[q] \in Seq(Nat) /\ pipe[q] \in Seq(Nat) /\ stdout[q] \in Seq(Nat)
      /\ <<>> \in Seq(Nat)
  BY EmptySeq DEF IInv, Types
<1>4. /\ todo' = [todo EXCEPT ![q] = todo'[q]] /\ todo'[q] \in Seq(Nat)
      /\ pipe' = [pipe EXCEPT ![q] = pipe'[q]] /\ pipe'[q] \in Seq(Nat)
      /\ stdout' = [stdout EXCEPT ![q] = stdout'[q]] /\ stdout'[q] \in Seq(Nat)
      /\ stdout'[q] \o pipe'[q] \o todo'[q] = stdout[q] \o pipe[q] \o todo[q]
      /\ vtysh[q] = "running" \/ todo'[q] = todo[q]
  <2>1. CASE VtyshWrites(q)
    <3>1. PICK n \in 1 .. Len(todo[q]) :
            /\ pipe' = [pipe EXCEPT ![q] = @ \o SubSeq(todo[q], 1, n)]
            /\ todo' = [todo EXCEPT ![q] = SubSeq(@, n + 1, Len(@))]
      BY <2>1 DEF VtyshWrites
    <3>2. /\ pipe' = [pipe EXCEPT ![q] = pipe'[q]]
          /\ pipe'[q] = pipe[q] \o SubSeq(todo[q], 1, n)
          /\ todo' = [todo EXCEPT ![q] = todo'[q]]
          /\ todo'[q] = SubSeq(todo[q], n + 1, Len(todo[q]))
      BY <3>1 DEF IInv, Types
    <3>3. /\ stdout'[q] = stdout[q] /\ stdout' = [stdout EXCEPT ![q] = stdout'[q]]
          /\ vtysh[q] = "running"
      BY <2>1 DEF VtyshWrites, IInv, Types
    <3>4. PICK x, y \in Seq(Nat) :
            x = SubSeq(todo[q], 1, n) /\ y = SubSeq(todo[q], n + 1, Len(todo[q]))
            /\ x \o y = todo[q]
      BY <1>3, Cut
    <3>5. pipe'[q] = pipe[q] \o x /\ todo'[q] = y
      BY <3>2, <3>4
    <3>6. pipe[q] \o x \in Seq(Nat)
      BY <1>3, ConcatType, Zenon
    <3>7. (stdout[q] \o (pipe[q] \o x)) \o y = (stdout[q] \o pipe[q]) \o (x \o y)
      <4>1. stdout[q] \o pipe[q] \in Seq(Nat)
        BY <1>3, ConcatType, Zenon
      <4>2. (stdout[q] \o pipe[q]) \o x = stdout[q] \o (pipe[q] \o x)
        BY <1>3, Assoc, Zenon
      <4>3. ((stdout[q] \o pipe[q]) \o x) \o y = (stdout[q] \o pipe[q]) \o (x \o y)
        BY <4>1, Assoc, Zenon
      <4>4. QED
        BY <4>2, <4>3, Zenon
    <3>8. stdout'[q] \o pipe'[q] \o todo'[q] = stdout[q] \o pipe[q] \o todo[q]
      <4>1. stdout'[q] \o pipe'[q] \o todo'[q] = (stdout[q] \o (pipe[q] \o x)) \o y
        BY <3>3, <3>5
      <4>2. (stdout[q] \o pipe[q]) \o (x \o y) = stdout[q] \o pipe[q] \o todo[q]
        BY <3>4
      <4>3. QED
        BY <3>7, <4>1, <4>2
    <3>9. pipe'[q] \in Seq(Nat) /\ todo'[q] \in Seq(Nat) /\ stdout'[q] \in Seq(Nat)
      BY <1>3, <3>3, <3>5, <3>6, Zenon
    <3>10. QED
      BY <3>2, <3>3, <3>8, <3>9, Zenon
  <2>2. CASE Copy(q)
    <3>1. /\ pipe' = [pipe EXCEPT ![q] = <<>>]
          /\ stdout' = [stdout EXCEPT ![q] = stdout[q] \o pipe[q]]
          /\ todo' = todo
      BY <2>2 DEF Copy, Appended
    <3>2. /\ pipe' = [pipe EXCEPT ![q] = pipe'[q]] /\ pipe'[q] = <<>>
          /\ stdout' = [stdout EXCEPT ![q] = stdout'[q]]
          /\ stdout'[q] = stdout[q] \o pipe[q]
          /\ todo' = [todo EXCEPT ![q] = todo'[q]] /\ todo'[q] = todo[q]
      BY <3>1 DEF IInv, Types
    <3>3. stdout'[q] \in Seq(Nat)
      BY <1>3, <3>2, ConcatProperties
    <3>4. stdout'[q] \o pipe'[q] = stdout[q] \o pipe[q]
      BY <3>2, <3>3, ConcatEmptySeq
    <3>5. QED
      BY <1>3, <3>2, <3>3, <3>4
  <2>3. QED
    BY <2>1, <2>2
<1>5. Types'
  BY <1>1, <1>2, <1>4 DEF IInv, Types, TypeOK, startVars
<1>6. \A r \in Calls \ {q} : Untouched(r)
  BY <1>2, <1>4 DEF Untouched, IInv, Types
<1>7. Control(q)'
  BY <1>1, <1>2 DEF CallInv, Control
<1>8. Children(q)'
  BY <1>1, <1>2, <1>4 DEF CallInv, Children
<1>9. Output(q)'
  <2>1. pc[q] \in {"idle", "socket", "start"} => pipe'[q] = <<>> /\ stdout'[q] = <<>>
    <3> SUFFICES ASSUME pc[q] \in {"idle", "socket", "start"}
                 PROVE  pipe'[q] = <<>> /\ stdout'[q] = <<>>
      OBVIOUS
    <3>1. vtysh[q] = "none" /\ pipe[q] = <<>>
      BY <1>1 DEF CallInv, Children, Output
    <3>2. QED
      BY <3>1 DEF VtyshWrites, Copy
  <2>2. QED
    BY <1>1, <1>2, <1>4, <2>1 DEF CallInv, Output
<1>10. QED
  BY <1>2, <1>5, <1>6, <1>7, <1>8, <1>9, CallStep DEF CallInv

\* sudo and vtysh start vtysh and exit: with 0 only if everything is written.
LEMMA ProcessStep ==
  ASSUME IInv, NEW q \in Calls, Sudo(q) \/ VtyshExits(q)
  PROVE  IInv'
<1> USE DEF timeVars, callVars, bufVars
<1>1. TypeOK /\ CallInv(q) /\ vtysh[q] \in Procs /\ sudo[q] \in Procs
  BY DEF IInv, Types, TypeOK
<1>2. /\ startVars' = startVars /\ flags' = flags
      /\ UNCHANGED <<called, result, pc, left, late, todo, pipe, stdout>>
  BY DEF Sudo, VtyshExits, startVars
<1>3. /\ sudo' = [sudo EXCEPT ![q] = sudo'[q]] /\ sudo'[q] \in Procs
      /\ vtysh' = [vtysh EXCEPT ![q] = vtysh'[q]] /\ vtysh'[q] \in Procs
      /\ sudo[q] = "running" \/ sudo'[q] = sudo[q]
      /\ vtysh'[q] = vtysh[q] \/ (vtysh[q] = "none" /\ vtysh'[q] = "running")
                              \/ (vtysh[q] = "running" /\ vtysh'[q] \in {"ok", "failed"})
      /\ vtysh'[q] = "ok" /\ vtysh[q] # "ok" => todo[q] = <<>>
      /\ vtysh[q] = "none" /\ vtysh'[q] = "running" => sudo[q] = "running"
      /\ sudo'[q] = "ok" /\ sudo[q] # "ok" => vtysh[q] = "ok" /\ vtysh'[q] = "ok"
      /\ vtysh[q] = "none" => sudo[q] = "running"
  <2>1. CASE Sudo(q)
    BY <1>1, <2>1 DEF Sudo, TypeOK, Procs, Gone
  <2>2. CASE VtyshExits(q)
    BY <1>1, <2>2 DEF VtyshExits, TypeOK, Procs, Gone
  <2>3. QED
    BY <2>1, <2>2
<1>4. Types'
  BY <1>1, <1>2, <1>3 DEF IInv, Types, TypeOK, startVars
<1>5. \A r \in Calls \ {q} : Untouched(r)
  BY <1>1, <1>2, <1>3 DEF Untouched, TypeOK
<1>6. Control(q)' /\ Output(q)'
  BY <1>1, <1>2 DEF CallInv, Control, Output
<1>7. Children(q)'
  BY <1>1, <1>2, <1>3 DEF CallInv, Children, Waits, Procs, Gone
<1>8. QED
  BY <1>2, <1>4, <1>5, <1>6, <1>7, CallStep DEF CallInv

\* Time: a call that is past its deadline and has nothing to do at once waits
\* for sudo, or for the vtysh that sudo left behind.
LEMMA TickStep ==
  ASSUME IInv, Tick
  PROVE  IInv'
<1> USE DEF startVars, callVars, procVars, bufVars
<1>1. TypeOK /\ \A q \in Calls : CallInv(q)
  BY DEF IInv, Types
<1>2. /\ UNCHANGED <<flags, built, phase, called, result, pc>>
      /\ UNCHANGED <<sudo, vtysh, todo, pipe, stdout>>
      /\ late' = late \cup {q \in Waiting : left[q] = 0}
      /\ \A q \in Waiting : ~Urgent(q)
  BY DEF Tick, Waiting
<1>3. left' \in [Calls -> 0 .. Timeout]
  BY <1>1, TimeoutAssumption DEF Tick, TypeOK, Countdown
<1>4. Types' /\ Accepted'
  BY <1>1, <1>2, <1>3 DEF IInv, Types, TypeOK, Accepted, Waiting
<1>5. ASSUME NEW q \in Calls PROVE CallInv(q)'
  <2>1. CallInv(q)
    BY <1>1
  <2>2. Children(q)' /\ Output(q)'
    BY <1>2, <2>1 DEF CallInv, Children, Output
  <2>3. ASSUME q \in Waiting, left[q] = 0 PROVE flags.vtysh /\ flags.sudo
    <3>1. /\ ~Urgent(q) /\ pc[q] \in Waits /\ pc[q] # "wait"
      BY <1>2, <2>3 DEF Waiting, Waits, Urgent
    <3>2. ~flags.sudo => vtysh[q] \in Gone
      BY <2>1, <3>1 DEF CallInv, Children
    <3>3. flags.vtysh
      BY <2>1, <3>1 DEF CallInv, Control
    <3>4. flags.sudo \in BOOLEAN
      BY <1>1 DEF TypeOK
    <3>5. QED
      BY <3>1, <3>2, <3>3, <3>4 DEF Urgent, Child, Waits, Gone
  <2>4. Control(q)'
    BY <1>2, <2>1, <2>3 DEF CallInv, Control
  <2>5. QED
    BY <2>2, <2>4 DEF CallInv
<1>6. QED
  BY <1>4, <1>5 DEF IInv

\* Every step preserves the invariant.
LEMMA NextIInv == IInv /\ [Next]_vars => IInv'
<1> SUFFICES ASSUME IInv, [Next]_vars PROVE IInv'
  OBVIOUS
<1>1. CASE UNCHANGED vars
  <2>1. /\ UNCHANGED <<flags, built, phase, called, result, pc, left, late>>
        /\ UNCHANGED <<sudo, vtysh, todo, pipe, stdout>>
    BY <1>1 DEF vars, startVars, callVars, timeVars, procVars, bufVars
  <2>2. Types' /\ Accepted'
    BY <2>1 DEF IInv, Types, TypeOK, Accepted
  <2>3. ASSUME NEW q \in Calls PROVE CallInv(q)'
    BY <2>1, CallFrame DEF IInv, Untouched
  <2>4. QED
    BY <2>2, <2>3 DEF IInv
<1>2. CASE (\E c \in Enabled : Construct(c)) \/ Serve
  BY <1>2, StartUpStep
<1>3. CASE Tick
  BY <1>3, TickStep
<1>4. ASSUME NEW q \in Calls, Call(q) \/ SocketReturns(q) PROVE IInv'
  <2>1. CASE Call(q)
    BY <2>1, CallsStep
  <2>2. CASE SocketReturns(q)
    <3>1. PICK v : result' = [result EXCEPT ![q] = v]
      BY <2>2 DEF SocketReturns, Socket!Return
    <3>2. called' = called
      BY <2>2 DEF SocketReturns, Socket!Return
    <3>3. QED
      BY <2>2, <3>1, <3>2, ReturnStep DEF SocketReturns
  <2>3. QED
    BY <1>4, <2>1, <2>2
<1>5. ASSUME NEW q \in Calls, execVtyshCommand(q) PROVE IInv'
  <2>1. CASE Start(q) /\ Goto(q, "wait")
    BY <2>1, StartedStep
  <2>2. CASE Start(q) /\ ~Goto(q, "wait")
    <3>1. pc[q] = "start" /\ Return(q, FALSE, <<>>) /\ UNCHANGED <<startVars, called, timeVars, procVars, bufVars>>
      BY <2>2 DEF Start
    <3>2. QED
      BY <3>1, ReturnStep DEF Return
  <2>3. CASE Finish(q)
    <3>1. pc[q] # "idle" /\ Return(q, pc[q] = "drain", stdout[q])
      BY <2>3 DEF Finish
    <3>2. QED
      BY <2>3, <3>1, ReturnStep DEF Return, Finish
  <2>4. QED
    BY <1>5, <2>1, <2>2, <2>3, CancelStep, ReapStep, PipeStep DEF execVtyshCommand
<1>6. ASSUME NEW q \in Calls, Processes(q) PROVE IInv'
  BY <1>6, ProcessStep, PipeStep DEF Processes
<1>7. CASE Quiet
  BY <1>1, <1>7 DEF Quiet
<1>8. QED
  BY <1>1, <1>2, <1>3, <1>4, <1>5, <1>6, <1>7 DEF Next

LEMMA Invariance == Spec => []IInv
<1>1. QED
  BY InitIInv, NextIInv, PTL DEF Spec

-----------------------------------------------------------------------------
\* The front of an answer is what CommandService allows beside an error, and
\* an error before anything was read is beside the front of no bytes.
LEMMA Fronts ==
  \A c \in Seq(Nat) :
    /\ \A a, b \in Seq(Nat) : a \o b = c => Len(a) \in 0 .. Len(c) /\ a = SubSeq(c, 1, Len(a))
    /\ 0 \in 0 .. Len(c) /\ <<>> = SubSeq(c, 1, 0)
<1> TAKE c \in Seq(Nat)
<1>1. Len(c) \in Nat /\ 0 \in 0 .. Len(c)
  BY LenProperties
<1>2. <<>> = SubSeq(c, 1, 0)
  BY SubSeqEmpty
<1>3. ASSUME NEW a \in Seq(Nat), NEW b \in Seq(Nat), a \o b = c
      PROVE  Len(a) \in 0 .. Len(c) /\ a = SubSeq(c, 1, Len(a))
  <2>1. /\ Len(a) \in Nat /\ Len(b) \in Nat /\ Len(c) = Len(a) + Len(b)
        /\ \A i \in 1 .. Len(a) : c[i] = a[i] /\ a[i] \in Nat
    BY <1>3, ConcatProperties, LenProperties, ElementOfSeq
  <2>2. /\ SubSeq(c, 1, Len(a)) \in Seq(Nat) /\ Len(SubSeq(c, 1, Len(a))) = Len(a)
        /\ \A i \in 1 .. Len(a) : SubSeq(c, 1, Len(a))[i] = c[i]
    BY <2>1, SubSeqProperties
  <2>3. a = SubSeq(c, 1, Len(a))
    BY <2>1, <2>2, SeqEqual
  <2>4. QED
    BY <2>1, <2>3
<1>4. QED
  BY <1>1, <1>2, <1>3

\* A return of execVtyshCommand is one that CommandService allows.
LEMMA ReturnRefines ==
  ASSUME IInv, NEW q \in Calls, pc[q] \notin {"idle", "returned"}, called' = called,
         \/ /\ result' = [result EXCEPT ![q] = Socket!Returned(TRUE, Payload[q])]
         \/ \E n \in 0 .. Len(Payload[q]) :
              result' = [result EXCEPT ![q] = Socket!Returned(FALSE, SubSeq(Payload[q], 1, n))]
  PROVE  Socket!Next
<1>1. q \in called /\ result[q] = Socket!Pending
  BY DEF IInv, CallInv, Control
<1>2. Socket!Return(q)
  BY <1>1 DEF Socket!Return
<1>3. QED
  BY <1>2 DEF Socket!Next

\* With a status of 0 the buffer holds the whole answer when the pipe ends.
LEMMA FinishRefines ==
  ASSUME IInv, NEW q \in Calls, Finish(q)
  PROVE  Socket!Next
<1>1. /\ pc[q] \in {"drain", "drainErr"} /\ pipe[q] = <<>> /\ called' = called
      /\ result' = [result EXCEPT ![q] = Socket!Returned(pc[q] = "drain", stdout[q])]
  BY DEF Finish, EndOfPipe, Return
<1>2. /\ stdout[q] \o pipe[q] \o todo[q] = Payload[q]
      /\ pc[q] = "drain" => todo[q] = <<>>
  BY <1>1 DEF IInv, CallInv, Output, Children, Waits
<1>3. /\ stdout[q] \in Seq(Nat) /\ todo[q] \in Seq(Nat) /\ Payload[q] \in Seq(Nat)
  BY PayloadAssumption DEF IInv, Types
<1>4. stdout[q] \o todo[q] = Payload[q]
  <2>1. stdout[q] \o <<>> = stdout[q]
    BY <1>3, ConcatEmptySeq
  <2>2. QED
    BY <1>1, <1>2, <2>1
<1>5. CASE pc[q] = "drain"
  <2>1. stdout[q] = Payload[q]
    BY <1>2, <1>3, <1>4, <1>5, ConcatEmptySeq
  <2>2. result' = [result EXCEPT ![q] = Socket!Returned(TRUE, Payload[q])]
    BY <1>1, <1>5, <2>1
  <2>3. QED
    BY <1>1, <2>2, ReturnRefines
<1>6. CASE pc[q] = "drainErr"
  <2>1. /\ Len(stdout[q]) \in 0 .. Len(Payload[q])
        /\ stdout[q] = SubSeq(Payload[q], 1, Len(stdout[q]))
    BY <1>3, <1>4, Fronts
  <2>2. (pc[q] = "drain") = FALSE
    BY <1>6
  <2>3. result' = [result EXCEPT ![q] =
                     Socket!Returned(FALSE, SubSeq(Payload[q], 1, Len(stdout[q])))]
    BY <1>1, <2>1, <2>2
  <2>4. QED
    BY <1>1, <2>1, <2>3, ReturnRefines
<1>7. QED
  BY <1>1, <1>5, <1>6

\* Every step is one of CommandService, or nothing that a caller sees.
LEMMA StepRefines == IInv /\ [Next]_vars => [Socket!Next]_<<called, result>>
<1> SUFFICES ASSUME IInv, [Next]_vars, ~UNCHANGED <<called, result>> PROVE Socket!Next
  OBVIOUS
<1> USE DEF vars, startVars, callVars, timeVars, procVars, bufVars
<1>1. ASSUME NEW q \in Calls, Call(q) \/ SocketReturns(q) PROVE Socket!Next
  BY <1>1 DEF Call, SocketReturns, Socket!Next
<1>2. ASSUME NEW q \in Calls, Start(q) PROVE Socket!Next
  <2>1. /\ pc[q] = "start" /\ called' = called
        /\ result' = [result EXCEPT ![q] = Socket!Returned(FALSE, <<>>)]
    BY <1>2 DEF Start, Return
  <2>2. Payload[q] \in Seq(Nat)
    BY PayloadAssumption
  <2>3. 0 \in 0 .. Len(Payload[q]) /\ <<>> = SubSeq(Payload[q], 1, 0)
    BY <2>2, Fronts
  <2>4. QED
    BY <2>1, <2>3, ReturnRefines
<1>3. ASSUME NEW q \in Calls, Finish(q) PROVE Socket!Next
  BY <1>3, FinishRefines
<1>4. ASSUME NEW q \in Calls, Cancel(q) \/ Reap(q) \/ Copy(q) \/ Processes(q) PROVE FALSE
  BY <1>4 DEF Cancel, Reap, Copy, Processes, Sudo, VtyshWrites, VtyshExits
<1>5. CASE (\E c \in Enabled : Construct(c)) \/ Serve \/ Tick \/ Quiet
  BY <1>5 DEF Construct, Serve, Tick, Quiet
<1>6. QED
  BY <1>1, <1>2, <1>3, <1>4, <1>5 DEF Next, execVtyshCommand

-----------------------------------------------------------------------------
\* Every reachable state is typed: no deadline goes below zero.
THEOREM TypeCorrect == Spec => []TypeOK
BY Invariance, Consequences, PTL

\* With --frr.vtysh no command ever goes to a socket, the commands of OSPF
\* instances included (executeOSPFMultiInstanceCommand, NewOSPFCollector).
THEOREM NoSocketWithVtysh == Spec => []SocketsUntouched
BY Invariance, Consequences, PTL

\* Without sudo no call of execVtyshCommand goes on after its deadline.
THEOREM InTimeWithoutSudo == Spec => []LateOnlyBehindSudo
BY Invariance, Consequences, PTL

\* No output of vtysh is lost or reordered on its way into the buffer.
THEOREM NothingLost == Spec => []OutputConserved
BY Invariance, Consequences, PTL

\* A command that goes through vtysh, or sudo and vtysh, is one that goes
\* through the socket, as far as safety goes: the whole output, or an error.
THEOREM Refinement == Spec => ImplementsCommandSafety
<1>1. Init => Socket!Init
  BY DEF Init
<1>2. QED
  BY <1>1, Invariance, StepRefines, PTL DEF Spec, ImplementsCommandSafety

-----------------------------------------------------------------------------
(* Calls end; what holds of their processes at each point of a call.       *)

\* Once the child was waited for, sudo has ended, or was never there; once a
\* call has returned, vtysh has ended too and nothing is left in the pipe.
Reaped(q) ==
  /\ pc[q] \in {"drain", "drainErr", "returned"} \/ ~flags.sudo => sudo[q] # "running"
  /\ pc[q] = "returned" => vtysh[q] # "running" /\ pipe[q] = <<>>

AllReaped == \A q \in Calls : Reaped(q)

\* A step leaves what Reaped says of the call r alone.
LEMMA ReapedFrame ==
  ASSUME NEW r \in Calls, Reaped(r), flags' = flags, pc'[r] = pc[r],
         sudo'[r] = sudo[r], vtysh'[r] = vtysh[r], pipe'[r] = pipe[r]
  PROVE  Reaped(r)'
BY DEF Reaped

\* The steps of a call or its processes are no steps of another call.
LEMMA OthersFrame ==
  ASSUME Types, NEW q \in Calls, NEW r \in Calls, r # q,
         Call(q) \/ SocketReturns(q) \/ execVtyshCommand(q) \/ Processes(q)
  PROVE  /\ flags' = flags /\ pc'[r] = pc[r] /\ left'[r] = left[r]
         /\ sudo'[r] = sudo[r] /\ vtysh'[r] = vtysh[r]
         /\ todo'[r] = todo[r] /\ pipe'[r] = pipe[r]
<1> USE DEF startVars, callVars, timeVars, procVars, bufVars, Goto, Return
<1>1. /\ pc \in [Calls -> PCs] /\ sudo \in [Calls -> Procs] /\ vtysh \in [Calls -> Procs]
      /\ todo \in [Calls -> Seq(Nat)] /\ pipe \in [Calls -> Seq(Nat)]
  BY DEF Types, TypeOK
<1>2. CASE Call(q) \/ SocketReturns(q)
  BY <1>1, <1>2 DEF Call, SocketReturns
<1>3. CASE Start(q) \/ Reap(q) \/ Copy(q) \/ Finish(q)
  BY <1>1, <1>3 DEF Start, Reap, Copy, Finish
<1>4. CASE Cancel(q)
  <2>1. /\ flags' = flags /\ pc'[r] = pc[r] /\ left' = left /\ todo' = todo /\ pipe' = pipe
    BY <1>1, <1>4 DEF Cancel
  <2>2. sudo'[r] = sudo[r] /\ vtysh'[r] = vtysh[r]
    BY <1>1, <1>4 DEF Cancel, Kill
  <2>3. QED
    BY <2>1, <2>2
<1>5. CASE Processes(q)
  BY <1>1, <1>5 DEF Processes, Sudo, VtyshWrites, VtyshExits
<1>6. QED
  BY <1>2, <1>3, <1>4, <1>5 DEF execVtyshCommand

\* The part of one call, for its own steps.
LEMMA ReapedStep ==
  ASSUME IInv, NEW q \in Calls, Reaped(q),
         Call(q) \/ SocketReturns(q) \/ execVtyshCommand(q) \/ Processes(q)
  PROVE  Reaped(q)'
<1> USE DEF startVars, callVars, timeVars, procVars, bufVars, Goto, Return
<1>1. /\ pc \in [Calls -> PCs] /\ sudo \in [Calls -> Procs] /\ vtysh \in [Calls -> Procs]
      /\ pipe \in [Calls -> Seq(Nat)] /\ Children(q) /\ Output(q)
  BY DEF IInv, Types, TypeOK, CallInv
<1>2. CASE Call(q)
  <2>1. /\ flags' = flags /\ pc'[q] \in {"start", "socket"}
        /\ sudo' = sudo /\ vtysh' = vtysh /\ pipe' = pipe
    BY <1>1, <1>2 DEF Call
  <2>2. QED
    BY <2>1 DEF Reaped
<1>3. CASE SocketReturns(q) \/ (Start(q) /\ ~Goto(q, "wait"))
  <2>1. /\ pc[q] \in {"socket", "start"}
        /\ flags' = flags /\ sudo' = sudo /\ vtysh' = vtysh /\ pipe' = pipe
    BY <1>3 DEF SocketReturns, Start
  <2>2. QED
    BY <1>1, <2>1 DEF Reaped, Children, Output
<1>4. CASE Start(q) /\ Goto(q, "wait")
  <2>1. flags' = flags /\ pc'[q] = "wait" /\ (~flags.sudo => sudo' = sudo)
    BY <1>1, <1>4 DEF Start
  <2>2. QED
    BY <2>1 DEF Reaped
<1>5. CASE Cancel(q)
  <2>1. flags' = flags /\ pc'[q] = "cancelled" /\ (~flags.sudo => sudo' = sudo)
    BY <1>1, <1>5 DEF Cancel, Kill
  <2>2. QED
    BY <2>1 DEF Reaped
<1>6. CASE Reap(q)
  <2>1. /\ flags' = flags /\ pc'[q] \in {"drain", "drainErr"}
        /\ sudo' = sudo /\ vtysh' = vtysh /\ pipe' = pipe
        /\ flags.sudo => sudo[q] \in Gone
    BY <1>1, <1>6 DEF Reap, Child
  <2>2. QED
    BY <2>1 DEF Reaped, Gone
<1>7. CASE Copy(q)
  <2>1. /\ flags' = flags /\ pc' = pc /\ sudo' = sudo /\ vtysh' = vtysh
        /\ pipe[q] # <<>>
    BY <1>7 DEF Copy
  <2>2. QED
    BY <2>1 DEF Reaped
<1>8. CASE Finish(q)
  <2>1. /\ flags' = flags /\ pc[q] \in {"drain", "drainErr"} /\ pc'[q] = "returned"
        /\ sudo' = sudo /\ vtysh' = vtysh /\ pipe' = pipe
        /\ pipe[q] = <<>> /\ vtysh[q] # "running"
    BY <1>1, <1>8 DEF Finish, EndOfPipe
  <2>2. QED
    BY <2>1 DEF Reaped
<1>9. CASE Sudo(q)
  <2>1. flags' = flags /\ pc' = pc /\ sudo[q] = "running"
    BY <1>9 DEF Sudo
  <2>2. QED
    BY <2>1 DEF Reaped
<1>10. CASE VtyshWrites(q) \/ VtyshExits(q)
  <2>1. flags' = flags /\ pc' = pc /\ sudo' = sudo /\ vtysh[q] = "running"
    BY <1>10 DEF VtyshWrites, VtyshExits
  <2>2. QED
    BY <2>1 DEF Reaped
<1>11. QED
  BY <1>2, <1>3, <1>4, <1>5, <1>6, <1>7, <1>8, <1>9, <1>10 DEF execVtyshCommand, Processes

\* The invariant holds in every reachable state.
LEMMA ReapedInvariance == Spec => []AllReaped
<1>1. Init => AllReaped
  BY DEF Init, Reaped, AllReaped
<1>2. IInv /\ AllReaped /\ [Next]_vars => AllReaped'
  <2> SUFFICES ASSUME IInv, \A q \in Calls : Reaped(q), [Next]_vars, NEW r \in Calls
               PROVE  Reaped(r)'
    BY DEF AllReaped
  <2>1. Types
    BY DEF IInv
  <2>2. ASSUME NEW q \in Calls,
               Call(q) \/ SocketReturns(q) \/ execVtyshCommand(q) \/ Processes(q)
        PROVE  Reaped(r)'
    BY <2>1, <2>2, ReapedStep, OthersFrame, ReapedFrame
  <2>3. CASE (\E c \in Enabled : Construct(c)) \/ Serve \/ Tick \/ Quiet \/ UNCHANGED vars
    <3>1. flags' = flags /\ pc' = pc /\ sudo' = sudo /\ vtysh' = vtysh /\ pipe' = pipe
      BY <2>3 DEF Construct, Serve, Tick, Quiet, vars, startVars, callVars, timeVars, procVars, bufVars
    <3>2. QED
      BY <3>1, ReapedFrame
  <2>4. QED
    BY <2>2, <2>3 DEF Next
<1>3. QED
  BY <1>1, <1>2, Invariance, PTL DEF Spec

-----------------------------------------------------------------------------
\* What a call has ahead of it, in number: statements of execVtyshCommand or of
\* the socket, ticks until its deadline, and bytes that were not copied yet.
Statements == [idle |-> 5, start |-> 4, wait |-> 3, cancelled |-> 2, drain |-> 1,
               drainErr |-> 1, socket |-> 1, returned |-> 0]
Bytes(q) == IF pc[q] \in Waits THEN Len(todo[q]) + Len(pipe[q])
            ELSE IF pc[q] = "returned" THEN 0 ELSE Len(Payload[q])
ToCome(q) == Statements[pc[q]] + left[q] + Bytes(q)

\* A step of the call itself, or time that passes for it.
Own(q) == Call(q) \/ SocketReturns(q) \/ execVtyshCommand(q) \/ (Tick /\ q \in Waiting)

\* Sums of natural numbers.
LEMMA Sums ==
  /\ \A a, b \in Nat : a + b \in Nat
  /\ \A a, b, c, d, e, f \in Nat :
       d <= a /\ e <= b /\ f <= c =>
         /\ d + e + f <= a + b + c
         /\ d < a \/ e < b \/ f < c => d + e + f < a + b + c
OBVIOUS

\* The numbers are natural numbers.
LEMMA Numbers ==
  ASSUME Types, NEW q \in Calls
  PROVE  Statements[pc[q]] \in Nat /\ left[q] \in Nat /\ Bytes(q) \in Nat
<1>1. Statements[pc[q]] \in Nat /\ left[q] \in Nat
  BY TimeoutAssumption DEF Types, TypeOK, PCs, Statements
<1>2. Len(pipe[q]) \in Nat /\ Len(todo[q]) \in Nat /\ Len(Payload[q]) \in Nat
  <2>1. Payload[q] \in Seq(Nat) /\ pipe[q] \in Seq(Nat) /\ todo[q] \in Seq(Nat)
    BY PayloadAssumption DEF Types
  <2>2. QED
    BY <2>1, LenProperties
<1>3. 0 \in Nat
  OBVIOUS
<1>4. Bytes(q) \in Nat
  BY <1>2, <1>3, Sums, Zenon DEF Bytes
<1>5. QED
  BY <1>1, <1>4

\* The same in the next state.
LEMMA NumbersNext ==
  ASSUME Types', NEW q \in Calls
  PROVE  Statements[pc'[q]] \in Nat /\ left'[q] \in Nat /\ Bytes(q)' \in Nat
<1>1. Statements[pc'[q]] \in Nat /\ left'[q] \in Nat
  BY TimeoutAssumption DEF Types, TypeOK, PCs, Statements
<1>2. Len(pipe'[q]) \in Nat /\ Len(todo'[q]) \in Nat /\ Len(Payload[q]) \in Nat
  <2>1. Payload[q] \in Seq(Nat) /\ pipe'[q] \in Seq(Nat) /\ todo'[q] \in Seq(Nat)
    BY PayloadAssumption DEF Types
  <2>2. QED
    BY <2>1, LenProperties
<1>3. 0 \in Nat
  OBVIOUS
<1>4. Bytes(q)' \in Nat
  BY <1>2, <1>3, Sums, Zenon DEF Bytes
<1>5. QED
  BY <1>1, <1>4

\* A step that makes none of the three numbers larger, and what it takes to
\* make their sum smaller.
LEMMA Parts ==
  ASSUME Types, Types', NEW q \in Calls,
         Statements[pc'[q]] <= Statements[pc[q]], left'[q] <= left[q], Bytes(q)' <= Bytes(q)
  PROVE  /\ ToCome(q)' <= ToCome(q)
         /\ \/ Statements[pc'[q]] < Statements[pc[q]]
            \/ left'[q] < left[q]
            \/ Bytes(q)' < Bytes(q)
            => ToCome(q)' < ToCome(q)
<1>1. /\ Statements[pc[q]] \in Nat /\ left[q] \in Nat /\ Bytes(q) \in Nat
      /\ Statements[pc'[q]] \in Nat /\ left'[q] \in Nat /\ Bytes(q)' \in Nat
  BY Numbers, NumbersNext
<1>2. QED
  BY <1>1, Sums, Zenon DEF ToCome

\* A statement that leads to the next one, and moves no output.
LEMMA StatementNearer ==
  ASSUME Types, Types', NEW q \in Calls, left' = left,
         Statements[pc'[q]] < Statements[pc[q]],
         \/ pc'[q] = "returned"
         \/ pc[q] \notin Waits /\ pc'[q] \notin Waits
         \/ pc[q] \in Waits /\ pc'[q] \in Waits /\ todo' = todo /\ pipe' = pipe
         \/ /\ pc[q] = "start" /\ pc'[q] = "wait"
            /\ todo'[q] = Payload[q] /\ pipe'[q] = <<>>
  PROVE  ToCome(q)' < ToCome(q)
<1>1. /\ Statements[pc[q]] \in Nat /\ left[q] \in Nat /\ Bytes(q) \in Nat
      /\ Statements[pc'[q]] \in Nat /\ left'[q] \in Nat /\ Bytes(q)' \in Nat
      /\ pc[q] \in PCs /\ pc'[q] \in PCs
  BY Numbers, NumbersNext DEF Types, TypeOK
<1>2. Bytes(q)' <= Bytes(q)
  <2>1. CASE pc'[q] = "returned"
    <3>1. Bytes(q)' = 0
      BY <2>1 DEF Bytes, Waits
    <3>2. QED
      BY <1>1, <3>1
  <2>2. CASE pc[q] \notin Waits /\ pc'[q] \notin Waits /\ pc'[q] # "returned"
    <3>1. pc[q] # "returned"
      BY <1>1 DEF Statements
    <3>2. Bytes(q)' = Bytes(q)
      BY <2>2, <3>1 DEF Bytes
    <3>3. QED
      BY <1>1, <3>2
  <2>3. CASE pc[q] \in Waits /\ pc'[q] \in Waits /\ todo' = todo /\ pipe' = pipe
    <3>1. Bytes(q)' = Bytes(q)
      BY <2>3, Zenon DEF Bytes
    <3>2. QED
      BY <1>1, <3>1
  <2>4. CASE /\ pc[q] = "start" /\ pc'[q] = "wait"
             /\ todo'[q] = Payload[q] /\ pipe'[q] = <<>>
    <3>1. Len(pipe'[q]) = 0
      BY <2>4
    <3>2. Len(Payload[q]) \in Nat
      BY PayloadAssumption, LenProperties
    <3>3. Bytes(q) = Len(Payload[q])
      BY <2>4 DEF Bytes, Waits
    <3>4. Bytes(q)' = Len(Payload[q]) + 0
      <4>1. pc'[q] \in Waits
        BY <2>4 DEF Waits
      <4>2. QED
        BY <2>4, <3>1, <4>1, Zenon DEF Bytes
    <3>5. PICK n \in Nat : n = Len(Payload[q])
      BY <3>2
    <3>6. n + 0 <= n
      OBVIOUS
    <3>7. QED
      BY <3>3, <3>4, <3>5, <3>6, Zenon
  <2>5. QED
    BY <2>1, <2>2, <2>3, <2>4
<1>3. QED
  BY <1>1, <1>2, Parts

\* The goroutine that copies takes what is in the pipe.
LEMMA CopyNearer ==
  ASSUME IInv, AllReaped, Types', NEW q \in Calls, Copy(q)
  PROVE  ToCome(q)' < ToCome(q)
<1>1. /\ pc[q] \in PCs /\ Output(q) /\ Reaped(q) /\ pc' = pc /\ left' = left /\ todo' = todo
      /\ pipe[q] # <<>> /\ pipe \in [Calls -> Seq(Nat)] /\ todo \in [Calls -> Seq(Nat)]
  BY DEF IInv, AllReaped, Types, TypeOK, CallInv, Copy, callVars, timeVars, procVars
<1>2. pc[q] \in Waits
  BY <1>1 DEF Output, Reaped, Waits, PCs
<1>3. pipe'[q] = <<>>
  BY <1>1 DEF Copy
<1>4. Len(pipe[q]) \in Nat /\ Len(todo[q]) \in Nat /\ Len(pipe[q]) # 0 /\ Len(pipe'[q]) = 0
  <2>1. Len(pipe'[q]) = 0
    BY <1>3
  <2>2. Len(pipe[q]) \in Nat /\ Len(todo[q]) \in Nat
    BY <1>1, LenProperties
  <2>3. Len(pipe[q]) # 0
    BY <1>1, EmptySeq
  <2>4. QED
    BY <2>1, <2>2, <2>3
<1>5. PICK a \in Nat, b \in Nat : a = Len(pipe[q]) /\ b = Len(todo[q])
  BY <1>4
<1>6. Bytes(q) = b + a /\ Bytes(q)' = b + 0
  BY <1>1, <1>2, <1>4, <1>5, Zenon DEF Bytes
<1>7. b + 0 < b + a
  <2>1. a # 0
    BY <1>4, <1>5
  <2>2. QED
    BY <2>1
<1>8. Bytes(q)' < Bytes(q)
  BY <1>6, <1>7
<1>9. Statements[pc'[q]] <= Statements[pc[q]] /\ left'[q] <= left[q] /\ Bytes(q)' <= Bytes(q)
  <2>1. Types
    BY DEF IInv
  <2>2. QED
    BY <1>1, <1>8, <2>1, Numbers, NumbersNext
<1>10. QED
  BY <1>8, <1>9, Parts DEF IInv

\* A tick that a call waits for, without sudo, is one before its deadline.
LEMMA TickNearer ==
  ASSUME IInv, Types', NEW q \in Calls, ~flags.sudo, Tick, q \in Waiting
  PROVE  ToCome(q)' < ToCome(q)
<1>1. /\ pc' = pc /\ todo' = todo /\ pipe' = pipe /\ ~Urgent(q)
      /\ left'[q] = Countdown(left[q])
  BY DEF Tick, Waiting, callVars, procVars, bufVars
<1>2. pc[q] \in Waits /\ Children(q) /\ left[q] \in 0 .. Timeout
  BY DEF Waiting, Waits, IInv, Types, TypeOK, CallInv
<1>3. pc[q] = "wait"
  BY <1>1, <1>2 DEF Children, Urgent, Child, Waits, Gone
<1>4. left[q] \in Nat /\ left[q] > 0
  BY <1>1, <1>2, <1>3, TimeoutAssumption DEF Urgent
<1>5. left'[q] < left[q] /\ left'[q] <= left[q]
  BY <1>1, <1>4 DEF Countdown
<1>6. Bytes(q)' = Bytes(q)
  BY <1>1, Zenon DEF Bytes
<1>7. Statements[pc'[q]] <= Statements[pc[q]] /\ Bytes(q)' <= Bytes(q)
  <2>1. Types
    BY DEF IInv
  <2>2. QED
    BY <1>1, <1>6, <2>1, Numbers
<1>8. QED
  BY <1>5, <1>7, Parts DEF IInv

\* Every step of a call, and every tick that it waits for, brings it nearer.
LEMMA OwnNearer ==
  ASSUME IInv, AllReaped, Types', NEW q \in Calls, ~flags.sudo, Own(q)
  PROVE  ToCome(q)' < ToCome(q)
<1> USE DEF startVars, callVars, timeVars, procVars, bufVars, Goto, Return
<1>1. /\ pc \in [Calls -> PCs] /\ Types /\ Output(q)
      /\ todo \in [Calls -> Seq(Nat)] /\ pipe \in [Calls -> Seq(Nat)]
  BY DEF IInv, Types, TypeOK, CallInv
<1>2. CASE Call(q)
  <2>1. pc[q] = "idle"
    BY <1>2 DEF Call, Socket!Call, IInv, CallInv, Control
  <2>2. pc'[q] \in {"start", "socket"} /\ left' = left
    BY <1>1, <1>2 DEF Call
  <2>3. Statements[pc'[q]] < Statements[pc[q]] /\ pc[q] \notin Waits /\ pc'[q] \notin Waits
    BY <2>1, <2>2 DEF Statements, Waits
  <2>4. QED
    BY <1>1, <2>2, <2>3, StatementNearer
<1>3. CASE SocketReturns(q) \/ (Start(q) /\ ~Goto(q, "wait")) \/ Finish(q)
  <2>1. pc[q] \in {"socket", "start", "drain", "drainErr"} /\ pc'[q] = "returned" /\ left' = left
    BY <1>1, <1>3 DEF SocketReturns, Start, Finish
  <2>2. QED
    BY <1>1, <2>1, StatementNearer DEF Statements
<1>4. CASE Start(q) /\ Goto(q, "wait")
  <2>1. pc[q] = "start" /\ pc'[q] = "wait" /\ left' = left /\ todo'[q] = Payload[q] /\ pipe' = pipe
    BY <1>1, <1>4 DEF Start
  <2>2. pipe'[q] = <<>>
    BY <1>1, <2>1 DEF Output
  <2>3. QED
    BY <1>1, <2>1, <2>2, StatementNearer DEF Statements
<1>5. CASE Cancel(q) \/ Reap(q)
  <2>1. /\ left' = left /\ todo' = todo /\ pipe' = pipe
        /\ \/ pc[q] = "wait" /\ pc'[q] \in {"cancelled", "drain", "drainErr"}
           \/ pc[q] = "cancelled" /\ pc'[q] = "drainErr"
    BY <1>1, <1>5 DEF Cancel, Reap
  <2>2. Statements[pc'[q]] < Statements[pc[q]]
    BY <2>1 DEF Statements
  <2>3. pc[q] \in Waits /\ pc'[q] \in Waits
    BY <2>1 DEF Waits
  <2>4. QED
    BY <1>1, <2>1, <2>2, <2>3, StatementNearer
<1>6. CASE Copy(q)
  BY <1>6, CopyNearer
<1>7. CASE Tick /\ q \in Waiting
  BY <1>7, TickNearer
<1>8. QED
  BY <1>2, <1>3, <1>4, <1>5, <1>6, <1>7 DEF Own, execVtyshCommand

\* Its processes bring no call further away: without sudo, vtysh runs only while
\* the call waits, and the output it writes was counted before.
LEMMA ProcessesKeep ==
  ASSUME IInv, AllReaped, Types', NEW q \in Calls, ~flags.sudo, Processes(q)
  PROVE  ToCome(q)' <= ToCome(q)
<1> USE DEF startVars, callVars, timeVars, procVars, bufVars
<1>1. /\ Types /\ Children(q) /\ Reaped(q) /\ pc[q] \in PCs
      /\ pipe \in [Calls -> Seq(Nat)] /\ pipe[q] \in Seq(Nat)
      /\ todo \in [Calls -> Seq(Nat)] /\ todo[q] \in Seq(Nat)
  BY DEF IInv, AllReaped, Types, TypeOK, CallInv
<1>2. pc' = pc /\ left' = left
  BY DEF Processes, Sudo, VtyshWrites, VtyshExits
<1>3. SUFFICES Bytes(q)' <= Bytes(q)
  <2>1. Statements[pc'[q]] <= Statements[pc[q]] /\ left'[q] <= left[q]
    BY <1>1, <1>2, Numbers
  <2>2. QED
    BY <1>1, <2>1, <1>3, Parts
<1>4. Bytes(q) \in Nat
  BY <1>1, Numbers
<1>5. CASE VtyshExits(q)
  <2>1. todo' = todo /\ pipe' = pipe
    BY <1>5 DEF VtyshExits
  <2>2. Bytes(q)' = Bytes(q)
    BY <1>2, <2>1, Zenon DEF Bytes
  <2>3. QED
    BY <1>4, <2>2
<1>6. CASE VtyshWrites(q)
  <2>1. PICK n \in 1 .. Len(todo[q]) :
          /\ pipe' = [pipe EXCEPT ![q] = @ \o SubSeq(todo[q], 1, n)]
          /\ todo' = [todo EXCEPT ![q] = SubSeq(@, n + 1, Len(@))]
    BY <1>6 DEF VtyshWrites
  <2>2. pc[q] \in Waits
    BY <1>1, <1>6 DEF VtyshWrites, Children, Reaped, PCs, Waits
  <2>3. /\ pipe'[q] = pipe[q] \o SubSeq(todo[q], 1, n)
        /\ todo'[q] = SubSeq(todo[q], n + 1, Len(todo[q]))
    BY <1>1, <2>1
  <2>4. Len(pipe[q]) \in Nat /\ Len(todo[q]) \in Nat
    BY <1>1, LenProperties
  <2>5. /\ SubSeq(todo[q], 1, n) \in Seq(Nat) /\ Len(SubSeq(todo[q], 1, n)) = n
        /\ Len(todo'[q]) = Len(todo[q]) - n
    BY <1>1, <2>3, <2>4
  <2>6. Len(pipe'[q]) = Len(pipe[q]) + n
    BY <1>1, <2>3, <2>5, ConcatProperties
  <2>7. PICK a \in Nat, b \in Nat : a = Len(pipe[q]) /\ b = Len(todo[q])
    BY <2>4
  <2>8. Len(pipe'[q]) = a + n /\ Len(todo'[q]) = b - n
    BY <2>5, <2>6, <2>7, Zenon
  <2>9. Bytes(q) = b + a /\ Bytes(q)' = (b - n) + (a + n)
    BY <1>2, <2>2, <2>7, <2>8, Zenon DEF Bytes
  <2>10. n \in Nat
    BY <2>4
  <2>11. (b - n) + (a + n) = b + a
    BY <2>10
  <2>12. QED
    BY <1>4, <2>9, <2>11
<1>7. QED
  BY <1>1, <1>5, <1>6 DEF Processes, Sudo, Reaped

\* No step brings a call further away from its return.
LEMMA NextKeeps ==
  ASSUME IInv, AllReaped, Types', NEW q \in Calls, ~flags.sudo, [Next]_vars
  PROVE  ToCome(q)' <= ToCome(q)
<1>1. Types
  BY DEF IInv
<1>2. ToCome(q) \in Nat /\ ToCome(q)' \in Nat
  <2>1. /\ Statements[pc[q]] \in Nat /\ left[q] \in Nat /\ Bytes(q) \in Nat
        /\ Statements[pc'[q]] \in Nat /\ left'[q] \in Nat /\ Bytes(q)' \in Nat
    BY <1>1, Numbers, NumbersNext
  <2>2. QED
    BY <2>1, Sums, Zenon DEF ToCome
<1>3. ASSUME pc'[q] = pc[q], left'[q] = left[q], todo'[q] = todo[q], pipe'[q] = pipe[q]
      PROVE  ToCome(q)' <= ToCome(q)
  <2>1. ToCome(q)' = ToCome(q)
    BY <1>3, Zenon DEF ToCome, Bytes
  <2>2. QED
    BY <1>2, <2>1
<1>4. CASE Own(q)
  BY <1>2, <1>4, OwnNearer
<1>5. CASE Processes(q)
  BY <1>5, ProcessesKeep
<1>6. ASSUME NEW r \in Calls, r # q,
             Call(r) \/ SocketReturns(r) \/ execVtyshCommand(r) \/ Processes(r)
      PROVE  ToCome(q)' <= ToCome(q)
  BY <1>1, <1>3, <1>6, OthersFrame
<1>7. CASE \/ \E c \in Enabled : Construct(c)
           \/ Serve \/ (Tick /\ q \notin Waiting) \/ Quiet \/ UNCHANGED vars
  <2>1. pc' = pc /\ left'[q] = left[q] /\ todo' = todo /\ pipe' = pipe
    BY <1>7 DEF Construct, Serve, Tick, Quiet, vars, startVars, callVars, timeVars, procVars, bufVars
  <2>2. QED
    BY <1>3, <2>1
<1>8. QED
  BY <1>4, <1>5, <1>6, <1>7 DEF Next, Own

-----------------------------------------------------------------------------
\* A statement of a call that can be taken, and when time can pass.
CanGoOn(q) ==
  \/ pc[q] = "start"
  \/ pc[q] = "socket" /\ q \in called /\ result[q] = Socket!Pending
  \/ q \in Waiting /\ Urgent(q)
TimeCanPass == \A q \in Calls : pc[q] # "start" /\ ~(q \in Waiting /\ Urgent(q))

\* Until a call has returned its next statement can be taken, or it waits for
\* vtysh before its deadline, and time passes unless a call can go on first.
Goes(q) ==
  \/ CanGoOn(q)
  \/ /\ pc[q] = "wait" /\ left[q] > 0
     /\ TimeCanPass \/ \E r \in Calls : CanGoOn(r)

\* Without sudo no call is stuck, though vtysh may hang for ever.  (cmd.Run in
\* execVtyshCommand, under the timeout of its context.)
THEOREM NobodyStuck ==
  Spec => [](~flags.sudo => \A q \in Calls : pc[q] \notin {"idle", "returned"} => Goes(q))
<1>1. ASSUME IInv, ~flags.sudo, NEW q \in Calls, pc[q] \notin {"idle", "returned"} PROVE Goes(q)
  <2>1. pc[q] \in PCs /\ left[q] \in 0 .. Timeout /\ Control(q) /\ Children(q)
    BY <1>1 DEF IInv, Types, TypeOK, CallInv
  <2>2. CASE pc[q] \in {"start", "socket"}
    BY <2>1, <2>2 DEF Goes, CanGoOn, Control
  <2>3. CASE pc[q] \in {"cancelled", "drain", "drainErr"}
    <3>1. q \in Waiting /\ vtysh[q] \in Gone
      BY <1>1, <2>1, <2>3 DEF Waiting, Children, Waits
    <3>2. Urgent(q)
      BY <1>1, <2>3, <3>1 DEF Urgent, Child, Gone
    <3>3. QED
      BY <3>1, <3>2 DEF Goes, CanGoOn
  <2>4. CASE pc[q] = "wait" /\ left[q] = 0
    BY <2>4 DEF Goes, CanGoOn, Waiting, Urgent
  <2>5. CASE pc[q] = "wait" /\ left[q] # 0
    <3>1. left[q] > 0
      BY <2>1, <2>5, TimeoutAssumption
    <3>2. TimeCanPass \/ \E r \in Calls : CanGoOn(r)
      BY DEF TimeCanPass, CanGoOn
    <3>3. QED
      BY <2>5, <3>1, <3>2 DEF Goes
  <2>6. QED
    BY <1>1, <2>1, <2>2, <2>3, <2>4, <2>5 DEF PCs
<1>2. IInv => (~flags.sudo => \A q \in Calls : pc[q] \notin {"idle", "returned"} => Goes(q))
  BY <1>1
<1>3. QED
  BY <1>2, Invariance, PTL

\* Without sudo every statement of a call and every tick that it waits for lowers
\* a natural number, and nothing that anybody else does raises it, vtysh included:
\* no call goes on for ever.  (executeCmd or execVtyshCommand, for the caller.)
THEOREM CallsEnd ==
  ASSUME NEW q \in Calls
  PROVE  Spec => /\ [](ToCome(q) \in Nat)
                 /\ [][~flags.sudo => /\ ToCome(q)' <= ToCome(q)
                                      /\ Own(q) => ToCome(q)' < ToCome(q)]_vars
<1>1. IInv => ToCome(q) \in Nat
  <2>1. SUFFICES ASSUME IInv PROVE ToCome(q) \in Nat
    OBVIOUS
  <2>2. Statements[pc[q]] \in Nat /\ left[q] \in Nat /\ Bytes(q) \in Nat
    BY <2>1, Numbers DEF IInv
  <2>3. QED
    BY <2>2, Sums, Zenon DEF ToCome
<1>2. IInv /\ IInv' /\ AllReaped /\ [Next]_vars =>
        [~flags.sudo => /\ ToCome(q)' <= ToCome(q)
                        /\ Own(q) => ToCome(q)' < ToCome(q)]_vars
  <2>1. SUFFICES ASSUME IInv, IInv', AllReaped, [Next]_vars, ~flags.sudo
                 PROVE  /\ ToCome(q)' <= ToCome(q)
                        /\ Own(q) => ToCome(q)' < ToCome(q)
    OBVIOUS
  <2>2. Types'
    BY <2>1 DEF IInv
  <2>3. QED
    BY <2>1, <2>2, NextKeeps, OwnNearer
<1>3. QED
  BY <1>1, <1>2, ReapedInvariance, Invariance, PTL DEF Spec
=============================================================================
