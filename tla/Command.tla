------------------------------ MODULE Command ------------------------------
(***************************************************************************)
(* command.go: a command goes to the socket of a daemon or, if the flag is *)
(* set, to a vtysh process with a timeout, with or without sudo.  What the *)
(* socket does is what CommandService says, which FrrSocket implements.    *)
(* Start-up comes first: NewExporter constructs the enabled collectors,    *)
(* and it is there that vtysh is refused together with OSPF instances,     *)
(* which are only reached through their sockets.                           *)
(*                                                                         *)
(* cmd.Run returns when the process it started (the child) has exited and  *)
(* nobody holds the pipe behind cmd.Stdout any more.  Without sudo the     *)
(* child is vtysh; with sudo it is sudo, and vtysh is a child of that and  *)
(* holds the pipe.                                                         *)
(***************************************************************************)
EXTENDS Integers, Sequences, FiniteSets

CONSTANTS Calls,        \* the calls of an execute...Command function
          ByInstance,   \* those of executeOSPFMultiInstanceCommand
          Payload,      \* Payload[q]: what FRR outputs for q
          Enabled,      \* the collectors that the flags enable
          Timeout       \* ticks until the deadline of the context

ASSUME CallsAssumption   == IsFiniteSet(Calls) /\ ByInstance \subseteq Calls
ASSUME PayloadAssumption == Payload \in [Calls -> Seq(Nat)]
ASSUME TimeoutAssumption == Timeout \in Nat \ {0}

VARIABLES
  flags,     \* vtysh, sudo, and whether OSPF instances are given
  built,     \* the collectors that were constructed
  phase,     \* "starting", "serving", "failed"
  called,    \* the calls that were made
  result,    \* result[q]: pending, or what q returned
  pc,        \* pc[q]: where q is
  left,      \* left[q]: ticks until the deadline
  late,      \* the calls that went on after their deadline (observation)
  sudo,      \* sudo[q]: the sudo process
  vtysh,     \* vtysh[q]: the vtysh process
  todo,      \* todo[q]: output that vtysh has not yet written
  pipe,      \* pipe[q]: output written, not yet copied
  stdout     \* stdout[q]: the bytes.Buffer

startVars == <<flags, built, phase>>
callVars  == <<called, result, pc>>
timeVars  == <<left, late>>
procVars  == <<sudo, vtysh, todo>>
bufVars   == <<pipe, stdout>>
vars == <<startVars, callVars, timeVars, procVars, bufVars>>

PCs   == {"idle", "socket", "start", "wait", "cancelled", "drain", "drainErr", "returned"}
Gone  == {"ok", "failed", "killed"}
Procs == {"none", "running"} \cup Gone

Socket == INSTANCE CommandService

Init ==
  /\ flags \in [vtysh : BOOLEAN, sudo : BOOLEAN, instances : BOOLEAN]
  /\ built = {} /\ phase = "starting"
  /\ Socket!Init
  /\ pc     = [q \in Calls |-> "idle"]
  /\ left   = [q \in Calls |-> Timeout]
  /\ late   = {}
  /\ sudo   = [q \in Calls |-> "none"]
  /\ vtysh  = [q \in Calls |-> "none"]
  /\ todo   = [q \in Calls |-> <<>>]
  /\ pipe   = [q \in Calls |-> <<>>]
  /\ stdout = [q \in Calls |-> <<>>]

-----------------------------------------------------------------------------
(* NewExporter.                                                            *)

\* The factory of one collector, in any order.  It fails for a file or a list
\* that cannot be read; NewOSPFCollector fails for vtysh with instances.
RefusedNever(c) == FALSE
Refused(c) == c = "ospf" /\ flags.vtysh /\ flags.instances
Construct(c) ==
  /\ phase = "starting" /\ c \in Enabled \ built
  /\ \/ ~Refused(c) /\ built' = built \cup {c} /\ UNCHANGED phase
     \/ phase' = "failed" /\ UNCHANGED built
  /\ UNCHANGED <<flags, callVars, timeVars, procVars, bufVars>>

\* All are constructed; main registers the exporter and serves.
Serve ==
  /\ phase = "starting" /\ built = Enabled
  /\ phase' = "serving"
  /\ UNCHANGED <<flags, built, callVars, timeVars, procVars, bufVars>>

-----------------------------------------------------------------------------
(* The choice.                                                             *)

Goto(q, l) == pc' = [pc EXCEPT ![q] = l]
Return(q, ok, data) ==
  /\ Goto(q, "returned")
  /\ result' = [result EXCEPT ![q] = Socket!Returned(ok, data)]

\* Only the OSPF collector asks by instance, and only if it is given some.
MayAsk(q) == q \in ByInstance => "ospf" \in built /\ flags.instances
ByVtysh(q) == flags.vtysh /\ q \notin ByInstance

Call(q) ==
  /\ phase = "serving" /\ MayAsk(q)
  /\ Socket!Call(q)
  /\ Goto(q, IF ByVtysh(q) THEN "start" ELSE "socket")
  /\ UNCHANGED <<startVars, timeVars, procVars, bufVars>>

SocketReturns(q) ==
  /\ pc[q] = "socket"
  /\ Socket!Return(q)
  /\ Goto(q, "returned")
  /\ UNCHANGED <<startVars, timeVars, procVars, bufVars>>

-----------------------------------------------------------------------------
(* execVtyshCommand.                                                       *)

Child(q) == IF flags.sudo THEN sudo[q] ELSE vtysh[q]

\* cmd.Start: the executable may not be there.
Start(q) ==
  /\ pc[q] = "start"
  /\ \/ /\ Goto(q, "wait")
        /\ IF flags.sudo
             THEN sudo' = [sudo EXCEPT ![q] = "running"] /\ UNCHANGED vtysh
             ELSE vtysh' = [vtysh EXCEPT ![q] = "running"] /\ UNCHANGED sudo
        /\ todo' = [todo EXCEPT ![q] = Payload[q]]
        /\ UNCHANGED result
     \/ Return(q, FALSE, <<>>) /\ UNCHANGED procVars
  /\ UNCHANGED <<startVars, called, timeVars, bufVars>>

\* The context is done before the child was waited for: the child is killed.
\* sudo may be killed and leave vtysh behind or take it along; or it may not
\* be killed, as it runs as root.
NoKill(q) == UNCHANGED <<sudo, vtysh>>
Kill(q) ==
  IF ~flags.sudo
    THEN vtysh' = [vtysh EXCEPT ![q] = IF @ = "running" THEN "killed" ELSE @] /\ UNCHANGED sudo
    ELSE /\ \/ sudo' = [sudo EXCEPT ![q] = IF @ = "running" THEN "killed" ELSE @]
            \/ UNCHANGED sudo
         /\ \/ sudo[q] = "running" /\ sudo' # sudo /\ vtysh[q] = "running"
               /\ vtysh' = [vtysh EXCEPT ![q] = "killed"]
            \/ UNCHANGED vtysh
Cancel(q) ==
  /\ pc[q] = "wait" /\ left[q] = 0
  /\ Kill(q)
  /\ Goto(q, "cancelled")
  /\ UNCHANGED <<startVars, called, result, timeVars, todo, bufVars>>

\* Process.Wait: an exit status other than 0, or having cancelled, is an error.
Reap(q) ==
  /\ pc[q] \in {"wait", "cancelled"} /\ Child(q) \in Gone
  /\ Goto(q, IF pc[q] = "wait" /\ Child(q) = "ok" THEN "drain" ELSE "drainErr")
  /\ UNCHANGED <<startVars, called, result, timeVars, procVars, bufVars>>

\* The goroutine that fills the buffer with what is in the pipe.
LastOfPipe(q) == pipe[q]
Appended(q)   == stdout[q] \o pipe[q]
Copy(q) ==
  /\ pipe[q] # <<>>
  /\ pipe' = [pipe EXCEPT ![q] = <<>>]
  /\ stdout' = [stdout EXCEPT ![q] = Appended(q)]
  /\ UNCHANGED <<startVars, callVars, timeVars, procVars>>

\* cmd.Run returns when that goroutine has come to the end of the pipe, which
\* is when no process holds the other end; what it read is returned, also
\* with an error.
EndOfPipeUnread(q) == vtysh[q] # "running"
EndOfPipe(q) == pipe[q] = <<>> /\ vtysh[q] # "running"
Finish(q) ==
  /\ pc[q] \in {"drain", "drainErr"} /\ EndOfPipe(q)
  /\ Return(q, pc[q] = "drain", stdout[q])
  /\ UNCHANGED <<startVars, called, timeVars, procVars, bufVars>>

-----------------------------------------------------------------------------
(* sudo and vtysh (external).                                              *)

\* sudo refuses, or runs vtysh and exits with its status.
Sudo(q) ==
  /\ sudo[q] = "running"
  /\ \/ vtysh[q] = "none" /\ vtysh' = [vtysh EXCEPT ![q] = "running"] /\ UNCHANGED sudo
     \/ vtysh[q] = "none" /\ sudo' = [sudo EXCEPT ![q] = "failed"] /\ UNCHANGED vtysh
     \/ /\ vtysh[q] \in Gone
        /\ sudo' = [sudo EXCEPT ![q] = IF vtysh[q] = "ok" THEN "ok" ELSE "failed"]
        /\ UNCHANGED vtysh
  /\ UNCHANGED <<startVars, callVars, timeVars, todo, bufVars>>

\* vtysh writes its output in pieces, and exits with 0 only after the last.
VtyshWrites(q) ==
  /\ vtysh[q] = "running"
  /\ \E n \in 1 .. Len(todo[q]) :
       /\ pipe' = [pipe EXCEPT ![q] = @ \o SubSeq(todo[q], 1, n)]
       /\ todo' = [todo EXCEPT ![q] = SubSeq(@, n + 1, Len(@))]
  /\ UNCHANGED <<startVars, callVars, timeVars, sudo, vtysh, stdout>>

VtyshExits(q) ==
  /\ vtysh[q] = "running"
  /\ \E status \in {"ok", "failed"} :
       /\ status = "ok" => todo[q] = <<>>
       /\ vtysh' = [vtysh EXCEPT ![q] = status]
  /\ UNCHANGED <<startVars, callVars, timeVars, sudo, todo, bufVars>>

-----------------------------------------------------------------------------
\* Time passes for the calls that wait, unless one of them has something to
\* do at once: be cancelled, or go on as its child or the pipe has ended.
Waiting == {q \in Calls : pc[q] \in {"wait", "cancelled", "drain", "drainErr"}}
Urgent(q) ==
  \/ pc[q] = "wait" /\ left[q] = 0
  \/ pc[q] \in {"wait", "cancelled"} /\ Child(q) \in Gone
  \/ pc[q] \in {"drain", "drainErr"} /\ vtysh[q] # "running"
Countdown(n) == IF n > 0 THEN n - 1 ELSE 0
Tick ==
  /\ Waiting # {}
  /\ \A q \in Calls : pc[q] # "start" /\ ~(q \in Waiting /\ Urgent(q))
  /\ left' = [q \in Calls |-> IF q \in Waiting THEN Countdown(left[q]) ELSE left[q]]
  /\ late' = late \cup {q \in Waiting : left[q] = 0}
  /\ UNCHANGED <<startVars, callVars, procVars, bufVars>>

execVtyshCommand(q) == Start(q) \/ Cancel(q) \/ Reap(q) \/ Copy(q) \/ Finish(q)
Processes(q) == Sudo(q) \/ VtyshWrites(q) \/ VtyshExits(q)

\* Nothing more to do: no call is under way and no process runs.
Quiet ==
  /\ phase # "starting"
  /\ \A q \in Calls : pc[q] \in {"idle", "returned"} /\ vtysh[q] # "running"
  /\ UNCHANGED vars

Next == \/ (\E c \in Enabled : Construct(c)) \/ Serve
        \/ Tick
        \/ \E q \in Calls : \/ Call(q) \/ SocketReturns(q)
                            \/ execVtyshCommand(q) \/ Processes(q)
        \/ Quiet

\* The goroutines run, time passes, and a call to a socket returns (FrrSocket).
\* Nothing is assumed of sudo and vtysh: they may hang for ever.
Fairness ==
  /\ WF_vars(Tick)
  /\ \A q \in Calls : WF_vars(execVtyshCommand(q)) /\ WF_vars(SocketReturns(q))

Spec == Init /\ [][Next]_vars /\ Fairness

-----------------------------------------------------------------------------
(* Correctness.                                                            *)

\* Every variable has its type.
TypeOK ==
  /\ flags \in [vtysh : BOOLEAN, sudo : BOOLEAN, instances : BOOLEAN]
  /\ built \subseteq Enabled /\ phase \in {"starting", "serving", "failed"}
  /\ called \subseteq Calls
  /\ DOMAIN result = Calls
  /\ pc \in [Calls -> PCs]
  /\ left \in [Calls -> 0 .. Timeout] /\ late \subseteq Calls
  /\ sudo \in [Calls -> Procs] /\ vtysh \in [Calls -> Procs]

\* With vtysh the exporter never goes to a socket.  One of its commands always
\* does; it is a constructor, run long before, that keeps it from being asked.
SocketsUntouched ==
  flags.vtysh => \A q \in Calls : pc[q] # "socket"

\* A call goes on after its deadline only behind sudo, while a vtysh that
\* outlived the cancellation, or a sudo that could not be killed, holds it.
LateOnlyBehindSudo ==
  \A q \in late : flags.vtysh /\ flags.sudo

\* No output is lost between the process and the buffer: at any time what was
\* copied, what is in the pipe and what is to be written make up the answer.
OutputConserved ==
  \A q \in Calls : pc[q] \in {"wait", "cancelled", "drain", "drainErr"} =>
    stdout[q] \o pipe[q] \o todo[q] = Payload[q]

\* Whichever way a command goes, its caller gets what CommandService promises:
\* the whole output, or an error and a prefix of it, once.
ImplementsCommandSafety ==
  Socket!Init /\ [][Socket!Next]_<<called, result>>

\* Without sudo every call returns, though vtysh may hang for ever.
Returns ==
  \A q \in Calls : (q \in called /\ ~flags.sudo) ~> result[q].done

=============================================================================
