----------------------------- MODULE FrrSocket -----------------------------
(***************************************************************************)
(* executeCmd: one command to one FRR daemon over its Unix socket.  Dial,  *)
(* set one absolute deadline, write "enable", read the reply, write the    *)
(* command, read until a chunk ends in NUL, close.  Calls run concurrently *)
(* (collectors and per-peer goroutines), the daemon executes them one at a *)
(* time and may stall, stop in the middle of an answer or die.             *)
(*                                                                         *)
(* A byte is a number and NUL is 0.  Time is counted in ticks: Tick takes  *)
(* one from what every connected call has left until its deadline.  A call *)
(* whose deadline is reached fails before time goes on: conn.Read returns. *)
(***************************************************************************)
EXTENDS Naturals, Sequences, FiniteSets

CONSTANTS Calls,        \* the calls of executeCmd
          Payload,      \* Payload[q]: the text the daemon answers to q
          BufSize,      \* length of the read buffer (4096 in the code)
          Timeout,      \* ticks between SetDeadline and the deadline
          Cost          \* ticks that a steady daemon works on a command at most

NUL == 0

ASSUME CallsAssumption   == IsFiniteSet(Calls)
ASSUME PayloadAssumption == Payload \in [Calls -> Seq(Nat \ {NUL})]
ASSUME BufSizeAssumption == BufSize \in Nat \ {0}
ASSUME TimeoutAssumption == Timeout \in Nat \ {0}
ASSUME CostAssumption    == Cost \in Nat

VARIABLES
  pc,        \* pc[q]: where executeCmd is
  left,      \* left[q]: ticks until the deadline of q
  elapsed,   \* elapsed[q]: ticks since q was called (observation)
  spent,     \* ticks since the daemon began its last command (observation)
  steady,    \* so far, calls only waited while it worked, Cost ticks
             \* on a command at most (observation)
  response,  \* response[q]: the bytes.Buffer of q
  ok,        \* ok[q]: q returned a nil error
  open,      \* the calls whose connection is open on the client's side
  conn,      \* conn[q]: the daemon's side of the connection
  inbox,     \* inbox[q]: bytes written by the daemon, not yet read
  todo       \* todo[q]: bytes of the answer the daemon has not yet written

clientVars == <<pc, response, ok, open>>
timeVars   == <<left, elapsed, spent, steady>>
daemonVars == <<conn, inbox, todo>>
vars == <<clientVars, timeVars, daemonVars>>

PCs == {"idle", "dial", "arm", "wEnable", "rEnable", "wCmd", "rCmd", "returned"}
Connected == {"wEnable", "rEnable", "wCmd", "rCmd"}
Conns == {"none", "open", "enable", "cmd", "busy", "gone"}

\* The daemon answers "enable" with four zero bytes, in one write.
EnableReply == <<NUL, NUL, NUL, NUL>>

\* bytes.TrimRight(r, "\x00")
TrailingNuls(r) == {i \in 1 .. Len(r) : \A j \in i .. Len(r) : r[j] = NUL}
TrimNoNuls(r) == r
TrimRight(r)  == SubSeq(r, 1, Len(r) - Cardinality(TrailingNuls(r)))

\* A chunk that ends the response: its last byte is NUL.
EndsWhenShort(chunk) == Len(chunk) < BufSize
EndsResponse(chunk) == chunk[Len(chunk)] = NUL

\* response.Write(buf[:n])
BufferReused(r, chunk)  == chunk
BufferWritten(r, chunk) == r \o chunk

Init ==
  /\ pc       = [q \in Calls |-> "idle"]
  /\ left     = [q \in Calls |-> 0]
  /\ elapsed  = [q \in Calls |-> 0]
  /\ spent = 0 /\ steady = TRUE
  /\ response = [q \in Calls |-> <<>>]
  /\ ok       = [q \in Calls |-> FALSE]
  /\ open     = {}
  /\ conn     = [q \in Calls |-> "none"]
  /\ inbox    = [q \in Calls |-> <<>>]
  /\ todo     = [q \in Calls |-> <<>>]

-----------------------------------------------------------------------------
(* executeCmd.                                                             *)

Goto(q, l) == pc' = [pc EXCEPT ![q] = l]

\* Every return after the dial runs the deferred conn.Close().
CloseOnSuccess(q) == open' = IF ok'[q] THEN open \ {q} ELSE open
Close(q)          == open' = open \ {q}

\* return nil (or what was read so far), err
ReturnErr(q) ==
  /\ Goto(q, "returned")
  /\ UNCHANGED <<ok, response>>
  /\ Close(q)

Call(q) ==
  /\ pc[q] = "idle"
  /\ Goto(q, "dial")
  /\ UNCHANGED <<response, ok, open, timeVars, daemonVars>>

\* net.DialUnix does not wait: the socket takes the connection or refuses it.
Dial(q) ==
  /\ pc[q] = "dial"
  /\ \/ /\ Goto(q, "arm")
        /\ open' = open \cup {q}
        /\ conn' = [conn EXCEPT ![q] = "open"]
        /\ UNCHANGED <<response, ok>>
     \/ ReturnErr(q) /\ UNCHANGED conn
  /\ UNCHANGED <<timeVars, inbox, todo>>

\* conn.SetDeadline(time.Now().Add(timeout))
ArmEarlier(q) == left' = [left EXCEPT ![q] = Timeout - 1]
Arm(q)        == left' = [left EXCEPT ![q] = Timeout]
SetDeadline(q) ==
  /\ pc[q] = "arm"
  /\ \/ /\ Goto(q, "wEnable")
        /\ Arm(q)
        /\ UNCHANGED <<response, ok, open, elapsed, spent, steady>>
     \/ ReturnErr(q) /\ UNCHANGED timeVars
  /\ UNCHANGED daemonVars

\* What an operation on the connection can fail with: the deadline, or the
\* daemon having closed its side.
IOError(q) == left[q] = 0 \/ conn[q] = "gone"

\* conn.Write of "enable" and of the command.
Write(q, here, next, arrives) ==
  /\ pc[q] = here
  /\ \/ /\ left[q] > 0 /\ conn[q] # "gone"
        /\ Goto(q, next)
        /\ conn' = [conn EXCEPT ![q] = arrives]
        /\ UNCHANGED <<response, ok, open>>
     \/ IOError(q) /\ ReturnErr(q) /\ UNCHANGED conn
  /\ UNCHANGED <<timeVars, inbox, todo>>
WriteEnable(q) == Write(q, "wEnable", "rEnable", "enable")
WriteCmd(q)    == Write(q, "wCmd", "rCmd", "cmd")

\* conn.Read(buf) takes some of the bytes that are there, at most BufSize.
Chunks(q) == {n \in 1 .. Len(inbox[q]) : n <= BufSize}
Taken(q, n) == SubSeq(inbox[q], 1, n)
Take(q, n)  == inbox' = [inbox EXCEPT ![q] = SubSeq(@, n + 1, Len(@))]

\* The one Read of the reply to "enable".  The reply is a single write of a
\* few bytes that fits the buffer, so one Read takes it whole.
ReadEnable(q) ==
  /\ pc[q] = "rEnable"
  /\ \/ /\ left[q] > 0 /\ inbox[q] # <<>>
        /\ Take(q, Len(inbox[q]))
        /\ Goto(q, "wCmd")
        /\ UNCHANGED <<response, ok, open>>
     \/ IOError(q) /\ ReturnErr(q) /\ UNCHANGED inbox
  /\ UNCHANGED <<timeVars, conn, todo>>

\* The deadline is absolute: a chunk that arrives does not move it.
DeadlineRenewed(q)  == Arm(q) /\ UNCHANGED <<elapsed, spent, steady>>
DeadlineAbsolute(q) == UNCHANGED timeVars

\* One turn of the read loop.
ReadCmd(q) ==
  /\ pc[q] = "rCmd"
  /\ \/ /\ left[q] > 0
        /\ \E n \in Chunks(q) :
             /\ Take(q, n)
             /\ IF EndsResponse(Taken(q, n))
                  THEN /\ response' = [response EXCEPT ![q] = TrimRight(BufferWritten(@, Taken(q, n)))]
                       /\ ok' = [ok EXCEPT ![q] = TRUE]
                       /\ Goto(q, "returned")
                       /\ Close(q)
                  ELSE /\ response' = [response EXCEPT ![q] = BufferWritten(@, Taken(q, n))]
                       /\ UNCHANGED <<pc, ok, open>>
        /\ DeadlineAbsolute(q)
     \/ IOError(q) /\ ReturnErr(q) /\ UNCHANGED <<inbox, timeVars>>
  /\ UNCHANGED <<conn, todo>>

-----------------------------------------------------------------------------
(* The daemon (external).                                                  *)

AnswerEnable(q) ==
  /\ conn[q] = "enable"
  /\ inbox' = [inbox EXCEPT ![q] = @ \o EnableReply]
  /\ conn' = [conn EXCEPT ![q] = "open"]
  /\ UNCHANGED <<clientVars, timeVars, todo>>

\* It executes one command at a time.
Execute(q) ==
  /\ conn[q] = "cmd"
  /\ \A r \in Calls : conn[r] # "busy"
  /\ conn' = [conn EXCEPT ![q] = "busy"]
  /\ todo' = [todo EXCEPT ![q] = Append(Payload[q], NUL)]
  /\ spent' = 0
  /\ UNCHANGED <<clientVars, left, elapsed, steady, inbox>>

\* It writes its answer in pieces of any size.
WriteSome(q) ==
  /\ conn[q] = "busy"
  /\ \E n \in 1 .. Len(todo[q]) :
       /\ inbox' = [inbox EXCEPT ![q] = @ \o SubSeq(todo[q], 1, n)]
       /\ todo' = [todo EXCEPT ![q] = SubSeq(@, n + 1, Len(@))]
       /\ conn' = [conn EXCEPT ![q] = IF n = Len(todo[q]) THEN "open" ELSE "busy"]
  /\ UNCHANGED <<clientVars, timeVars>>

\* It closes a connection: it died, or the client has gone.
Drop(q) ==
  /\ conn[q] \notin {"none", "gone"}
  /\ conn' = [conn EXCEPT ![q] = "gone"]
  /\ todo' = [todo EXCEPT ![q] = <<>>]
  /\ UNCHANGED <<clientVars, timeVars, inbox>>

-----------------------------------------------------------------------------
\* Time passes for every call that is waiting on its connection.
Waiting == {q \in Calls : pc[q] \in Connected}
Tick ==
  /\ Waiting # {}
  /\ \A q \in Waiting : left[q] > 0
  /\ \A q \in Calls : pc[q] \notin {"dial", "arm"}
  /\ left' = [q \in Calls |-> IF q \in Waiting THEN left[q] - 1 ELSE left[q]]
  /\ elapsed' = [q \in Calls |-> IF q \in Waiting THEN elapsed[q] + 1 ELSE elapsed[q]]
  /\ spent' = IF spent < Cost THEN spent + 1 ELSE spent
  /\ steady' = (steady /\ spent < Cost /\ \E q \in Calls : conn[q] = "busy")
  /\ UNCHANGED <<clientVars, daemonVars>>

executeCmd(q) == \/ Dial(q) \/ SetDeadline(q) \/ WriteEnable(q)
                 \/ ReadEnable(q) \/ WriteCmd(q) \/ ReadCmd(q)
Daemon(q) == AnswerEnable(q) \/ Execute(q) \/ WriteSome(q) \/ Drop(q)

\* Every call has returned and every connection is gone.
Quiet ==
  /\ \A q \in Calls : pc[q] = "returned" /\ conn[q] \in {"none", "gone"}
  /\ UNCHANGED vars

Next == Tick \/ (\E q \in Calls : Call(q) \/ executeCmd(q) \/ Daemon(q)) \/ Quiet

\* The client's goroutines run and time passes.  Nothing is assumed of the
\* daemon: it may stop at any point for ever.
Fairness == WF_vars(Tick) /\ \A q \in Calls : WF_vars(executeCmd(q))

Spec == Init /\ [][Next]_vars /\ Fairness

-----------------------------------------------------------------------------
(* Correctness.                                                            *)

\* Every variable has its type, and the text that a caller is given, with an
\* error or without, never holds the NUL that ends an answer.
TypeOK ==
  /\ pc \in [Calls -> PCs]
  /\ left \in [Calls -> 0 .. Timeout]
  /\ elapsed \in [Calls -> Nat]
  /\ spent \in 0 .. Cost /\ steady \in BOOLEAN
  /\ response \in [Calls -> Seq(Nat \ {NUL})]
  /\ ok \in [Calls -> BOOLEAN]
  /\ open \subseteq Calls
  /\ conn \in [Calls -> Conns]
  /\ inbox \in [Calls -> Seq(Nat)]
  /\ todo \in [Calls -> Seq(Nat)]

\* No call takes longer than its timeout, however slowly its answer trickles
\* in: what was used up and what is left add up to it while the call waits.
WithinTimeout ==
  \A q \in Calls :
    /\ elapsed[q] <= Timeout
    /\ pc[q] \in Connected => elapsed[q] + left[q] = Timeout

\* The calls that pile up at one daemon, which executes a command at a time,
\* all have their deadline from the moment they connect.  If it works steadily
\* and the commands of all of them fit one timeout, none runs into it, the last
\* in the queue included.  (With two goroutines a peer, that bounds the peers.)
NobodyStarves ==
  steady /\ Cardinality(Calls) * Cost < Timeout =>
    \A q \in Calls : pc[q] \in Connected => left[q] > 0

\* A connection is open exactly while its call is between the dial and its
\* return: no way out of executeCmd leaks a file descriptor.
ConnectionReleased ==
  \A q \in Calls : q \in open <=> pc[q] \in Connected \cup {"arm"}

\* What was read, what is in the socket and what the daemon still has to
\* write make up the answer to this call and no other, in order; only a
\* daemon that closed the connection leaves the rest unwritten.
Conserved ==
  \A q \in Calls :
    LET answer == Append(Payload[q], NUL)
        seen   == response[q] \o inbox[q] \o todo[q]
    IN  /\ pc[q] = "rCmd" /\ conn[q] \notin {"cmd", "gone"} => seen = answer
        /\ pc[q] = "rCmd" /\ conn[q] = "gone" => seen = SubSeq(answer, 1, Len(seen))

\* executeCmd is the call of CommandService: complete or an error, and it
\* returns even if the daemon never answers.
Called  == {q \in Calls : pc[q] # "idle"}
Results == [q \in Calls |->
  IF pc[q] = "returned"
    THEN [done |-> TRUE, ok |-> ok[q], data |-> response[q]]
    ELSE [done |-> FALSE, ok |-> FALSE, data |-> <<>>]]
Service == INSTANCE CommandService WITH called <- Called, result <- Results

ImplementsCommand == Service!Spec

=============================================================================
