------------------------ MODULE FrrSocketQueueProofs ------------------------
(***************************************************************************)
(* Proofs that no call of executeCmd runs into its deadline at a daemon    *)
(* that works steadily, if the commands of all calls fit one timeout, and  *)
(* that every call ends at any daemon; for any number of calls.            *)
(*                                                                         *)
(* The daemon executes each command once, so the calls that it will not    *)
(* execute any more (Past) grow by one with every command.  The time that  *)
(* has passed since any call began is bounded by what those cost, less     *)
(* what the daemon has yet to spend on the one it is at.                   *)
(*                                                                         *)
(* A call ends because every step of its own lowers a number that no step  *)
(* of the daemon raises, and because there is always such a step to come.  *)
(***************************************************************************)
EXTENDS FrrSocketProofs, FrrSocketAnswerProofs

\* The calls whose command the daemon may still begin to execute.
Future(q) ==
  \/ conn[q] \in {"none", "enable", "cmd"}
  \/ conn[q] = "open" /\ pc[q] \in {"arm", "wEnable", "rEnable", "wCmd"}
Past == {q \in Calls : ~Future(q)}
Busy == \E q \in Calls : conn[q] = "busy"

Bounded ==
  /\ ~Busy => \A q \in Calls : elapsed[q] <= Cost * Cardinality(Past)
  /\ Busy  => \A q \in Calls : elapsed[q] + Cost <= Cost * Cardinality(Past) + spent

QInv == steady => Bounded

-----------------------------------------------------------------------------
\* What the arithmetic is about: Cost times a number of calls.
LEMMA Products ==
  ASSUME NEW n \in Nat
  PROVE  /\ Cost * n \in Nat
         /\ Cost * (n + 1) = Cost * n + Cost
         /\ \A k \in Nat : n <= k => Cost * n <= Cost * k
BY CostAssumption

\* Past is a finite set of calls.
LEMMA PastFinite ==
  /\ IsFiniteSet(Past) /\ Cardinality(Past) \in Nat
  /\ Cardinality(Calls) \in Nat /\ Cardinality(Past) <= Cardinality(Calls)
<1>1. Past \in SUBSET Calls
  BY DEF Past
<1>2. QED
  BY <1>1, CallsAssumption, FS_Subset, FS_CardinalityType

LEMMA PastFiniteNext ==
  IsFiniteSet(Past') /\ Cardinality(Past') \in Nat
<1>1. Past' \in SUBSET Calls
  BY DEF Past
<1>2. QED
  BY <1>1, CallsAssumption, FS_Subset, FS_CardinalityType

\* A step that takes no time and lets no call back among those to come, nor the
\* daemon begin, preserves the bound.
LEMMA PastGrows ==
  ASSUME Answers, QInv, UNCHANGED <<elapsed, spent, steady>>,
         Past \subseteq Past', Busy' => Busy
  PROVE  QInv'
<1> SUFFICES ASSUME steady PROVE Bounded'
  BY DEF QInv
<1>1. Bounded /\ Types
  BY DEF QInv, Answers
<1>2. Cardinality(Past) <= Cardinality(Past')
  BY PastFiniteNext, FS_Subset
<1>3. PICK n \in Nat, k \in Nat : n = Cost * Cardinality(Past) /\ k = Cost * Cardinality(Past') /\ n <= k
  BY <1>2, PastFinite, PastFiniteNext, Products
<1>4. spent \in Nat /\ spent <= Cost /\ \A q \in Calls : elapsed[q] \in Nat
  BY <1>1, CostAssumption DEF Types
<1>5. ASSUME NEW q \in Calls
      PROVE  /\ ~Busy' => elapsed'[q] <= Cost * Cardinality(Past')
             /\ Busy' => elapsed'[q] + Cost <= Cost * Cardinality(Past') + spent'
  <2>1. /\ ~Busy => elapsed[q] <= n
        /\ Busy => elapsed[q] + Cost <= n + spent
    BY <1>1, <1>3 DEF Bounded
  <2>2. /\ elapsed[q] <= k
        /\ Busy => elapsed[q] + Cost <= k + spent
    BY <1>3, <1>4, <2>1, CostAssumption
  <2>3. QED
    BY <1>3, <2>2
<1>6. QED
  BY <1>5 DEF Bounded

\* The daemon begins with a command: one more of Past, which gives its cost.
LEMMA BeginsStep ==
  ASSUME Answers, QInv, NEW q \in Calls, Execute(q)
  PROVE  QInv'
<1> SUFFICES ASSUME steady PROVE Bounded'
  BY DEF QInv, Execute
<1>1. /\ Bounded /\ Types /\ AnswerInv(q)
      /\ ~Busy /\ conn[q] = "cmd" /\ conn' = [conn EXCEPT ![q] = "busy"]
      /\ spent' = 0 /\ UNCHANGED <<pc, elapsed, steady>>
  BY OneCall DEF QInv, Execute, clientVars, Busy
<1>2. Past' = Past \cup {q} /\ q \notin Past
  BY <1>1 DEF Past, Future, Types
<1>3. Cardinality(Past') = Cardinality(Past) + 1
  BY <1>2, PastFinite, FS_AddElement
<1>4. PICK n \in Nat : n = Cost * Cardinality(Past) /\ Cost * Cardinality(Past') = n + Cost
  BY <1>3, PastFinite, Products
<1>5. Busy'
  BY <1>1 DEF Busy, Types
<1>6. ASSUME NEW r \in Calls PROVE elapsed'[r] + Cost <= Cost * Cardinality(Past') + spent'
  <2>1. elapsed[r] \in Nat /\ elapsed[r] <= n
    BY <1>1, <1>4 DEF Bounded, Types
  <2>2. QED
    BY <1>1, <1>4, <2>1, CostAssumption
<1>7. QED
  BY <1>5, <1>6 DEF Bounded

\* Time passes: a tick for the calls is one that the daemon spends.
LEMMA SpendsStep ==
  ASSUME Answers, QInv, Tick
  PROVE  QInv'
<1> SUFFICES ASSUME steady' PROVE Bounded'
  BY DEF QInv
<1>1. /\ steady /\ spent < Cost /\ Busy
      /\ elapsed' = [q \in Calls |-> IF q \in Waiting THEN elapsed[q] + 1 ELSE elapsed[q]]
      /\ spent' = IF spent < Cost THEN spent + 1 ELSE spent
      /\ pc' = pc /\ conn' = conn
  BY DEF Tick, Busy, clientVars, daemonVars
<1>2. Bounded /\ Types
  BY <1>1 DEF QInv, Answers
<1>3. Past' = Past /\ Busy'
  BY <1>1 DEF Past, Future, Busy
<1>4. PICK n \in Nat : n = Cost * Cardinality(Past)
  BY PastFinite, Products
<1>5. ASSUME NEW q \in Calls PROVE elapsed'[q] + Cost <= Cost * Cardinality(Past') + spent'
  <2>1. elapsed[q] \in Nat /\ elapsed[q] + Cost <= n + spent
    BY <1>1, <1>2, <1>4 DEF Bounded, Types
  <2>2. elapsed'[q] <= elapsed[q] + 1 /\ elapsed'[q] \in Nat
    BY <1>1, <2>1
  <2>3. spent \in Nat /\ spent' = spent + 1
    BY <1>1, <1>2 DEF Types
  <2>4. elapsed'[q] + Cost <= n + spent'
    BY <2>1, <2>2, <2>3, CostAssumption
  <2>5. QED
    BY <1>3, <1>4, <2>4
<1>6. QED
  BY <1>3, <1>5 DEF Bounded

\* No other step lets a call back: a connection leaves "busy" when its call
\* reads or has returned, and "gone" for good.
LEMMA PastKept ==
  ASSUME Answers, NEW q \in Calls,
         Call(q) \/ executeCmd(q) \/ AnswerEnable(q) \/ WriteSome(q) \/ Drop(q)
  PROVE  /\ Past \subseteq Past' /\ (Busy' => Busy)
         /\ UNCHANGED <<elapsed, spent, steady>>
<1>1. /\ Types /\ Stage(q) /\ pc[q] \in PCs /\ conn[q] \in Conns
  BY OneCall DEF AnswerInv
<1>2. UNCHANGED <<elapsed, spent, steady>>
  BY DEF Call, executeCmd, Dial, SetDeadline, WriteEnable, WriteCmd, Write, ReadEnable, ReadCmd,
         DeadlineAbsolute, AnswerEnable, WriteSome, Drop, timeVars
<1>3. /\ \A r \in Calls \ {q} : pc'[r] = pc[r] /\ conn'[r] = conn[r]
      /\ ~Future(q) => ~Future(q)'
      /\ conn'[q] = "busy" => conn[q] = "busy"
  <2>1. CASE executeCmd(q)
    <3>1. PICK l \in PCs : pc' = [pc EXCEPT ![q] = l]
      BY <2>1, Moves
    <3>2. CASE WriteEnable(q) \/ WriteCmd(q)
      <4>1. /\ pc[q] \in {"wEnable", "wCmd"}
            /\ \/ \E c \in {"enable", "cmd"} : conn' = [conn EXCEPT ![q] = c] /\ conn[q] # "gone"
               \/ conn' = conn /\ Goto(q, "returned")
        BY <3>2 DEF WriteEnable, WriteCmd, Write, ReturnErr
      <4>2. QED
        BY <1>1, <3>1, <4>1 DEF Future, Stage, Goto, Types, PCs
    <3>3. CASE Dial(q)
      <4>1. /\ pc[q] = "dial"
            /\ \/ conn' = [conn EXCEPT ![q] = "open"]
               \/ conn' = conn /\ Goto(q, "returned")
        BY <3>3 DEF Dial, ReturnErr
      <4>2. QED
        BY <1>1, <3>1, <4>1 DEF Future, Stage, Goto, Types, PCs
    <3>4. CASE SetDeadline(q) \/ ReadEnable(q) \/ ReadCmd(q)
      <4>1. /\ conn' = conn
            /\ \/ pc[q] = "arm" /\ pc'[q] \in {"wEnable", "returned"}
               \/ pc[q] = "rEnable" /\ pc'[q] \in {"wCmd", "returned"}
               \/ pc[q] = "rCmd" /\ pc'[q] \in {"rCmd", "returned"}
        BY <1>1, <3>4 DEF SetDeadline, ReadEnable, ReadCmd, ReturnErr, Goto, daemonVars, Types
      <4>2. QED
        BY <1>1, <3>1, <4>1 DEF Future, Types
    <3>5. QED
      BY <2>1, <3>2, <3>3, <3>4 DEF executeCmd
  <2>2. CASE Call(q)
    <3>1. pc[q] = "idle" /\ pc' = [pc EXCEPT ![q] = "dial"] /\ conn' = conn
      BY <2>2 DEF Call, Goto, daemonVars
    <3>2. QED
      BY <1>1, <3>1 DEF Future, Stage, Types
  <2>3. CASE AnswerEnable(q)
    BY <1>1, <2>3 DEF AnswerEnable, clientVars, Future, Types
  <2>4. CASE WriteSome(q)
    <3>1. /\ conn[q] = "busy" /\ pc' = pc
          /\ \E c \in {"open", "busy"} : conn' = [conn EXCEPT ![q] = c]
      BY <2>4 DEF WriteSome, clientVars
    <3>2. QED
      BY <1>1, <3>1 DEF Future, Stage, Types
  <2>5. CASE Drop(q)
    BY <1>1, <2>5 DEF Drop, clientVars, Future, Types
  <2>6. QED
    BY <2>1, <2>2, <2>3, <2>4, <2>5
<1>4. Past \subseteq Past'
  <2>1. ASSUME NEW r \in Calls, ~Future(r) PROVE ~Future(r)'
    BY <1>3, <2>1 DEF Future
  <2>2. QED
    BY <2>1 DEF Past
<1>5. Busy' => Busy
  BY <1>3 DEF Busy
<1>6. QED
  BY <1>2, <1>4, <1>5

-----------------------------------------------------------------------------
\* Initially no time has passed.
LEMMA InitQInv == Init => QInv
<1> SUFFICES ASSUME Init PROVE Bounded
  BY DEF QInv
<1>1. ~Busy /\ \A q \in Calls : elapsed[q] = 0
  BY DEF Init, Busy
<1>2. Cost * Cardinality(Past) \in Nat
  BY PastFinite, Products
<1>3. QED
  BY <1>1, <1>2 DEF Bounded

LEMMA NextQInv == Answers /\ QInv /\ [Next]_vars => QInv'
<1> SUFFICES ASSUME Answers, QInv, [Next]_vars PROVE QInv'
  OBVIOUS
<1>1. CASE Tick
  BY <1>1, SpendsStep
<1>2. ASSUME NEW q \in Calls, Execute(q) PROVE QInv'
  BY <1>2, BeginsStep
<1>3. ASSUME NEW q \in Calls,
             Call(q) \/ executeCmd(q) \/ AnswerEnable(q) \/ WriteSome(q) \/ Drop(q)
      PROVE  QInv'
  BY <1>3, PastKept, PastGrows
<1>4. CASE Quiet \/ UNCHANGED vars
  <2>1. UNCHANGED <<pc, conn, elapsed, spent, steady>>
    BY <1>4 DEF Quiet, vars, clientVars, timeVars, daemonVars
  <2>2. Past' = Past /\ Busy' = Busy
    BY <2>1 DEF Past, Future, Busy
  <2>3. QED
    BY <2>1, <2>2, PastGrows
<1>5. QED
  BY <1>1, <1>2, <1>3, <1>4 DEF Next, Daemon

\* The commands of all calls fit one timeout, and so does the time of each.
LEMMA QueueFits == Answers /\ QInv /\ WithinTimeout => NobodyStarves
<1> SUFFICES ASSUME Answers, QInv, WithinTimeout, steady, Cardinality(Calls) * Cost < Timeout,
                    NEW q \in Calls, pc[q] \in Connected
             PROVE  left[q] > 0
  BY DEF NobodyStarves
<1>1. Bounded /\ Types
  BY DEF QInv, Answers
<1>2. PICK n \in Nat, k \in Nat :
        n = Cost * Cardinality(Past) /\ k = Cost * Cardinality(Calls) /\ n <= k
  BY PastFinite, Products
<1>3. k < Timeout
  BY <1>2, PastFinite, CostAssumption
<1>4. /\ elapsed[q] \in Nat /\ left[q] \in Nat /\ elapsed[q] + left[q] = Timeout
      /\ spent \in Nat /\ spent <= Cost
  BY <1>1, TimeoutAssumption, CostAssumption DEF Types, WithinTimeout
<1>5. elapsed[q] <= n
  BY <1>1, <1>2, <1>4, CostAssumption DEF Bounded
<1>6. QED
  BY <1>2, <1>3, <1>4, <1>5, TimeoutAssumption

\* While the daemon works steadily, and the commands of all calls fit one
\* timeout, no call of executeCmd runs into its deadline in the queue.
THEOREM QueueServed == Spec => []NobodyStarves
<1>1. Spec => []QInv
  BY InitQInv, NextQInv, Invariance, PTL DEF Spec
<1>2. QED
  BY <1>1, Invariance, DeadlineKept, QueueFits, PTL

-----------------------------------------------------------------------------
(* Calls end, whatever the daemon does.                                    *)

\* What a call has ahead of it, in number: statements of executeCmd, ticks
\* until its deadline, and bytes of the answer that it has not read.
Statements == [idle |-> 7, dial |-> 6, arm |-> 5, wEnable |-> 4, rEnable |-> 3,
               wCmd |-> 2, rCmd |-> 1, returned |-> 0]
Ticks(q) == IF pc[q] \in Connected THEN left[q]
            ELSE IF pc[q] = "returned" THEN 0 ELSE Timeout
Bytes(q) == IF pc[q] = "rCmd" /\ conn[q] # "cmd" THEN Len(inbox[q]) + Len(todo[q])
            ELSE IF pc[q] = "returned" THEN 0 ELSE WireLen(q)
ToCome(q) == Statements[pc[q]] + Ticks(q) + Bytes(q)

\* A step of the call itself, or time that passes for it.
Own(q) == Call(q) \/ executeCmd(q) \/ (Tick /\ q \in Waiting)
Nearer(q) == ToCome(q)' <= ToCome(q) /\ (Own(q) => ToCome(q)' < ToCome(q))

\* A statement of executeCmd that can be taken: writes always can, with an
\* error if need be; reads when there is something to read, or an error.
CanGoOn(q) ==
  \/ pc[q] \in {"dial", "arm", "wEnable", "wCmd"}
  \/ pc[q] \in {"rEnable", "rCmd"} /\ (inbox[q] # <<>> \/ IOError(q))
TimeCanPass ==
  /\ \A q \in Waiting : left[q] > 0
  /\ \A q \in Calls : pc[q] \notin {"dial", "arm"}

\* Sums of natural numbers.
LEMMA Sums ==
  /\ \A a, b \in Nat : a + b \in Nat
  /\ \A a, b, c, d, e, f \in Nat :
       d <= a /\ e <= b /\ f <= c =>
         /\ d + e + f <= a + b + c
         /\ d < a \/ e < b \/ f < c => d + e + f < a + b + c
OBVIOUS

\* The numbers are natural numbers.
LEMMA Numbers ==
  ASSUME Types, NEW q \in Calls
  PROVE  Statements[pc[q]] \in Nat /\ Ticks(q) \in Nat /\ Bytes(q) \in Nat
<1>1. Statements[pc[q]] \in Nat
  BY DEF Types, PCs, Statements
<1>2. Ticks(q) \in Nat
  BY TimeoutAssumption DEF Types, Ticks
<1>3. Len(inbox[q]) \in Nat /\ Len(todo[q]) \in Nat /\ Len(Payload[q]) \in Nat
  <2>1. Payload[q] \in Seq(Nat \ {NUL}) /\ inbox[q] \in Seq(Nat) /\ todo[q] \in Seq(Nat)
    BY PayloadAssumption DEF Types
  <2>2. QED
    BY <2>1, LenProperties
<1>4. 0 \in Nat /\ 1 \in Nat
  OBVIOUS
<1>5. Bytes(q) \in Nat
  BY <1>3, <1>4, Sums, Zenon DEF WireLen, Bytes
<1>6. QED
  BY <1>1, <1>2, <1>5

\* The same in the next state.
LEMMA NumbersNext ==
  ASSUME Types', NEW q \in Calls
  PROVE  Statements[pc'[q]] \in Nat /\ Ticks(q)' \in Nat /\ Bytes(q)' \in Nat
<1>1. Statements[pc'[q]] \in Nat
  BY DEF Types, PCs, Statements
<1>2. Ticks(q)' \in Nat
  BY TimeoutAssumption DEF Types, Ticks
<1>3. Len(inbox'[q]) \in Nat /\ Len(todo'[q]) \in Nat /\ Len(Payload[q]) \in Nat
  <2>1. Payload[q] \in Seq(Nat \ {NUL}) /\ inbox'[q] \in Seq(Nat) /\ todo'[q] \in Seq(Nat)
    BY PayloadAssumption DEF Types
  <2>2. QED
    BY <2>1, LenProperties
<1>4. 0 \in Nat /\ 1 \in Nat
  OBVIOUS
<1>5. Bytes(q)' \in Nat
  BY <1>3, <1>4, Sums, Zenon DEF WireLen, Bytes
<1>6. QED
  BY <1>1, <1>2, <1>5

\* A step that makes none of the three numbers larger, and what it takes to
\* make their sum smaller.
LEMMA Parts ==
  ASSUME Types, Types', NEW q \in Calls,
         Statements[pc'[q]] <= Statements[pc[q]], Ticks(q)' <= Ticks(q), Bytes(q)' <= Bytes(q)
  PROVE  /\ ToCome(q)' <= ToCome(q)
         /\ \/ Statements[pc'[q]] < Statements[pc[q]]
            \/ Ticks(q)' < Ticks(q)
            \/ Bytes(q)' < Bytes(q)
            => ToCome(q)' < ToCome(q)
<1>1. /\ Statements[pc[q]] \in Nat /\ Ticks(q) \in Nat /\ Bytes(q) \in Nat
      /\ Statements[pc'[q]] \in Nat /\ Ticks(q)' \in Nat /\ Bytes(q)' \in Nat
  BY Numbers, NumbersNext
<1>2. QED
  BY <1>1, Sums, Zenon DEF ToCome

\* A return leaves nothing to come.
LEMMA ReturnNearer ==
  ASSUME Types, Types', NEW q \in Calls, pc[q] # "returned", pc'[q] = "returned"
  PROVE  ToCome(q)' < ToCome(q)
<1>1. Statements[pc'[q]] < Statements[pc[q]] /\ Statements[pc'[q]] <= Statements[pc[q]]
  BY DEF Types, PCs, Statements
<1>2. Ticks(q)' = 0 /\ Bytes(q)' = 0
  BY DEF Ticks, Bytes, Connected
<1>3. Ticks(q)' <= Ticks(q) /\ Bytes(q)' <= Bytes(q)
  <2>1. Ticks(q) \in Nat /\ Bytes(q) \in Nat
    BY Numbers
  <2>2. QED
    BY <1>2, <2>1
<1>4. QED
  BY <1>1, <1>3, Parts

\* So does an error that executeCmd returns.
LEMMA ErrNearer ==
  ASSUME Types, Types', NEW q \in Calls, pc[q] # "returned", ReturnErr(q)
  PROVE  ToCome(q)' < ToCome(q)
BY ReturnNearer DEF ReturnErr, Goto, Types

\* The statements up to the last write, none of which reads an answer.
LEMMA BeforeReading ==
  ASSUME Types, Types', NEW q \in Calls,
         pc[q] \in {"idle", "dial", "arm", "wEnable", "rEnable", "wCmd"},
         pc[q] = "idle"    => pc'[q] = "dial",
         pc[q] = "dial"    => pc'[q] = "arm",
         pc[q] = "arm"     => pc'[q] = "wEnable" /\ left'[q] = Timeout,
         pc[q] = "wEnable" => pc'[q] = "rEnable",
         pc[q] = "rEnable" => pc'[q] = "wCmd",
         pc[q] = "wCmd"    => pc'[q] = "rCmd" /\ conn'[q] = "cmd",
         pc[q] # "arm"     => left'[q] = left[q]
  PROVE  ToCome(q)' < ToCome(q)
<1>1. Statements[pc'[q]] < Statements[pc[q]]
  BY DEF Statements
<1>2. Ticks(q)' = Ticks(q)
  BY DEF Ticks, Connected
<1>3. Bytes(q)' = Bytes(q)
  BY DEF Bytes
<1>4. Statements[pc'[q]] <= Statements[pc[q]] /\ Ticks(q)' <= Ticks(q) /\ Bytes(q)' <= Bytes(q)
  BY <1>1, <1>2, <1>3, Numbers, NumbersNext
<1>5. QED
  BY <1>1, <1>4, Parts

\* Bytes taken from the socket are no more to come.
LEMMA TakeNearer ==
  ASSUME Answers, Types', NEW q \in Calls, NEW n \in Chunks(q),
         pc[q] = "rCmd", pc' = pc, left' = left, conn' = conn, todo' = todo, Take(q, n)
  PROVE  ToCome(q)' < ToCome(q)
<1>1. Types /\ Before(q)
  BY DEF Answers, AnswerInv
<1>2. inbox \in [Calls -> Seq(Nat)] /\ inbox[q] \in Seq(Nat) /\ todo[q] \in Seq(Nat)
  BY <1>1 DEF Types
<1>3. n \in 1 .. Len(inbox[q]) /\ Len(inbox[q]) \in Nat /\ Len(todo[q]) \in Nat
  BY <1>2, LenProperties DEF Chunks
<1>4. conn[q] # "cmd"
  <2>1. SUFFICES ASSUME conn[q] = "cmd" PROVE FALSE
    OBVIOUS
  <2>2. inbox[q] = <<>>
    BY <1>1, <2>1 DEF Before
  <2>3. Len(inbox[q]) = 0
    BY <2>2
  <2>4. QED
    BY <1>3, <2>3
<1>5. inbox'[q] = SubSeq(inbox[q], n + 1, Len(inbox[q]))
  BY <1>2 DEF Take
<1>6. Len(inbox'[q]) \in Nat /\ Len(inbox'[q]) < Len(inbox[q])
  <2>1. Len(inbox'[q]) = Len(inbox[q]) - n
    BY <1>2, <1>3, <1>5
  <2>2. QED
    BY <1>3, <2>1
<1>7. Bytes(q)' < Bytes(q)
  <2>1. PICK a \in Nat, b \in Nat, c \in Nat :
          a = Len(inbox[q]) /\ b = Len(todo[q]) /\ c = Len(inbox'[q])
    BY <1>3, <1>6
  <2>2. c < a
    BY <1>6, <2>1
  <2>3. Bytes(q) = a + b /\ Bytes(q)' = c + b
    BY <1>4, <2>1, Zenon DEF Bytes
  <2>4. c + b < a + b
    BY <2>2
  <2>5. QED
    BY <2>3, <2>4
<1>8. Statements[pc'[q]] <= Statements[pc[q]] /\ Ticks(q)' <= Ticks(q) /\ Bytes(q)' <= Bytes(q)
  <2>1. Statements[pc'[q]] = Statements[pc[q]] /\ Ticks(q)' = Ticks(q)
    BY DEF Ticks
  <2>2. QED
    BY <1>1, <1>7, <2>1, Numbers, NumbersNext
<1>9. QED
  BY <1>1, <1>7, <1>8, Parts

\* A tick that a call waits for is no more to come.
LEMMA TickNearer ==
  ASSUME Types, Types', NEW q \in Calls, Tick, q \in Waiting
  PROVE  ToCome(q)' < ToCome(q)
<1>1. /\ pc' = pc /\ conn' = conn /\ inbox' = inbox /\ todo' = todo
      /\ pc[q] \in Connected /\ left[q] > 0 /\ left'[q] = left[q] - 1
  BY DEF Tick, Waiting, clientVars, daemonVars
<1>2. left[q] \in Nat
  BY TimeoutAssumption DEF Types
<1>3. Ticks(q)' < Ticks(q) /\ Bytes(q)' = Bytes(q) /\ Statements[pc'[q]] = Statements[pc[q]]
  BY <1>1, <1>2 DEF Ticks, Bytes
<1>4. Statements[pc'[q]] <= Statements[pc[q]] /\ Ticks(q)' <= Ticks(q) /\ Bytes(q)' <= Bytes(q)
  BY <1>3, Numbers, NumbersNext
<1>5. QED
  BY <1>3, <1>4, Parts

\* Every step of a call, and every tick that it waits for, brings it nearer.
LEMMA OwnNearer ==
  ASSUME Answers, Types', NEW q \in Calls, Own(q)
  PROVE  ToCome(q)' < ToCome(q)
<1>1. Types /\ pc \in [Calls -> PCs] /\ conn \in [Calls -> Conns]
  BY DEF Answers, Types
<1>2. CASE Call(q)
  <2>1. pc[q] = "idle" /\ pc'[q] = "dial" /\ left' = left
    BY <1>1, <1>2 DEF Call, Goto, timeVars
  <2>2. QED
    BY <1>1, <2>1, BeforeReading
<1>3. CASE ReturnErr(q) /\ pc[q] # "returned"
  BY <1>1, <1>3, ErrNearer
<1>4. CASE Dial(q) /\ ~ReturnErr(q)
  <2>1. pc[q] = "dial" /\ pc'[q] = "arm" /\ left' = left
    BY <1>1, <1>4 DEF Dial, Goto, timeVars
  <2>2. QED
    BY <1>1, <2>1, BeforeReading
<1>5. CASE SetDeadline(q) /\ ~ReturnErr(q)
  <2>1. pc[q] = "arm" /\ pc'[q] = "wEnable" /\ left'[q] = Timeout
    BY <1>1, <1>5 DEF SetDeadline, Goto, Arm, Types
  <2>2. QED
    BY <1>1, <2>1, BeforeReading
<1>6. CASE WriteEnable(q) /\ ~ReturnErr(q)
  <2>1. pc[q] = "wEnable" /\ pc'[q] = "rEnable" /\ left' = left
    BY <1>1, <1>6 DEF WriteEnable, Write, Goto, timeVars
  <2>2. QED
    BY <1>1, <2>1, BeforeReading
<1>7. CASE ReadEnable(q) /\ ~ReturnErr(q)
  <2>1. pc[q] = "rEnable" /\ pc'[q] = "wCmd" /\ left' = left
    BY <1>1, <1>7 DEF ReadEnable, Goto, timeVars
  <2>2. QED
    BY <1>1, <2>1, BeforeReading
<1>8. CASE WriteCmd(q) /\ ~ReturnErr(q)
  <2>1. pc[q] = "wCmd" /\ pc'[q] = "rCmd" /\ left' = left /\ conn'[q] = "cmd"
    BY <1>1, <1>8 DEF WriteCmd, Write, Goto, timeVars
  <2>2. QED
    BY <1>1, <2>1, BeforeReading
<1>9. CASE ReadCmd(q) /\ ~ReturnErr(q)
  <2>1. PICK n \in Chunks(q) :
          /\ Take(q, n)
          /\ Goto(q, "returned") \/ pc' = pc
    BY <1>9 DEF ReadCmd
  <2>2. pc[q] = "rCmd" /\ conn' = conn /\ todo' = todo /\ left' = left
    BY <1>9 DEF ReadCmd, DeadlineAbsolute, timeVars
  <2>3. CASE Goto(q, "returned")
    <3>1. pc'[q] = "returned"
      BY <1>1, <2>3 DEF Goto
    <3>2. QED
      BY <1>1, <2>2, <3>1, ReturnNearer
  <2>4. CASE pc' = pc
    BY <2>1, <2>2, <2>4, TakeNearer
  <2>5. QED
    BY <2>1, <2>3, <2>4
<1>10. CASE Tick /\ q \in Waiting
  BY <1>1, <1>10, TickNearer
<1>11. QED
  <2>1. executeCmd(q) => pc[q] # "returned"
    BY DEF executeCmd, Dial, SetDeadline, WriteEnable, WriteCmd, Write, ReadEnable, ReadCmd
  <2>2. QED
    BY <1>2, <1>3, <1>4, <1>5, <1>6, <1>7, <1>8, <1>9, <1>10, <2>1 DEF Own, executeCmd

-----------------------------------------------------------------------------
\* What the daemon does to its own connection brings no call further away.  It
\* moves bytes of the answer, and they are counted wherever they are.
LEMMA DaemonKeeps ==
  ASSUME Answers, Types', NEW q \in Calls, Daemon(q)
  PROVE  ToCome(q)' <= ToCome(q)
<1>1. Types /\ Stage(q) /\ Before(q) /\ pc' = pc /\ left' = left
  BY DEF Answers, AnswerInv, Daemon, AnswerEnable, Execute, WriteSome, Drop, clientVars, timeVars
<1>2. /\ pc[q] \in PCs /\ conn \in [Calls -> Conns]
      /\ inbox \in [Calls -> Seq(Nat)] /\ inbox[q] \in Seq(Nat)
      /\ todo \in [Calls -> Seq(Nat)] /\ todo[q] \in Seq(Nat)
  BY <1>1 DEF Types
<1>3. Len(inbox[q]) \in Nat /\ Len(todo[q]) \in Nat
  BY <1>2, LenProperties
<1>4. Statements[pc'[q]] = Statements[pc[q]] /\ Ticks(q)' = Ticks(q)
  BY <1>1 DEF Ticks
<1>5. SUFFICES Bytes(q)' <= Bytes(q)
  <2>1. Statements[pc'[q]] <= Statements[pc[q]] /\ Ticks(q)' <= Ticks(q)
    BY <1>1, <1>4, Numbers
  <2>2. QED
    BY <1>1, <2>1, Parts
<1>6. Bytes(q) \in Nat /\ Bytes(q)' \in Nat
  BY <1>1, Numbers, NumbersNext
<1>7. CASE pc[q] # "rCmd"
  <2>1. Bytes(q)' = Bytes(q)
    BY <1>1, <1>7 DEF Bytes
  <2>2. QED
    BY <1>6, <2>1
<1>8. CASE pc[q] = "rCmd" /\ AnswerEnable(q)
  <2>1. conn[q] = "enable"
    BY <1>8 DEF AnswerEnable
  <2>2. QED
    BY <1>1, <1>8, <2>1 DEF Stage
<1>9. CASE pc[q] = "rCmd" /\ Execute(q)
  <2>1. /\ conn[q] = "cmd" /\ conn'[q] = "busy" /\ inbox'[q] = <<>>
        /\ todo'[q] = Append(Payload[q], NUL)
    BY <1>1, <1>2, <1>9 DEF Execute, Before
  <2>2. Len(todo'[q]) = WireLen(q) /\ WireLen(q) \in Nat
    BY <2>1, OneCall DEF Wire
  <2>3. Len(inbox'[q]) = 0
    BY <2>1
  <2>4. Bytes(q) = WireLen(q) /\ Bytes(q)' = 0 + WireLen(q)
    BY <1>1, <1>9, <2>1, <2>2, <2>3, Zenon DEF Bytes
  <2>5. QED
    BY <2>2, <2>4
<1>10. CASE pc[q] = "rCmd" /\ WriteSome(q)
  <2>1. PICK n \in 1 .. Len(todo[q]) :
          /\ inbox' = [inbox EXCEPT ![q] = @ \o SubSeq(todo[q], 1, n)]
          /\ todo' = [todo EXCEPT ![q] = SubSeq(@, n + 1, Len(@))]
          /\ conn' = [conn EXCEPT ![q] = IF n = Len(todo[q]) THEN "open" ELSE "busy"]
    BY <1>10 DEF WriteSome
  <2>2. conn[q] = "busy" /\ conn'[q] # "cmd"
    BY <1>2, <1>10, <2>1 DEF WriteSome
  <2>3. /\ inbox'[q] = inbox[q] \o SubSeq(todo[q], 1, n)
        /\ todo'[q] = SubSeq(todo[q], n + 1, Len(todo[q]))
    BY <1>2, <2>1
  <2>4. /\ SubSeq(todo[q], 1, n) \in Seq(Nat) /\ Len(SubSeq(todo[q], 1, n)) = n
        /\ Len(todo'[q]) = Len(todo[q]) - n
    BY <1>2, <1>3, <2>3
  <2>5. Len(inbox'[q]) = Len(inbox[q]) + n
    BY <1>2, <2>3, <2>4, ConcatProperties
  <2>6. PICK a \in Nat, b \in Nat : a = Len(inbox[q]) /\ b = Len(todo[q])
    BY <1>3
  <2>7. Len(inbox'[q]) = a + n /\ Len(todo'[q]) = b - n
    BY <2>4, <2>5, <2>6, Zenon
  <2>8. Bytes(q) = a + b /\ Bytes(q)' = (a + n) + (b - n)
    BY <1>1, <1>10, <2>2, <2>6, <2>7, Zenon DEF Bytes
  <2>9. n \in Nat
    BY <1>3
  <2>10. (a + n) + (b - n) = a + b
    BY <2>9
  <2>11. QED
    BY <1>6, <2>8, <2>10
<1>11. CASE pc[q] = "rCmd" /\ Drop(q)
  <2>1. conn'[q] = "gone" /\ todo'[q] = <<>> /\ inbox'[q] = inbox[q]
    BY <1>2, <1>11 DEF Drop
  <2>2. Len(todo'[q]) = 0
    BY <2>1
  <2>3. PICK a \in Nat, b \in Nat : a = Len(inbox[q]) /\ b = Len(todo[q])
    BY <1>3
  <2>4. Bytes(q)' = a + 0
    BY <1>1, <1>11, <2>1, <2>2, <2>3, Zenon DEF Bytes
  <2>5. CASE conn[q] = "cmd"
    <3>1. inbox[q] = <<>>
      BY <1>1, <1>11, <2>5 DEF Before
    <3>2. a = 0
      BY <2>3, <3>1
    <3>3. QED
      BY <1>6, <2>4, <3>2
  <2>6. CASE conn[q] # "cmd"
    <3>1. Bytes(q) = a + b
      BY <1>11, <2>3, <2>6, Zenon DEF Bytes
    <3>2. QED
      BY <2>4, <3>1
  <2>7. QED
    BY <2>5, <2>6
<1>12. QED
  BY <1>7, <1>8, <1>9, <1>10, <1>11 DEF Daemon

\* A step of another call, or of the daemon at another connection, leaves what a
\* call has to come as it is.
LEMMA OthersKeep ==
  ASSUME Types, NEW q \in Calls, NEW r \in Calls, r # q,
         Call(r) \/ executeCmd(r) \/ Daemon(r)
  PROVE  ToCome(q)' = ToCome(q)
<1>1. /\ pc \in [Calls -> PCs] /\ conn \in [Calls -> Conns] /\ left \in [Calls -> 0 .. Timeout]
      /\ inbox \in [Calls -> Seq(Nat)] /\ todo \in [Calls -> Seq(Nat)]
  BY DEF Types
<1>2. pc'[q] = pc[q] /\ left'[q] = left[q] /\ conn'[q] = conn[q]
      /\ inbox'[q] = inbox[q] /\ todo'[q] = todo[q]
  <2>1. CASE Call(r)
    BY <1>1, <2>1 DEF Call, Goto, timeVars, daemonVars
  <2>2. CASE Dial(r) \/ SetDeadline(r)
    BY <1>1, <2>2 DEF Dial, SetDeadline, ReturnErr, Arm, Goto, timeVars, daemonVars
  <2>3. CASE WriteEnable(r) \/ WriteCmd(r)
    BY <1>1, <2>3 DEF WriteEnable, WriteCmd, Write, ReturnErr, Goto, timeVars
  <2>4. CASE ReadEnable(r)
    BY <1>1, <2>4 DEF ReadEnable, ReturnErr, Take, Goto, timeVars
  <2>5. CASE ReadCmd(r)
    BY <1>1, <2>5 DEF ReadCmd, DeadlineAbsolute, ReturnErr, Take, Goto, timeVars
  <2>6. CASE Daemon(r)
    BY <1>1, <2>6 DEF Daemon, AnswerEnable, Execute, WriteSome, Drop, clientVars, timeVars
  <2>7. QED
    BY <2>1, <2>2, <2>3, <2>4, <2>5, <2>6 DEF executeCmd
<1>3. QED
  BY <1>2 DEF ToCome, Ticks, Bytes

\* No step brings a call further away from its return.
LEMMA NextKeeps ==
  ASSUME Answers, Types', NEW q \in Calls, [Next]_vars
  PROVE  ToCome(q)' <= ToCome(q)
<1>1. Types
  BY DEF Answers
<1>2. ToCome(q) \in Nat /\ ToCome(q)' \in Nat
  <2>1. /\ Statements[pc[q]] \in Nat /\ Ticks(q) \in Nat /\ Bytes(q) \in Nat
        /\ Statements[pc'[q]] \in Nat /\ Ticks(q)' \in Nat /\ Bytes(q)' \in Nat
    BY <1>1, Numbers, NumbersNext
  <2>2. QED
    BY <2>1, Sums, Zenon DEF ToCome
<1>3. CASE Own(q)
  BY <1>2, <1>3, OwnNearer
<1>4. CASE Daemon(q)
  BY <1>4, DaemonKeeps
<1>5. CASE \E r \in Calls \ {q} : Call(r) \/ executeCmd(r) \/ Daemon(r)
  BY <1>1, <1>2, <1>5, OthersKeep
<1>6. CASE (Tick /\ q \notin Waiting) \/ Quiet \/ UNCHANGED vars
  <2>1. /\ pc'[q] = pc[q] /\ left'[q] = left[q] /\ conn'[q] = conn[q]
        /\ inbox'[q] = inbox[q] /\ todo'[q] = todo[q]
    BY <1>6 DEF Tick, Quiet, vars, clientVars, timeVars, daemonVars
  <2>2. ToCome(q)' = ToCome(q)
    BY <2>1 DEF ToCome, Ticks, Bytes
  <2>3. QED
    BY <1>2, <2>2
<1>7. QED
  BY <1>3, <1>4, <1>5, <1>6 DEF Next, Own

-----------------------------------------------------------------------------
\* Until a call has returned, executeCmd can take its next statement, or it waits
\* for time to pass, which it does unless a call can take a statement first.
Goes(q) ==
  \/ CanGoOn(q)
  \/ /\ q \in Waiting /\ left[q] > 0
     /\ TimeCanPass \/ \E r \in Calls : CanGoOn(r)

\* No call is stuck: neither the daemon nor another call can hold it for ever.
\* (executeCmd, whose every wait has a deadline.)
THEOREM NobodyStuck == Spec => [](\A q \in Calls : pc[q] \notin {"idle", "returned"} => Goes(q))
<1>1. ASSUME Answers, NEW q \in Calls, pc[q] \notin {"idle", "returned"} PROVE Goes(q)
  <2>1. pc[q] \in PCs /\ \A r \in Calls : left[r] \in 0 .. Timeout
    BY <1>1 DEF Answers, Types
  <2>2. CASE pc[q] \in {"dial", "arm", "wEnable", "wCmd"}
    BY <2>2 DEF Goes, CanGoOn
  <2>3. CASE pc[q] \in {"rEnable", "rCmd"} /\ left[q] = 0
    BY <2>3 DEF Goes, CanGoOn, IOError
  <2>4. CASE pc[q] \in {"rEnable", "rCmd"} /\ left[q] # 0
    <3>1. q \in Waiting /\ left[q] > 0
      BY <2>1, <2>4, TimeoutAssumption DEF Waiting, Connected
    <3>2. ASSUME ~TimeCanPass PROVE \E r \in Calls : CanGoOn(r)
      <4>1. CASE \E r \in Waiting : ~(left[r] > 0)
        <5>1. PICK r \in Waiting : ~(left[r] > 0)
          BY <4>1
        <5>2. r \in Calls /\ pc[r] \in Connected /\ left[r] = 0
          BY <2>1, <5>1, TimeoutAssumption DEF Waiting
        <5>3. CanGoOn(r)
          BY <5>2 DEF CanGoOn, IOError, Connected
        <5>4. QED
          BY <5>2, <5>3
      <4>2. CASE \E r \in Calls : pc[r] \in {"dial", "arm"}
        BY <4>2 DEF CanGoOn
      <4>3. QED
        BY <3>2, <4>1, <4>2 DEF TimeCanPass
    <3>3. QED
      BY <3>1, <3>2 DEF Goes
  <2>5. QED
    BY <1>1, <2>1, <2>2, <2>3, <2>4 DEF PCs
<1>2. Answers => \A q \in Calls : pc[q] \notin {"idle", "returned"} => Goes(q)
  BY <1>1
<1>3. QED
  BY <1>2, Invariance, PTL

\* Every statement of a call and every tick that it waits for lowers a natural
\* number, and nothing that anybody else does raises it: no call goes on for ever.
\* (The read loop of executeCmd: a daemon that trickles its answer runs out of
\* bytes or the call of time.)
THEOREM CallsEnd ==
  ASSUME NEW q \in Calls
  PROVE  Spec => /\ [](ToCome(q) \in Nat)
                 /\ [][/\ ToCome(q)' <= ToCome(q)
                       /\ Own(q) => ToCome(q)' < ToCome(q)]_vars
<1>1. Answers => ToCome(q) \in Nat
  <2>1. SUFFICES ASSUME Answers PROVE ToCome(q) \in Nat
    OBVIOUS
  <2>2. Statements[pc[q]] \in Nat /\ Ticks(q) \in Nat /\ Bytes(q) \in Nat
    BY <2>1, Numbers DEF Answers
  <2>3. QED
    BY <2>2, Sums, Zenon DEF ToCome
<1>2. Answers /\ Answers' /\ [Next]_vars =>
        [/\ ToCome(q)' <= ToCome(q)
         /\ Own(q) => ToCome(q)' < ToCome(q)]_vars
  <2>1. SUFFICES ASSUME Answers, Answers', [Next]_vars
                 PROVE  /\ ToCome(q)' <= ToCome(q)
                        /\ Own(q) => ToCome(q)' < ToCome(q)
    OBVIOUS
  <2>2. Types'
    BY <2>1 DEF Answers
  <2>3. QED
    BY <2>1, <2>2, NextKeeps, OwnNearer
<1>3. QED
  BY <1>1, <1>2, Invariance, PTL DEF Spec
=============================================================================
