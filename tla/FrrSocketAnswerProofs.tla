----------------------- MODULE FrrSocketAnswerProofs -----------------------
(***************************************************************************)
(* Proofs about what executeCmd reads, for any finite set of calls, any    *)
(* answers, any buffer and any timeout above zero: an answer is returned   *)
(* whole or with an error, and the bytes of one call never mix with those  *)
(* of another.                                                             *)
(*                                                                         *)
(* While a call reads, its response, its socket and what the daemon still  *)
(* has to write are three adjacent slices of the answer: the invariant     *)
(* says where the cuts are.                                                *)
(***************************************************************************)
EXTENDS FrrSocket, SequenceTheorems, FiniteSetTheorems, TLAPS

\* The answer to q as it comes over the socket, and its length.
Wire(q) == Append(Payload[q], NUL)
WireLen(q) == Len(Payload[q]) + 1

\* The daemon's side of the connection, by where the call is.
Stage(q) ==
  /\ pc[q] \in {"idle", "dial"} => conn[q] = "none"
  /\ pc[q] \in {"arm", "wEnable", "wCmd"} => conn[q] \in {"open", "gone"}
  /\ pc[q] = "rEnable" => conn[q] \in {"enable", "open", "gone"}
  /\ pc[q] = "rCmd" => conn[q] \in {"cmd", "busy", "open", "gone"}

\* Nothing was read or written of the answer before the command arrived.
Before(q) ==
  /\ pc[q] \notin {"rCmd", "returned"} \/ (pc[q] = "rCmd" /\ conn[q] = "cmd") =>
       response[q] = <<>> /\ todo[q] = <<>>
  /\ pc[q] \in {"idle", "dial", "arm", "wEnable", "wCmd"} => inbox[q] = <<>>
  /\ pc[q] = "rEnable" /\ conn[q] = "enable" => inbox[q] = <<>>
  /\ pc[q] = "rCmd" /\ conn[q] = "cmd" => inbox[q] = <<>>

\* The response up to m, the socket up to k, the daemon up to j.
Cuts(q, m, k, j) ==
  /\ m <= Len(Payload[q]) /\ m <= k /\ k <= j /\ j <= WireLen(q)
  /\ response[q] = SubSeq(Wire(q), 1, m)
  /\ inbox[q] = SubSeq(Wire(q), m + 1, k)
  /\ todo[q] = SubSeq(Wire(q), k + 1, j)
  /\ conn[q] # "gone" => j = WireLen(q)
  /\ conn[q] # "busy" => k = j
Reading(q) ==
  pc[q] = "rCmd" /\ conn[q] # "cmd" => \E m, k, j \in Nat : Cuts(q, m, k, j)

\* What a call has returned.
Front(q, m) == m \in 0 .. Len(Payload[q]) /\ response[q] = SubSeq(Payload[q], 1, m)
Outcome(q) ==
  /\ ok[q] => pc[q] = "returned" /\ response[q] = Payload[q]
  /\ pc[q] = "returned" => \E m \in Nat : Front(q, m)

Types ==
  /\ pc \in [Calls -> PCs]
  /\ left \in [Calls -> 0 .. Timeout]
  /\ elapsed \in [Calls -> Nat]
  /\ spent \in 0 .. Cost /\ steady \in BOOLEAN
  /\ response \in [Calls -> Seq(Nat)]
  /\ ok \in [Calls -> BOOLEAN]
  /\ open \subseteq Calls
  /\ conn \in [Calls -> Conns]
  /\ inbox \in [Calls -> Seq(Nat)]
  /\ todo \in [Calls -> Seq(Nat)]

AnswerInv(q) == Stage(q) /\ Before(q) /\ Reading(q) /\ Outcome(q)
Answers == Types /\ \A q \in Calls : AnswerInv(q)

-----------------------------------------------------------------------------
(* Slices of a text p that ends with the only NUL there is.                *)

\* The bytes of the answer: NUL is the last one and no other.
LEMMA WireBytes ==
  ASSUME NEW p \in Seq(Nat \ {NUL})
  PROVE  /\ Len(p) \in Nat
         /\ Append(p, NUL) \in Seq(Nat) /\ Len(Append(p, NUL)) = Len(p) + 1
         /\ \A i \in 1 .. Len(p) + 1 :
              Append(p, NUL)[i] \in Nat /\ (Append(p, NUL)[i] = NUL <=> i = Len(p) + 1)
<1>1. p \in Seq(Nat) /\ NUL \in Nat /\ Len(p) \in Nat
  <2>1. NUL \in Nat
    BY DEF NUL
  <2>2. Len(p) \in Nat /\ \A i \in 1 .. Len(p) : p[i] \in Nat
    BY LenProperties, ElementOfSeq
  <2>3. p \in Seq(Nat)
    BY <2>2
  <2>4. QED
    BY <2>1, <2>2, <2>3
<1>2. /\ Append(p, NUL) \in Seq(Nat) /\ Len(Append(p, NUL)) = Len(p) + 1
      /\ \A i \in 1 .. Len(p) : Append(p, NUL)[i] = p[i]
      /\ Append(p, NUL)[Len(p) + 1] = NUL
  BY <1>1, AppendProperties
<1>3. \A i \in 1 .. Len(p) : p[i] \in Nat \ {NUL}
  BY ElementOfSeq
<1>4. QED
  BY <1>1, <1>2, <1>3 DEF NUL

\* A slice, its front of n bytes, and what is left when they are taken.
LEMMA Slices ==
  ASSUME NEW w \in Seq(Nat), NEW a \in 0 .. Len(w), NEW b \in a .. Len(w)
  PROVE  LET s == SubSeq(w, a + 1, b) IN
         /\ s \in Seq(Nat) /\ Len(s) = b - a
         /\ \A n \in 1 .. b - a :
              /\ SubSeq(s, 1, n) = SubSeq(w, a + 1, a + n)
              /\ Len(SubSeq(s, 1, n)) = n
              /\ SubSeq(s, 1, n)[n] = w[a + n]
              /\ SubSeq(s, n + 1, Len(s)) = SubSeq(w, a + n + 1, b)
<1> DEFINE s == SubSeq(w, a + 1, b)
<1>1. /\ Len(w) \in Nat /\ a \in Nat /\ b \in Nat /\ a <= b /\ b <= Len(w)
      /\ \A i \in 1 .. Len(w) : w[i] \in Nat
  BY LenProperties, ElementOfSeq
<1>2. \A c \in 0 .. Len(w) : \A d \in c .. Len(w) :
        /\ SubSeq(w, c + 1, d) \in Seq(Nat) /\ Len(SubSeq(w, c + 1, d)) = d - c
        /\ \A i \in 1 .. d - c : SubSeq(w, c + 1, d)[i] = w[c + i]
  <2> TAKE c \in 0 .. Len(w)
  <2> TAKE d \in c .. Len(w)
  <2>1. c + 1 \in Int /\ d \in Int /\ \A i \in c + 1 .. d : w[i] \in Nat
    BY <1>1
  <2>2. /\ SubSeq(w, c + 1, d) \in Seq(Nat)
        /\ Len(SubSeq(w, c + 1, d)) = IF c + 1 <= d THEN d - (c + 1) + 1 ELSE 0
        /\ \A i \in 1 .. d - (c + 1) + 1 : SubSeq(w, c + 1, d)[i] = w[(c + 1) + i - 1]
    BY <2>1, SubSeqProperties
  <2>3. QED
    BY <1>1, <2>2
<1>3. s \in Seq(Nat) /\ Len(s) = b - a /\ \A i \in 1 .. b - a : s[i] = w[a + i]
  BY <1>2
<1>4. ASSUME NEW n \in 1 .. b - a
      PROVE  /\ SubSeq(s, 1, n) = SubSeq(w, a + 1, a + n)
             /\ Len(SubSeq(s, 1, n)) = n
             /\ SubSeq(s, 1, n)[n] = w[a + n]
             /\ SubSeq(s, n + 1, Len(s)) = SubSeq(w, a + n + 1, b)
  <2> HIDE DEF s
  <2>1. /\ SubSeq(s, 1, n) \in Seq(Nat) /\ Len(SubSeq(s, 1, n)) = n
        /\ \A i \in 1 .. n : SubSeq(s, 1, n)[i] = w[a + i]
    <3>1. 1 \in Int /\ n \in Int /\ \A i \in 1 .. n : s[i] \in Nat
      BY <1>1, <1>3
    <3>2. /\ SubSeq(s, 1, n) \in Seq(Nat)
          /\ Len(SubSeq(s, 1, n)) = IF 1 <= n THEN n - 1 + 1 ELSE 0
          /\ \A i \in 1 .. n - 1 + 1 : SubSeq(s, 1, n)[i] = s[1 + i - 1]
      BY <3>1, SubSeqProperties
    <3>3. QED
      BY <1>1, <1>3, <3>2
  <2>2. /\ SubSeq(s, n + 1, Len(s)) \in Seq(Nat) /\ Len(SubSeq(s, n + 1, Len(s))) = b - a - n
        /\ \A i \in 1 .. b - a - n : SubSeq(s, n + 1, Len(s))[i] = w[a + n + i]
    <3>1. n \in Nat /\ Len(s) \in Nat /\ n <= Len(s) /\ Len(s) = b - a
      BY <1>1, <1>3
    <3>2. n + 1 \in Int /\ Len(s) \in Int /\ \A i \in n + 1 .. Len(s) : s[i] \in Nat
      <4>1. ASSUME NEW i \in n + 1 .. Len(s) PROVE s[i] \in Nat
        <5>1. i \in 1 .. b - a /\ a + i \in 1 .. Len(w)
          BY <1>1, <3>1
        <5>2. QED
          BY <1>1, <1>3, <5>1
      <4>2. QED
        BY <3>1, <4>1
    <3>3. /\ SubSeq(s, n + 1, Len(s)) \in Seq(Nat)
          /\ Len(SubSeq(s, n + 1, Len(s))) = IF n + 1 <= Len(s) THEN Len(s) - (n + 1) + 1 ELSE 0
          /\ \A i \in 1 .. Len(s) - (n + 1) + 1 : SubSeq(s, n + 1, Len(s))[i] = s[(n + 1) + i - 1]
      <4>1. PICK c \in Int, d \in Int : c = n + 1 /\ d = Len(s)
        BY <3>2
      <4>2. \A i \in c .. d : s[i] \in Nat
        BY <3>2, <4>1
      <4>3. /\ SubSeq(s, c, d) \in Seq(Nat)
            /\ Len(SubSeq(s, c, d)) = IF c <= d THEN d - c + 1 ELSE 0
            /\ \A i \in 1 .. d - c + 1 : SubSeq(s, c, d)[i] = s[c + i - 1]
        BY <4>2, SubSeqProperties
      <4>4. QED
        BY <4>1, <4>3
    <3>4. Len(SubSeq(s, n + 1, Len(s))) = b - a - n
      BY <1>1, <3>1, <3>3
    <3>5. ASSUME NEW i \in 1 .. b - a - n PROVE SubSeq(s, n + 1, Len(s))[i] = w[a + n + i]
      <4>1. /\ i \in 1 .. Len(s) - (n + 1) + 1 /\ (n + 1) + i - 1 = n + i
            /\ n + i \in 1 .. b - a /\ a + (n + i) = a + n + i
        BY <1>1, <3>1
      <4>2. QED
        BY <1>3, <3>3, <4>1
    <3>6. QED
      BY <3>3, <3>4, <3>5
  <2>3. /\ SubSeq(w, a + 1, a + n) \in Seq(Nat) /\ Len(SubSeq(w, a + 1, a + n)) = n
        /\ \A i \in 1 .. n : SubSeq(w, a + 1, a + n)[i] = w[a + i]
    <3>1. a + n \in a .. Len(w) /\ a + n - a = n
      BY <1>1
    <3>2. QED
      BY <1>2, <3>1
  <2>4. /\ SubSeq(w, a + n + 1, b) \in Seq(Nat) /\ Len(SubSeq(w, a + n + 1, b)) = b - a - n
        /\ \A i \in 1 .. b - a - n : SubSeq(w, a + n + 1, b)[i] = w[a + n + i]
    <3>1. a + n \in 0 .. Len(w) /\ b \in a + n .. Len(w) /\ b - (a + n) = b - a - n
      BY <1>1
    <3>2. QED
      BY <1>2, <3>1
  <2>5. SubSeq(s, 1, n) = SubSeq(w, a + 1, a + n)
    BY <2>1, <2>3, SeqEqual
  <2>6. SubSeq(s, n + 1, Len(s)) = SubSeq(w, a + n + 1, b)
    BY <2>2, <2>4, SeqEqual
  <2>7. n \in 1 .. n
    BY <1>1
  <2>8. QED
    BY <2>1, <2>5, <2>6, <2>7
<1>5. QED
  BY <1>3, <1>4

\* The same for the slice that a variable holds.
LEMMA TakeFromSlice ==
  ASSUME NEW w \in Seq(Nat), NEW a \in Nat, NEW b \in Nat, a <= b, b <= Len(w),
         NEW s, s = SubSeq(w, a + 1, b), NEW n \in 1 .. Len(s)
  PROVE  /\ n \in Nat /\ n > 0 /\ Len(s) = b - a /\ a + n <= b
         /\ SubSeq(s, 1, n) = SubSeq(w, a + 1, a + n)
         /\ Len(SubSeq(s, 1, n)) = n
         /\ SubSeq(s, 1, n)[n] = w[a + n]
         /\ SubSeq(s, n + 1, Len(s)) = SubSeq(w, a + n + 1, b)
<1>1. Len(w) \in Nat
  BY LenProperties
<1>2. a \in 0 .. Len(w) /\ b \in a .. Len(w)
  BY <1>1
<1>3. Len(s) = b - a
  BY <1>2, Slices
<1>4. n \in 1 .. b - a /\ n \in Nat /\ n > 0 /\ a + n <= b
  BY <1>3
<1>5. QED
  BY <1>2, <1>3, <1>4, Slices

\* Two adjacent slices are one.
LEMMA Adjacent ==
  ASSUME NEW w \in Seq(Nat), NEW a \in Nat, NEW b \in Nat, NEW c \in Nat,
         a <= b, b <= c, c <= Len(w)
  PROVE  SubSeq(w, a + 1, b) \o SubSeq(w, b + 1, c) = SubSeq(w, a + 1, c)
<1>1. Len(w) \in Nat
  BY LenProperties
<1>2. a + 1 \in 1 .. Len(w) + 1 /\ b \in (a + 1) - 1 .. Len(w) /\ c \in b .. Len(w)
  BY <1>1
<1>3. QED
  BY <1>2, ConcatAdjacentSubSeq

\* r and s are adjacent slices of w, cut at a, m and k; and what becomes of them
\* when the first n of s go over to r.
Adjoin(w, a, m, k, r, s) ==
  /\ a <= m /\ m <= k /\ k <= Len(w)
  /\ r = SubSeq(w, a + 1, m) /\ s = SubSeq(w, m + 1, k)
Moved(w, a, m, k, r, s, n) ==
  /\ n \in Nat /\ m + n \in Nat /\ m + n > 0 /\ m <= m + n /\ m + n <= k
  /\ n = Len(s) <=> m + n = k
  /\ Len(SubSeq(s, 1, n)) = n /\ SubSeq(s, 1, n)[n] = w[m + n]
  /\ r \o SubSeq(s, 1, n) = SubSeq(w, a + 1, m + n)
  /\ SubSeq(s, n + 1, Len(s)) = SubSeq(w, m + n + 1, k)
LEMMA Move ==
  ASSUME NEW w \in Seq(Nat), NEW a \in Nat, NEW m \in Nat, NEW k \in Nat,
         NEW r, NEW s, Adjoin(w, a, m, k, r, s), NEW n \in 1 .. Len(s)
  PROVE  Moved(w, a, m, k, r, s, n)
<1> USE DEF Adjoin
<1>1. /\ n \in Nat /\ n > 0 /\ Len(s) = k - m /\ m + n <= k
      /\ SubSeq(s, 1, n) = SubSeq(w, m + 1, m + n)
      /\ Len(SubSeq(s, 1, n)) = n
      /\ SubSeq(s, 1, n)[n] = w[m + n]
      /\ SubSeq(s, n + 1, Len(s)) = SubSeq(w, m + n + 1, k)
  BY TakeFromSlice
<1>2. Len(w) \in Nat
  BY LenProperties
<1>3. /\ m + n \in Nat /\ m + n > 0 /\ m <= m + n /\ m + n <= Len(w)
      /\ n = k - m <=> m + n = k
  BY <1>1, <1>2
<1>4. SubSeq(w, a + 1, m) \o SubSeq(w, m + 1, m + n) = SubSeq(w, a + 1, m + n)
  BY <1>3, Adjacent
<1>5. QED
  BY <1>1, <1>3, <1>4 DEF Moved

\* The front of the answer, up to its NUL, is that of the text.
LEMMA Fronts ==
  ASSUME NEW p \in Seq(Nat \ {NUL}), NEW m \in 0 .. Len(p)
  PROVE  /\ SubSeq(Append(p, NUL), 1, m) = SubSeq(p, 1, m)
         /\ SubSeq(p, 1, m) \in Seq(Nat \ {NUL})
<1>1. /\ Len(p) \in Nat /\ \A i \in 1 .. Len(p) : p[i] \in Nat \ {NUL}
      /\ \A i \in 1 .. Len(p) : Append(p, NUL)[i] = p[i]
  <2>1. \A i \in 1 .. Len(p) : Append(p, NUL)[i] = p[i]
    OBVIOUS
  <2>2. QED
    BY <2>1, LenProperties, ElementOfSeq
<1>2. /\ SubSeq(p, 1, m) \in Seq(Nat \ {NUL})
      /\ Len(SubSeq(p, 1, m)) = IF 1 <= m THEN m - 1 + 1 ELSE 0
      /\ \A i \in 1 .. m - 1 + 1 : SubSeq(p, 1, m)[i] = p[1 + i - 1]
  <2>1. m \in Int /\ \A i \in 1 .. m : p[i] \in Nat \ {NUL}
    BY <1>1
  <2>2. QED
    BY <2>1, SubSeqProperties
<1>3. /\ SubSeq(Append(p, NUL), 1, m) \in Seq(Nat \ {NUL})
      /\ Len(SubSeq(Append(p, NUL), 1, m)) = IF 1 <= m THEN m - 1 + 1 ELSE 0
      /\ \A i \in 1 .. m - 1 + 1 : SubSeq(Append(p, NUL), 1, m)[i] = Append(p, NUL)[1 + i - 1]
  <2>1. m \in Int /\ \A i \in 1 .. m : Append(p, NUL)[i] \in Nat \ {NUL}
    BY <1>1
  <2>2. QED
    BY <2>1, SubSeqProperties
<1>4. \A i \in 1 .. Len(SubSeq(p, 1, m)) : SubSeq(Append(p, NUL), 1, m)[i] = SubSeq(p, 1, m)[i]
  BY <1>1, <1>2, <1>3
<1>5. QED
  BY <1>2, <1>3, <1>4, SeqEqual

\* bytes.TrimRight takes the NUL that ends an answer, and nothing else.
LEMMA TrimsTheNul ==
  ASSUME NEW p \in Seq(Nat \ {NUL})
  PROVE  TrimRight(Append(p, NUL)) = p
<1> DEFINE w == Append(p, NUL)
<1>1. /\ Len(p) \in Nat /\ Len(w) = Len(p) + 1
      /\ \A i \in 1 .. Len(p) + 1 : w[i] = NUL <=> i = Len(p) + 1
  BY WireBytes
<1> HIDE DEF w
<1>2. TrailingNuls(w) = {Len(w)}
  <2>1. ASSUME NEW i \in 1 .. Len(w), \A j \in i .. Len(w) : w[j] = NUL PROVE i = Len(w)
    BY <1>1, <2>1
  <2>2. \A j \in Len(w) .. Len(w) : w[j] = NUL
    BY <1>1
  <2>3. Len(w) \in 1 .. Len(w)
    BY <1>1
  <2>4. QED
    BY <2>1, <2>2, <2>3 DEF TrailingNuls
<1>3. Cardinality(TrailingNuls(w)) = 1
  BY <1>2, FS_Singleton
<1>4. TrimRight(w) = SubSeq(w, 1, Len(p))
  BY <1>1, <1>3 DEF TrimRight
<1>5. SubSeq(w, 1, Len(p)) = SubSeq(p, 1, Len(p))
  BY <1>1, Fronts DEF w
<1>6. SubSeq(p, 1, Len(p)) = p
  BY SubSeqFull
<1>7. QED
  BY <1>4, <1>5, <1>6 DEF w

\* Pieces of a sequence of bytes.
LEMMA Pieces ==
  ASSUME NEW s \in Seq(Nat), NEW n \in 1 .. Len(s)
  PROVE  SubSeq(s, 1, n) \in Seq(Nat) /\ SubSeq(s, n + 1, Len(s)) \in Seq(Nat)
<1>1. Len(s) \in Nat /\ \A i \in 1 .. Len(s) : s[i] \in Nat
  BY LenProperties, ElementOfSeq
<1>2. /\ 1 \in Int /\ n \in Int /\ n + 1 \in Int /\ Len(s) \in Int
      /\ \A i \in 1 .. n : s[i] \in Nat
      /\ \A i \in n + 1 .. Len(s) : s[i] \in Nat
  BY <1>1
<1>3. QED
  BY <1>2, SubSeqProperties

-----------------------------------------------------------------------------
(* One step of one call, or of the daemon for it.                          *)

\* A step leaves everything about the call r alone.
Untouched(r) ==
  /\ pc'[r] = pc[r] /\ response'[r] = response[r] /\ ok'[r] = ok[r]
  /\ conn'[r] = conn[r] /\ inbox'[r] = inbox[r] /\ todo'[r] = todo[r]

LEMMA Frame ==
  ASSUME NEW r \in Calls, AnswerInv(r), Untouched(r)
  PROVE  AnswerInv(r)'
<1>1. Stage(r)' /\ Before(r)'
  BY DEF AnswerInv, Stage, Before, Untouched
<1>2. Outcome(r)'
  BY DEF AnswerInv, Outcome, Front, Untouched
<1>3. \A m, k, j \in Nat : Cuts(r, m, k, j) => Cuts(r, m, k, j)'
  BY DEF Cuts, Wire, WireLen, Untouched
<1>4. Reading(r)'
  BY <1>3 DEF AnswerInv, Reading, Untouched
<1>5. QED
  BY <1>1, <1>2, <1>4 DEF AnswerInv

LEMMA Step ==
  ASSUME Answers, NEW q \in Calls, Types', \A r \in Calls \ {q} : Untouched(r), AnswerInv(q)'
  PROVE  Answers'
BY Frame DEF Answers

\* What is known of one call, its answer and the length of that.
LEMMA OneCall ==
  ASSUME Answers, NEW q \in Calls
  PROVE  /\ Types /\ AnswerInv(q)
         /\ pc[q] \in PCs /\ conn[q] \in Conns /\ ok[q] \in BOOLEAN
         /\ response[q] \in Seq(Nat) /\ inbox[q] \in Seq(Nat) /\ todo[q] \in Seq(Nat)
         /\ Payload[q] \in Seq(Nat \ {NUL}) /\ Len(Payload[q]) \in Nat
         /\ Wire(q) \in Seq(Nat) /\ Len(Wire(q)) = WireLen(q) /\ WireLen(q) \in Nat
         /\ <<>> \in Seq(Nat)
<1>1. Payload[q] \in Seq(Nat \ {NUL})
  BY PayloadAssumption
<1>2. Types /\ AnswerInv(q)
  BY DEF Answers
<1>3. /\ Len(Payload[q]) \in Nat /\ Wire(q) \in Seq(Nat) /\ Len(Wire(q)) = WireLen(q)
  BY <1>1, WireBytes DEF Wire, WireLen
<1>4. QED
  BY <1>1, <1>2, <1>3, EmptySeq DEF Types, WireLen

\* Initially no call was made.
LEMMA InitAnswers == Init => Answers
<1> SUFFICES ASSUME Init PROVE Answers
  OBVIOUS
<1>1. Types
  <2>1. <<>> \in Seq(Nat)
    BY EmptySeq
  <2>2. QED
    BY <2>1, TimeoutAssumption, CostAssumption DEF Init, Types, PCs, Conns
<1>2. ASSUME NEW q \in Calls PROVE AnswerInv(q)
  BY DEF Init, AnswerInv, Stage, Before, Reading, Outcome
<1>3. QED
  BY <1>1, <1>2 DEF Answers

\* What a call has read when it returns with an error is the front of its
\* answer: nothing before the command was sent.
LEMMA ErrStep ==
  ASSUME Answers, NEW q \in Calls, pc[q] \notin {"idle", "returned"}, ReturnErr(q),
         UNCHANGED <<timeVars, daemonVars>>
  PROVE  Answers'
<1> USE DEF timeVars, daemonVars
<1>1. /\ pc' = [pc EXCEPT ![q] = "returned"] /\ open' = open \ {q}
      /\ UNCHANGED <<response, ok, left, elapsed, spent, steady, conn, inbox, todo>>
  BY DEF ReturnErr, Goto, Close
<1>2. /\ Types /\ AnswerInv(q) /\ pc'[q] = "returned"
      /\ Payload[q] \in Seq(Nat \ {NUL}) /\ Len(Payload[q]) \in Nat
  BY <1>1, OneCall DEF Types
<1>3. Types'
  BY <1>1, <1>2 DEF Types, PCs
<1>4. \A r \in Calls \ {q} : Untouched(r)
  BY <1>1, <1>2 DEF Types, Untouched
<1>5. \E m \in Nat : Front(q, m)
  <2>1. CASE pc[q] = "rCmd" /\ conn[q] # "cmd"
    <3>1. PICK m \in Nat : m <= Len(Payload[q]) /\ response[q] = SubSeq(Wire(q), 1, m)
      BY <1>2, <2>1 DEF AnswerInv, Reading, Cuts
    <3>2. Front(q, m)
      BY <1>2, <3>1, Fronts DEF Front, Wire
    <3>3. QED
      BY <3>2
  <2>2. CASE ~(pc[q] = "rCmd" /\ conn[q] # "cmd")
    <3>1. response[q] = <<>>
      BY <1>2, <2>2 DEF AnswerInv, Before
    <3>2. SubSeq(Payload[q], 1, 0) = <<>>
      BY SubSeqEmpty
    <3>3. Front(q, 0)
      BY <1>2, <3>1, <3>2 DEF Front
    <3>4. QED
      BY <3>3
  <2>3. QED
    BY <2>1, <2>2
<1>6. \E m \in Nat : Front(q, m)'
  BY <1>1, <1>5 DEF Front
<1>7. ok'[q] = ok[q] /\ ~ok[q]
  BY <1>1, <1>2 DEF AnswerInv, Outcome
<1>8. AnswerInv(q)'
  BY <1>2, <1>6, <1>7 DEF AnswerInv, Stage, Before, Reading, Outcome
<1>9. QED
  BY <1>3, <1>4, <1>8, Step

\* From the call to the command, when nothing fails.
LEMMA OpeningAnswers ==
  ASSUME Answers, NEW q \in Calls, NEW l \in PCs \ {"idle", "returned"}, NEW c \in Conns,
         Goto(q, l), conn' = [conn EXCEPT ![q] = c],
         UNCHANGED <<response, ok, todo>>,
         inbox' = [inbox EXCEPT ![q] = <<>>] \/ (inbox' = inbox /\ inbox[q] = <<>>),
         left' \in [Calls -> 0 .. Timeout], UNCHANGED <<elapsed, spent, steady>>,
         open' \subseteq Calls,
         \/ pc[q] = "idle" /\ l = "dial" /\ c = conn[q]
         \/ pc[q] = "dial" /\ l = "arm" /\ c = "open"
         \/ pc[q] = "arm" /\ l = "wEnable" /\ c = conn[q]
         \/ pc[q] = "wEnable" /\ l = "rEnable" /\ c = "enable"
         \/ pc[q] = "rEnable" /\ l = "wCmd" /\ c = conn[q] /\ c # "enable"
         \/ pc[q] = "wCmd" /\ l = "rCmd" /\ c = "cmd"
  PROVE  Answers'
<1>1. /\ Types /\ AnswerInv(q) /\ <<>> \in Seq(Nat)
  BY OneCall
<1>2. pc' = [pc EXCEPT ![q] = l] /\ pc'[q] = l /\ conn'[q] = c /\ inbox'[q] = <<>>
  BY <1>1 DEF Goto, Types
<1>3. Types'
  BY <1>1, <1>2 DEF Types
<1>4. \A r \in Calls \ {q} : Untouched(r)
  BY <1>1, <1>2 DEF Types, Untouched
<1>5. response'[q] = <<>> /\ todo'[q] = <<>> /\ ok'[q] = ok[q] /\ ~ok[q]
  BY <1>1 DEF AnswerInv, Before, Outcome
<1>6. Stage(q)'
  BY <1>1, <1>2 DEF AnswerInv, Stage, Conns
<1>7. Before(q)' /\ Reading(q)' /\ Outcome(q)'
  BY <1>2, <1>5 DEF Before, Reading, Outcome
<1>8. QED
  BY <1>3, <1>4, <1>6, <1>7, Step DEF AnswerInv

\* One turn of the read loop: the cut between response and socket moves.  The
\* chunk ends in NUL exactly if it is the last of the answer.
LEMMA ReadAnswers ==
  ASSUME Answers, NEW q \in Calls, ReadCmd(q),
         ~(ReturnErr(q) /\ UNCHANGED <<timeVars, daemonVars>>)
  PROVE  Answers'
<1>1. PICK n \in Chunks(q) :
        /\ inbox' = [inbox EXCEPT ![q] = SubSeq(@, n + 1, Len(@))]
        /\ IF EndsResponse(Taken(q, n))
             THEN /\ response' = [response EXCEPT ![q] = TrimRight(BufferWritten(@, Taken(q, n)))]
                  /\ ok' = [ok EXCEPT ![q] = TRUE]
                  /\ Goto(q, "returned") /\ Close(q)
             ELSE /\ response' = [response EXCEPT ![q] = BufferWritten(@, Taken(q, n))]
                  /\ UNCHANGED <<pc, ok, open>>
  BY DEF ReadCmd, Take, daemonVars
<1>2. /\ pc[q] = "rCmd" /\ UNCHANGED <<left, elapsed, spent, steady, conn, todo>>
      /\ n \in 1 .. Len(inbox[q])
  <2>1. n \in 1 .. Len(inbox[q])
    BY DEF Chunks
  <2>2. pc[q] = "rCmd" /\ UNCHANGED timeVars /\ UNCHANGED <<conn, todo>>
    BY DEF ReadCmd, DeadlineAbsolute
  <2>3. QED
    BY <2>1, <2>2 DEF timeVars
<1>3. /\ Types /\ AnswerInv(q)
      /\ Payload[q] \in Seq(Nat \ {NUL}) /\ Len(Payload[q]) \in Nat
      /\ Wire(q) \in Seq(Nat) /\ Len(Wire(q)) = WireLen(q) /\ WireLen(q) \in Nat
      /\ WireLen(q) = Len(Payload[q]) + 1
      /\ inbox[q] \in Seq(Nat)
  BY OneCall DEF WireLen
<1>4. conn[q] # "cmd"
  <2>1. Len(<<>>) = 0
    OBVIOUS
  <2>2. inbox[q] # <<>>
    BY <1>2, <2>1
  <2>3. QED
    BY <1>2, <1>3, <2>2 DEF AnswerInv, Before
<1>5. PICK m, k, j \in Nat : Cuts(q, m, k, j)
  BY <1>2, <1>3, <1>4 DEF AnswerInv, Reading
<1>6. /\ m <= Len(Payload[q]) /\ m <= k /\ k <= j /\ j <= WireLen(q)
      /\ m <= Len(Wire(q)) /\ k <= Len(Wire(q))
      /\ response[q] = SubSeq(Wire(q), 1, m) /\ inbox[q] = SubSeq(Wire(q), m + 1, k)
  <2>1. /\ m <= Len(Payload[q]) /\ m <= k /\ k <= j /\ j <= WireLen(q)
        /\ response[q] = SubSeq(Wire(q), 1, m) /\ inbox[q] = SubSeq(Wire(q), m + 1, k)
    BY <1>5 DEF Cuts
  <2>2. m <= WireLen(q) /\ k <= WireLen(q)
    BY <1>3, <2>1
  <2>3. QED
    BY <1>3, <2>1, <2>2
<1>7. /\ n \in Nat /\ m + n \in Nat /\ m + n > 0 /\ m + n <= k
      /\ Len(Taken(q, n)) = n /\ Taken(q, n)[n] = Wire(q)[m + n]
      /\ response[q] \o Taken(q, n) = SubSeq(Wire(q), 1, m + n)
      /\ SubSeq(inbox[q], n + 1, Len(inbox[q])) = SubSeq(Wire(q), m + n + 1, k)
  <2>1. PICK w \in Seq(Nat) : w = Wire(q)
    BY <1>3
  <2>2. PICK a \in Nat : a = 0
    OBVIOUS
  <2>3. PICK s : s = inbox[q]
    OBVIOUS
  <2>4. PICK r : r = response[q]
    OBVIOUS
  <2>5. a + 1 = 1
    BY <2>2
  <2>6. Adjoin(w, a, m, k, r, s)
    BY <1>6, <2>1, <2>2, <2>3, <2>4, <2>5 DEF Adjoin
  <2>7. n \in 1 .. Len(s)
    BY <1>2, <2>3
  <2>8. Moved(w, a, m, k, r, s, n)
    BY <2>6, <2>7, Move
  <2>9. QED
    BY <2>1, <2>3, <2>4, <2>5, <2>8 DEF Taken, Moved
<1>8. m + n <= WireLen(q)
  BY <1>3, <1>6, <1>7
<1>9. BufferWritten(response[q], Taken(q, n)) = SubSeq(Wire(q), 1, m + n)
  BY <1>7 DEF BufferWritten
<1>10. EndsResponse(Taken(q, n)) <=> m + n = WireLen(q)
  <2>1. Wire(q)[m + n] = NUL <=> m + n = Len(Payload[q]) + 1
    <3>1. m + n \in 1 .. Len(Payload[q]) + 1
      BY <1>3, <1>7, <1>8
    <3>2. QED
      BY <1>3, <3>1, WireBytes DEF Wire
  <2>2. QED
    BY <1>7, <2>1 DEF EndsResponse, WireLen
<1>11. /\ inbox' = [inbox EXCEPT ![q] = inbox'[q]] /\ inbox'[q] \in Seq(Nat)
       /\ inbox'[q] = SubSeq(Wire(q), m + n + 1, k)
  <2>1. inbox' = [inbox EXCEPT ![q] = inbox'[q]] /\ inbox'[q] = SubSeq(inbox[q], n + 1, Len(inbox[q]))
    BY <1>1, <1>3 DEF Types
  <2>2. SubSeq(inbox[q], n + 1, Len(inbox[q])) \in Seq(Nat)
    BY <1>2, <1>3, Pieces
  <2>3. QED
    BY <1>7, <2>1, <2>2
<1>12. CASE m + n = WireLen(q)
  <2>1. /\ response' = [response EXCEPT ![q] = TrimRight(SubSeq(Wire(q), 1, m + n))]
        /\ ok' = [ok EXCEPT ![q] = TRUE]
        /\ pc' = [pc EXCEPT ![q] = "returned"] /\ open' = open \ {q}
    BY <1>1, <1>9, <1>10, <1>12 DEF Goto, Close
  <2>2. TrimRight(SubSeq(Wire(q), 1, m + n)) = Payload[q]
    <3>1. SubSeq(Wire(q), 1, m + n) = Wire(q)
      BY <1>3, <1>12, SubSeqFull
    <3>2. QED
      BY <1>3, <3>1, TrimsTheNul DEF Wire
  <2>3. Payload[q] \in Seq(Nat)
    BY <1>3, ElementOfSeq
  <2>4. Types'
    BY <1>2, <1>3, <1>11, <2>1, <2>2, <2>3 DEF Types, PCs
  <2>5. \A r \in Calls \ {q} : Untouched(r)
    BY <1>2, <1>3, <1>11, <2>1 DEF Types, Untouched
  <2>6. pc'[q] = "returned" /\ response'[q] = Payload[q]
    BY <1>3, <2>1, <2>2 DEF Types
  <2>7. Front(q, Len(Payload[q]))'
    <3>1. SubSeq(Payload[q], 1, Len(Payload[q])) = Payload[q]
      BY <1>3, SubSeqFull
    <3>2. QED
      BY <1>3, <2>6, <3>1 DEF Front
  <2>8. AnswerInv(q)'
    BY <1>3, <2>6, <2>7 DEF AnswerInv, Stage, Before, Reading, Outcome
  <2>9. QED
    BY <2>4, <2>5, <2>8, Step
<1>13. CASE m + n # WireLen(q)
  <2>1. /\ response' = [response EXCEPT ![q] = SubSeq(Wire(q), 1, m + n)]
        /\ UNCHANGED <<pc, ok, open>>
    BY <1>1, <1>9, <1>10, <1>13
  <2>2. SubSeq(Wire(q), 1, m + n) \in Seq(Nat)
    <3>1. m + n \in 1 .. Len(Wire(q))
      BY <1>3, <1>7, <1>8
    <3>2. QED
      BY <1>3, <3>1, Pieces
  <2>3. Types'
    BY <1>2, <1>3, <1>11, <2>1, <2>2 DEF Types
  <2>4. \A r \in Calls \ {q} : Untouched(r)
    BY <1>2, <1>3, <1>11, <2>1 DEF Types, Untouched
  <2>5. /\ response'[q] = SubSeq(Wire(q), 1, m + n) /\ pc'[q] = pc[q] /\ ok'[q] = ok[q]
        /\ m + n <= Len(Payload[q])
    <3>1. m + n <= Len(Payload[q])
      BY <1>3, <1>7, <1>8, <1>13
    <3>2. QED
      BY <1>3, <2>1, <3>1 DEF Types
  <2>6. Cuts(q, m + n, k, j)'
    BY <1>2, <1>5, <1>6, <1>7, <1>11, <2>5 DEF Cuts, Wire, WireLen
  <2>7. m + n \in Nat /\ k \in Nat /\ j \in Nat
    BY <1>7
  <2>8. Reading(q)'
    BY <2>6, <2>7 DEF Reading
  <2>9. AnswerInv(q)'
    BY <1>2, <1>3, <1>4, <2>5, <2>8 DEF AnswerInv, Stage, Before, Outcome
  <2>10. QED
    BY <2>3, <2>4, <2>9, Step
<1>14. QED
  BY <1>12, <1>13

\* The daemon begins to execute the command: all of the answer is to come.
LEMMA ExecuteAnswers ==
  ASSUME Answers, NEW q \in Calls, Execute(q)
  PROVE  Answers'
<1>1. /\ conn[q] = "cmd" /\ conn' = [conn EXCEPT ![q] = "busy"]
      /\ todo' = [todo EXCEPT ![q] = Wire(q)] /\ spent' = 0
      /\ UNCHANGED <<pc, response, ok, open, left, elapsed, steady, inbox>>
  BY DEF Execute, clientVars, Wire
<1>2. /\ Types /\ AnswerInv(q) /\ pc[q] \in PCs
      /\ Wire(q) \in Seq(Nat) /\ Len(Wire(q)) = WireLen(q) /\ WireLen(q) \in Nat
      /\ Len(Payload[q]) \in Nat
  BY OneCall
<1>3. Types'
  BY <1>1, <1>2, CostAssumption DEF Types, Conns
<1>4. \A r \in Calls \ {q} : Untouched(r)
  BY <1>1, <1>2 DEF Types, Untouched
<1>5. pc[q] \in {"rCmd", "returned"}
  BY <1>1, <1>2 DEF AnswerInv, Stage, PCs
<1>6. /\ conn'[q] = "busy" /\ todo'[q] = Wire(q) /\ pc'[q] = pc[q]
      /\ response'[q] = response[q] /\ inbox'[q] = inbox[q] /\ ok'[q] = ok[q]
  BY <1>1, <1>2 DEF Types
<1>7. Reading(q)'
  <2> SUFFICES ASSUME pc[q] = "rCmd" PROVE Cuts(q, 0, 0, WireLen(q))'
    BY <1>2, <1>6 DEF Reading, WireLen
  <2>1. response[q] = <<>> /\ inbox[q] = <<>>
    BY <1>1, <1>2 DEF AnswerInv, Before
  <2>2. SubSeq(Wire(q), 1, 0) = <<>> /\ SubSeq(Wire(q), 1, Len(Wire(q))) = Wire(q)
    BY <1>2, SubSeqEmpty, SubSeqFull
  <2>3. SubSeq(Wire(q), 0 + 1, 0) = <<>> /\ SubSeq(Wire(q), 0 + 1, WireLen(q)) = Wire(q)
    BY <1>2, <2>2
  <2>4. 0 <= Len(Payload[q]) /\ 0 <= 0 /\ 0 <= WireLen(q) /\ WireLen(q) <= WireLen(q)
    BY <1>2
  <2>5. QED
    BY <1>6, <2>1, <2>2, <2>3, <2>4 DEF Cuts, Wire, WireLen
<1>8. Stage(q)' /\ Before(q)'
  BY <1>5, <1>6 DEF Stage, Before
<1>9. Outcome(q)'
  BY <1>2, <1>6 DEF AnswerInv, Outcome, Front
<1>10. QED
  BY <1>3, <1>4, <1>7, <1>8, <1>9, Step DEF AnswerInv

\* It writes a piece: the cut between socket and daemon moves.
LEMMA WriteAnswers ==
  ASSUME Answers, NEW q \in Calls, WriteSome(q)
  PROVE  Answers'
<1>1. PICK n \in 1 .. Len(todo[q]) :
        /\ inbox' = [inbox EXCEPT ![q] = @ \o SubSeq(todo[q], 1, n)]
        /\ todo' = [todo EXCEPT ![q] = SubSeq(@, n + 1, Len(@))]
        /\ conn' = [conn EXCEPT ![q] = IF n = Len(todo[q]) THEN "open" ELSE "busy"]
  BY DEF WriteSome
<1>2. conn[q] = "busy" /\ UNCHANGED <<pc, response, ok, open, left, elapsed, spent, steady>>
  BY DEF WriteSome, clientVars, timeVars
<1>3. /\ Types /\ AnswerInv(q) /\ pc[q] \in PCs
      /\ inbox[q] \in Seq(Nat) /\ todo[q] \in Seq(Nat)
      /\ Wire(q) \in Seq(Nat) /\ Len(Wire(q)) = WireLen(q) /\ WireLen(q) \in Nat
      /\ WireLen(q) = Len(Payload[q]) + 1 /\ Len(Payload[q]) \in Nat
  BY OneCall DEF WireLen
<1>4. /\ SubSeq(todo[q], 1, n) \in Seq(Nat) /\ SubSeq(todo[q], n + 1, Len(todo[q])) \in Seq(Nat)
      /\ inbox[q] \o SubSeq(todo[q], 1, n) \in Seq(Nat)
  BY <1>3, Pieces, ConcatProperties
<1>5. /\ inbox' = [inbox EXCEPT ![q] = inbox'[q]]
      /\ inbox'[q] = inbox[q] \o SubSeq(todo[q], 1, n)
      /\ todo' = [todo EXCEPT ![q] = todo'[q]]
      /\ todo'[q] = SubSeq(todo[q], n + 1, Len(todo[q]))
      /\ conn' = [conn EXCEPT ![q] = conn'[q]]
      /\ conn'[q] = IF n = Len(todo[q]) THEN "open" ELSE "busy"
  BY <1>1, <1>3 DEF Types
<1>6. Types'
  <2>1. inbox'[q] \in Seq(Nat) /\ todo'[q] \in Seq(Nat) /\ conn'[q] \in Conns
    BY <1>4, <1>5 DEF Conns
  <2>2. QED
    BY <1>2, <1>3, <1>5, <2>1 DEF Types
<1>7. \A r \in Calls \ {q} : Untouched(r)
  BY <1>2, <1>3, <1>5 DEF Types, Untouched
<1>8. pc[q] \in {"rCmd", "returned"}
  BY <1>2, <1>3 DEF AnswerInv, Stage, PCs
<1>9. Reading(q)'
  <2> SUFFICES ASSUME pc[q] = "rCmd" PROVE Reading(q)'
    BY <1>2 DEF Reading
  <2>1. PICK m, k, j \in Nat : Cuts(q, m, k, j)
    BY <1>2, <1>3 DEF AnswerInv, Reading
  <2>2. /\ m <= Len(Payload[q]) /\ m <= k /\ k <= j /\ j = WireLen(q)
        /\ inbox[q] = SubSeq(Wire(q), m + 1, k) /\ todo[q] = SubSeq(Wire(q), k + 1, j)
    BY <1>2, <2>1 DEF Cuts
  <2>3. /\ n \in Nat /\ k + n \in Nat /\ k <= k + n /\ k + n <= j
        /\ n = Len(todo[q]) <=> k + n = j
        /\ inbox[q] \o SubSeq(todo[q], 1, n) = SubSeq(Wire(q), m + 1, k + n)
        /\ SubSeq(todo[q], n + 1, Len(todo[q])) = SubSeq(Wire(q), k + n + 1, j)
    <3>1. PICK w \in Seq(Nat) : w = Wire(q)
      BY <1>3
    <3>2. PICK s : s = todo[q]
      OBVIOUS
    <3>3. PICK r : r = inbox[q]
      OBVIOUS
    <3>4. Adjoin(w, m, k, j, r, s)
      BY <1>3, <2>2, <3>1, <3>2, <3>3 DEF Adjoin
    <3>5. n \in 1 .. Len(s)
      BY <3>2
    <3>6. Moved(w, m, k, j, r, s, n)
      BY <3>4, <3>5, Move
    <3>7. QED
      BY <3>1, <3>2, <3>3, <3>6 DEF Moved
  <2>4. m <= k + n /\ k + n <= WireLen(q)
    BY <2>2, <2>3
  <2>5. inbox'[q] = SubSeq(Wire(q), m + 1, k + n)
    BY <1>5, <2>3
  <2>6. conn'[q] # "busy" => k + n = j
    BY <1>5, <2>3
  <2>7. response'[q] = SubSeq(Wire(q), 1, m) /\ todo'[q] = SubSeq(Wire(q), k + n + 1, j)
    BY <1>2, <1>5, <2>1, <2>3 DEF Cuts
  <2>8. Cuts(q, m, k + n, j)'
    BY <2>2, <2>4, <2>5, <2>6, <2>7 DEF Cuts, Wire, WireLen
  <2>9. QED
    BY <2>3, <2>8 DEF Reading
<1>10. Stage(q)' /\ Before(q)' /\ Outcome(q)'
  BY <1>2, <1>3, <1>5, <1>8 DEF AnswerInv, Stage, Before, Outcome, Front
<1>11. QED
  BY <1>6, <1>7, <1>9, <1>10, Step DEF AnswerInv

\* It closes the connection: what it had not written is gone.
LEMMA DropAnswers ==
  ASSUME Answers, NEW q \in Calls, Drop(q)
  PROVE  Answers'
<1>1. /\ conn[q] # "none" /\ conn' = [conn EXCEPT ![q] = "gone"]
      /\ todo' = [todo EXCEPT ![q] = <<>>]
      /\ UNCHANGED <<pc, response, ok, open, left, elapsed, spent, steady, inbox>>
  BY DEF Drop, clientVars, timeVars
<1>2. /\ Types /\ AnswerInv(q) /\ pc[q] \in PCs /\ conn[q] \in Conns /\ <<>> \in Seq(Nat)
      /\ WireLen(q) \in Nat /\ Len(Payload[q]) \in Nat
  BY OneCall
<1>3. Types'
  BY <1>1, <1>2 DEF Types, Conns
<1>4. \A r \in Calls \ {q} : Untouched(r)
  BY <1>1, <1>2 DEF Types, Untouched
<1>5. /\ conn'[q] = "gone" /\ todo'[q] = <<>> /\ pc'[q] = pc[q]
      /\ response'[q] = response[q] /\ inbox'[q] = inbox[q] /\ ok'[q] = ok[q]
  BY <1>1, <1>2 DEF Types
<1>6. Reading(q)'
  <2>1. CASE pc[q] = "rCmd" /\ conn[q] = "cmd"
    <3>1. response[q] = <<>> /\ inbox[q] = <<>> /\ SubSeq(Wire(q), 1, 0) = <<>>
      BY <1>2, <2>1, SubSeqEmpty DEF AnswerInv, Before
    <3>2. SubSeq(Wire(q), 0 + 1, 0) = <<>>
      BY <3>1
    <3>3. 0 <= Len(Payload[q]) /\ 0 <= 0 /\ 0 <= WireLen(q)
      BY <1>2
    <3>4. Cuts(q, 0, 0, 0)'
      BY <1>5, <3>1, <3>2, <3>3 DEF Cuts, Wire, WireLen
    <3>5. QED
      BY <3>4 DEF Reading
  <2>2. CASE pc[q] = "rCmd" /\ conn[q] # "cmd"
    <3>1. PICK m, k, j \in Nat : Cuts(q, m, k, j)
      BY <1>2, <2>2 DEF AnswerInv, Reading
    <3>2. SubSeq(Wire(q), k + 1, k) = <<>>
      BY SubSeqEmpty
    <3>3. k <= k /\ k <= WireLen(q)
      BY <1>2, <3>1 DEF Cuts
    <3>4. Cuts(q, m, k, k)'
      BY <1>5, <3>1, <3>2, <3>3 DEF Cuts, Wire, WireLen
    <3>5. QED
      BY <3>4 DEF Reading
  <2>3. CASE pc[q] # "rCmd"
    BY <1>5, <2>3 DEF Reading
  <2>4. QED
    BY <2>1, <2>2, <2>3
<1>7. Stage(q)'
  BY <1>1, <1>2, <1>5 DEF AnswerInv, Stage
<1>8. Before(q)' /\ Outcome(q)'
  BY <1>2, <1>5 DEF AnswerInv, Before, Outcome, Front
<1>9. QED
  BY <1>3, <1>4, <1>6, <1>7, <1>8, Step DEF AnswerInv

\* It answers "enable", to a call that waits for that or has given up.
LEMMA EnableAnswers ==
  ASSUME Answers, NEW q \in Calls, AnswerEnable(q)
  PROVE  Answers'
<1>1. /\ conn[q] = "enable" /\ conn' = [conn EXCEPT ![q] = "open"]
      /\ inbox' = [inbox EXCEPT ![q] = @ \o EnableReply]
      /\ UNCHANGED <<pc, response, ok, open, left, elapsed, spent, steady, todo>>
  BY DEF AnswerEnable, clientVars, timeVars
<1>2. /\ Types /\ AnswerInv(q) /\ pc[q] \in PCs /\ inbox[q] \in Seq(Nat)
  BY OneCall
<1>3. inbox[q] \o EnableReply \in Seq(Nat)
  <2>1. EnableReply \in Seq(Nat)
    BY DEF EnableReply, NUL
  <2>2. QED
    BY <1>2, <2>1, ConcatProperties
<1>4. /\ inbox' = [inbox EXCEPT ![q] = inbox'[q]] /\ inbox'[q] \in Seq(Nat)
      /\ conn'[q] = "open" /\ pc'[q] = pc[q] /\ response'[q] = response[q]
      /\ ok'[q] = ok[q] /\ todo'[q] = todo[q]
  BY <1>1, <1>2, <1>3 DEF Types
<1>5. Types'
  BY <1>1, <1>2, <1>4 DEF Types, Conns
<1>6. \A r \in Calls \ {q} : Untouched(r)
  BY <1>1, <1>2, <1>4 DEF Types, Untouched
<1>7. pc[q] \in {"rEnable", "returned"}
  BY <1>1, <1>2 DEF AnswerInv, Stage, PCs
<1>8. Stage(q)' /\ Before(q)' /\ Reading(q)' /\ Outcome(q)'
  BY <1>2, <1>4, <1>7 DEF AnswerInv, Stage, Before, Reading, Outcome, Front
<1>9. QED
  BY <1>5, <1>6, <1>8, Step DEF AnswerInv

-----------------------------------------------------------------------------
(* All steps.                                                              *)

\* A step of executeCmd that does not return an error.
LEMMA TalkAnswers ==
  ASSUME Answers, NEW q \in Calls, executeCmd(q),
         ~(ReturnErr(q) /\ UNCHANGED <<timeVars, daemonVars>>)
  PROVE  Answers'
<1> USE DEF timeVars, daemonVars
<1>1. Types /\ AnswerInv(q) /\ conn[q] \in Conns /\ "open" \in Conns /\ "enable" \in Conns /\ "cmd" \in Conns
  BY OneCall DEF Conns
<1>2. conn = [conn EXCEPT ![q] = conn[q]]
  BY <1>1 DEF Types
<1>3. CASE Dial(q)
  <2>1. /\ pc[q] = "dial" /\ Goto(q, "arm") /\ conn' = [conn EXCEPT ![q] = "open"]
        /\ open' = open \cup {q}
        /\ UNCHANGED <<response, ok, left, elapsed, spent, steady, inbox, todo>>
    BY <1>3 DEF Dial
  <2>2. inbox[q] = <<>> /\ left' \in [Calls -> 0 .. Timeout] /\ open' \subseteq Calls
    BY <1>1, <2>1 DEF AnswerInv, Before, Types
  <2>3. QED
    BY <1>1, <2>1, <2>2, OpeningAnswers DEF PCs
<1>4. CASE SetDeadline(q)
  <2>1. /\ pc[q] = "arm" /\ Goto(q, "wEnable") /\ Arm(q)
        /\ UNCHANGED <<response, ok, open, elapsed, spent, steady, conn, inbox, todo>>
    BY <1>4 DEF SetDeadline
  <2>2. inbox[q] = <<>> /\ left' \in [Calls -> 0 .. Timeout] /\ open' \subseteq Calls
    BY <1>1, <2>1, TimeoutAssumption DEF AnswerInv, Before, Types, Arm
  <2>3. QED
    BY <1>1, <1>2, <2>1, <2>2, OpeningAnswers DEF PCs
<1>5. CASE WriteEnable(q)
  <2>1. /\ pc[q] = "wEnable" /\ Goto(q, "rEnable") /\ conn' = [conn EXCEPT ![q] = "enable"]
        /\ UNCHANGED <<response, ok, open, left, elapsed, spent, steady, inbox, todo>>
    BY <1>5 DEF WriteEnable, Write
  <2>2. inbox[q] = <<>> /\ left' \in [Calls -> 0 .. Timeout] /\ open' \subseteq Calls
    BY <1>1, <2>1 DEF AnswerInv, Before, Types
  <2>3. QED
    BY <1>1, <2>1, <2>2, OpeningAnswers DEF PCs
<1>6. CASE WriteCmd(q)
  <2>1. /\ pc[q] = "wCmd" /\ Goto(q, "rCmd") /\ conn' = [conn EXCEPT ![q] = "cmd"]
        /\ UNCHANGED <<response, ok, open, left, elapsed, spent, steady, inbox, todo>>
    BY <1>6 DEF WriteCmd, Write
  <2>2. inbox[q] = <<>> /\ left' \in [Calls -> 0 .. Timeout] /\ open' \subseteq Calls
    BY <1>1, <2>1 DEF AnswerInv, Before, Types
  <2>3. QED
    BY <1>1, <2>1, <2>2, OpeningAnswers DEF PCs
<1>7. CASE ReadEnable(q)
  <2>1. /\ pc[q] = "rEnable" /\ inbox[q] # <<>> /\ Goto(q, "wCmd")
        /\ inbox' = [inbox EXCEPT ![q] = SubSeq(@, Len(inbox[q]) + 1, Len(@))]
        /\ UNCHANGED <<response, ok, open, left, elapsed, spent, steady, conn, todo>>
    BY <1>7 DEF ReadEnable, Take
  <2>2. inbox' = [inbox EXCEPT ![q] = <<>>]
    <3>1. inbox[q] \in Seq(Nat)
      BY <1>1 DEF Types
    <3>2. PICK n \in Nat : n = Len(inbox[q])
      BY <3>1, LenProperties
    <3>3. SubSeq(inbox[q], n + 1, n) = <<>>
      BY SubSeqEmpty
    <3>4. QED
      BY <2>1, <3>2, <3>3
  <2>3. conn[q] # "enable" /\ left' \in [Calls -> 0 .. Timeout] /\ open' \subseteq Calls
    BY <1>1, <2>1 DEF AnswerInv, Before, Types
  <2>4. QED
    BY <1>1, <1>2, <2>1, <2>2, <2>3, OpeningAnswers DEF PCs
<1>8. CASE ReadCmd(q)
  BY <1>8, ReadAnswers
<1>9. QED
  BY <1>3, <1>4, <1>5, <1>6, <1>7, <1>8 DEF executeCmd

\* Every step preserves the invariant; time is not part of it.
LEMMA NextAnswers == Answers /\ [Next]_vars => Answers'
<1> SUFFICES ASSUME Answers, [Next]_vars PROVE Answers'
  OBVIOUS
<1>1. ASSUME UNCHANGED <<clientVars, daemonVars>>, Types' PROVE Answers'
  BY <1>1, Frame DEF Answers, Untouched, clientVars, daemonVars
<1>2. CASE Tick
  <2>1. /\ UNCHANGED <<pc, response, ok, open, conn, inbox, todo>>
        /\ left' \in [Calls -> 0 .. Timeout] /\ elapsed' \in [Calls -> Nat]
        /\ spent' \in 0 .. Cost /\ steady' \in BOOLEAN
    <3>1. Types
      BY DEF Answers
    <3>2. left' \in [Calls -> 0 .. Timeout]
      <4>1. /\ left' = [q \in Calls |-> IF q \in Waiting THEN left[q] - 1 ELSE left[q]]
            /\ \A q \in Waiting : left[q] > 0
        BY <1>2 DEF Tick
      <4>2. left \in [Calls -> 0 .. Timeout]
        BY <3>1 DEF Types
      <4>3. ASSUME NEW q \in Calls
            PROVE  (IF q \in Waiting THEN left[q] - 1 ELSE left[q]) \in 0 .. Timeout
        BY <4>1, <4>2, TimeoutAssumption
      <4>4. QED
        BY <4>1, <4>3
    <3>3. elapsed' \in [Calls -> Nat]
      <4>1. elapsed' = [q \in Calls |-> IF q \in Waiting THEN elapsed[q] + 1 ELSE elapsed[q]]
        BY <1>2 DEF Tick
      <4>2. elapsed \in [Calls -> Nat]
        BY <3>1 DEF Types
      <4>3. QED
        BY <4>1, <4>2
    <3>4. spent' \in 0 .. Cost
      BY <1>2, <3>1, CostAssumption DEF Tick, Types
    <3>5. steady' \in BOOLEAN
      BY <1>2 DEF Tick
    <3>6. QED
      BY <1>2, <3>2, <3>3, <3>4, <3>5 DEF Tick, clientVars, daemonVars
  <2>2. Types'
    BY <2>1 DEF Answers, Types
  <2>3. QED
    BY <1>1, <2>1, <2>2 DEF clientVars, daemonVars
<1>3. ASSUME NEW q \in Calls, Call(q) PROVE Answers'
  <2>1. /\ pc[q] = "idle" /\ Goto(q, "dial")
        /\ UNCHANGED <<response, ok, open, left, elapsed, spent, steady, conn, inbox, todo>>
    BY <1>3 DEF Call, timeVars, daemonVars
  <2>2. /\ Types /\ AnswerInv(q) /\ conn[q] \in Conns
    BY OneCall
  <2>3. /\ conn = [conn EXCEPT ![q] = conn[q]] /\ inbox[q] = <<>>
        /\ left' \in [Calls -> 0 .. Timeout] /\ open' \subseteq Calls
    BY <2>1, <2>2 DEF AnswerInv, Before, Types
  <2>4. QED
    BY <2>1, <2>2, <2>3, OpeningAnswers DEF PCs
<1>4. ASSUME NEW q \in Calls, executeCmd(q) PROVE Answers'
  <2>1. pc[q] \notin {"idle", "returned"}
    BY <1>4 DEF executeCmd, Dial, SetDeadline, WriteEnable, WriteCmd, Write, ReadEnable, ReadCmd
  <2>2. QED
    BY <1>4, <2>1, ErrStep, TalkAnswers
<1>5. ASSUME NEW q \in Calls, Daemon(q) PROVE Answers'
  BY <1>5, EnableAnswers, ExecuteAnswers, WriteAnswers, DropAnswers DEF Daemon
<1>6. CASE Quiet \/ UNCHANGED vars
  <2>1. UNCHANGED <<clientVars, timeVars, daemonVars>>
    BY <1>6 DEF Quiet, vars
  <2>2. Types'
    BY <2>1 DEF Answers, Types, clientVars, timeVars, daemonVars
  <2>3. QED
    BY <1>1, <2>1, <2>2
<1>7. QED
  BY <1>2, <1>3, <1>4, <1>5, <1>6 DEF Next

\* The invariant holds in every reachable state.
LEMMA Invariance == Spec => []Answers
BY InitAnswers, NextAnswers, PTL DEF Spec

-----------------------------------------------------------------------------
\* What a call has read is a text without NUL, as long as it has not returned
\* and after.
LEMMA AnswersTyped == Answers => TypeOK
<1> SUFFICES ASSUME Answers PROVE TypeOK
  OBVIOUS
<1>1. ASSUME NEW q \in Calls PROVE response[q] \in Seq(Nat \ {NUL})
  <2>1. /\ AnswerInv(q) /\ pc[q] \in PCs
        /\ Payload[q] \in Seq(Nat \ {NUL}) /\ Len(Payload[q]) \in Nat
    BY OneCall
  <2>2. CASE pc[q] = "rCmd" /\ conn[q] # "cmd"
    <3>1. PICK m \in Nat : m <= Len(Payload[q]) /\ response[q] = SubSeq(Wire(q), 1, m)
      BY <2>1, <2>2 DEF AnswerInv, Reading, Cuts
    <3>2. QED
      BY <2>1, <3>1, Fronts DEF Wire
  <2>3. CASE pc[q] = "returned"
    <3>1. PICK m \in Nat : Front(q, m)
      BY <2>1, <2>3 DEF AnswerInv, Outcome
    <3>2. QED
      BY <2>1, <3>1, Fronts DEF Front
  <2>4. CASE pc[q] \notin {"rCmd", "returned"} \/ (pc[q] = "rCmd" /\ conn[q] = "cmd")
    <3>1. response[q] = <<>>
      BY <2>1, <2>4 DEF AnswerInv, Before
    <3>2. QED
      BY <3>1
  <2>5. QED
    BY <2>2, <2>3, <2>4
<1>2. Types
  BY DEF Answers
<1>3. response \in [Calls -> Seq(Nat \ {NUL})]
  BY <1>1, <1>2 DEF Types
<1>4. QED
  BY <1>2, <1>3 DEF Types, TypeOK

\* Three adjacent slices make up the answer, or the front of it.
LEMMA AnswersConserved == Answers => Conserved
<1> SUFFICES ASSUME Answers, NEW q \in Calls, pc[q] = "rCmd", conn[q] # "cmd"
             PROVE  LET seen == response[q] \o inbox[q] \o todo[q]
                    IN  /\ conn[q] # "gone" => seen = Wire(q)
                        /\ seen = SubSeq(Wire(q), 1, Len(seen))
  BY DEF Conserved, Wire
<1>1. /\ AnswerInv(q) /\ Len(Payload[q]) \in Nat
      /\ Wire(q) \in Seq(Nat) /\ Len(Wire(q)) = WireLen(q) /\ WireLen(q) \in Nat
  BY OneCall
<1>2. PICK m, k, j \in Nat : Cuts(q, m, k, j)
  BY <1>1 DEF AnswerInv, Reading
<1>3. PICK w \in Seq(Nat) : w = Wire(q)
  BY <1>1
<1>4. /\ m <= k /\ k <= j /\ j <= Len(w)
      /\ conn[q] # "gone" => j = Len(w)
      /\ response[q] = SubSeq(w, 1, m) /\ inbox[q] = SubSeq(w, m + 1, k)
      /\ todo[q] = SubSeq(w, k + 1, j)
  BY <1>1, <1>2, <1>3 DEF Cuts
<1>5. response[q] \o inbox[q] \o todo[q] = SubSeq(w, 1, j)
  <2>1. PICK a \in Nat : a = 0
    OBVIOUS
  <2>2. a <= m /\ m <= k /\ k <= Len(w) /\ a <= k /\ k <= j /\ j <= Len(w) /\ a + 1 = 1
    <3>1. Len(w) \in Nat
      BY LenProperties
    <3>2. QED
      BY <1>4, <2>1, <3>1
  <2>3. SubSeq(w, a + 1, m) \o SubSeq(w, m + 1, k) = SubSeq(w, a + 1, k)
    BY <2>2, Adjacent
  <2>4. SubSeq(w, a + 1, k) \o SubSeq(w, k + 1, j) = SubSeq(w, a + 1, j)
    BY <2>2, Adjacent
  <2>5. QED
    BY <1>4, <2>2, <2>3, <2>4
<1>6. Len(SubSeq(w, 1, j)) = j
  <2>1. /\ 1 \in Int /\ j \in Int /\ \A i \in 1 .. j : w[i] \in Nat
    <3>1. Len(w) \in Nat /\ \A i \in 1 .. Len(w) : w[i] \in Nat
      BY LenProperties, ElementOfSeq
    <3>2. QED
      BY <1>4, <3>1
  <2>2. Len(SubSeq(w, 1, j)) = IF 1 <= j THEN j - 1 + 1 ELSE 0
    BY <2>1, SubSeqProperties
  <2>3. QED
    BY <2>2
<1>7. SubSeq(w, 1, Len(w)) = w
  BY SubSeqFull
<1>8. QED
  BY <1>3, <1>4, <1>5, <1>6, <1>7

-----------------------------------------------------------------------------
(* CommandService.                                                         *)

\* A step of executeCmd moves q, and q only, from where it is, which is neither
\* before the call nor after the return.
LEMMA Moves ==
  ASSUME Answers, NEW q \in Calls, executeCmd(q)
  PROVE  /\ pc[q] \notin {"idle", "returned"}
         /\ \E l \in PCs \ {"idle"} : pc' = [pc EXCEPT ![q] = l]
         /\ \A r \in Calls \ {q} : response'[r] = response[r] /\ ok'[r] = ok[r]
<1>1. Types
  BY OneCall
<1>2. pc[q] \notin {"idle", "returned"} /\ pc[q] \in PCs
  BY <1>1 DEF executeCmd, Dial, SetDeadline, WriteEnable, WriteCmd, Write, ReadEnable, ReadCmd, Types
<1>3. CASE ReadCmd(q)
  <2>1. \/ Goto(q, "returned") \/ pc' = pc
    BY <1>3 DEF ReadCmd, ReturnErr
  <2>2. \E l \in PCs \ {"idle"} : pc' = [pc EXCEPT ![q] = l]
    BY <1>1, <1>2, <2>1 DEF Goto, PCs, Types
  <2>3. \A r \in Calls \ {q} : response'[r] = response[r] /\ ok'[r] = ok[r]
    BY <1>1, <1>3 DEF ReadCmd, ReturnErr, Types
  <2>4. QED
    BY <1>2, <2>2, <2>3
<1>4. CASE ~ReadCmd(q)
  <2>1. \E l \in {"arm", "wEnable", "rEnable", "wCmd", "rCmd", "returned"} : Goto(q, l)
    BY <1>4 DEF executeCmd, Dial, SetDeadline, WriteEnable, WriteCmd, Write, ReadEnable, ReturnErr
  <2>2. UNCHANGED <<response, ok>>
    BY <1>4 DEF executeCmd, Dial, SetDeadline, WriteEnable, WriteCmd, Write, ReadEnable, ReturnErr
  <2>3. QED
    BY <1>2, <2>1, <2>2 DEF Goto, PCs
<1>5. QED
  BY <1>3, <1>4

\* What a caller sees of it: nothing, or a return that CommandService allows.
LEMMA ExecuteRefines ==
  ASSUME Answers, Answers', NEW q \in Calls, executeCmd(q)
  PROVE  Called' = Called /\ (Results' = Results \/ Service!Return(q))
<1>1. /\ Types /\ Types' /\ Outcome(q)' /\ pc[q] \notin {"idle", "returned"}
      /\ Len(Payload[q]) \in Nat
  BY OneCall, Moves DEF Answers, AnswerInv
<1>2. PICK l \in PCs \ {"idle"} : pc' = [pc EXCEPT ![q] = l]
  BY Moves
<1>3. /\ pc'[q] = l /\ \A r \in Calls \ {q} : pc'[r] = pc[r]
      /\ \A r \in Calls \ {q} : response'[r] = response[r] /\ ok'[r] = ok[r]
  BY <1>1, <1>2, Moves DEF Types
<1>4. Called' = Called /\ q \in Called
  BY <1>1, <1>2, <1>3 DEF Called
<1>5. ASSUME NEW r \in Calls \ {q} PROVE Results'[r] = Results[r]
  BY <1>3 DEF Results
<1>6. Results[q] = Service!Pending
  BY <1>1 DEF Results, Service!Pending
<1>7. CASE l # "returned"
  <2>1. Results'[q] = Results[q]
    BY <1>1, <1>3, <1>7 DEF Results
  <2>2. Results' = Results
    BY <1>5, <2>1 DEF Results
  <2>3. QED
    BY <1>4, <2>2
<1>8. CASE l = "returned"
  <2>1. Results'[q] = Service!Returned(ok'[q], response'[q])
    BY <1>3, <1>8 DEF Results, Service!Returned
  <2>2. Results' = [Results EXCEPT ![q] = Service!Returned(ok'[q], response'[q])]
    BY <1>5, <2>1 DEF Results
  <2>3. ok'[q] \in BOOLEAN
    BY <1>1 DEF Types
  <2>4. CASE ok'[q] = TRUE
    <3>1. response'[q] = Payload[q]
      BY <1>1, <2>4 DEF Outcome
    <3>2. Results' = [Results EXCEPT ![q] = Service!Returned(TRUE, Payload[q])]
      BY <2>2, <2>4, <3>1
    <3>3. QED
      BY <1>4, <1>6, <3>2 DEF Service!Return
  <2>5. CASE ok'[q] = FALSE
    <3>1. PICK m \in Nat : m \in 0 .. Len(Payload[q]) /\ response'[q] = SubSeq(Payload[q], 1, m)
      BY <1>1, <1>3, <1>8 DEF Outcome, Front
    <3>2. Results' = [Results EXCEPT ![q] = Service!Returned(FALSE, SubSeq(Payload[q], 1, m))]
      BY <2>2, <2>5, <3>1
    <3>3. QED
      BY <1>4, <1>6, <3>1, <3>2 DEF Service!Return
  <2>6. QED
    BY <2>3, <2>4, <2>5
<1>9. QED
  BY <1>7, <1>8

\* Every step is one of CommandService, or nothing that a caller sees.
LEMMA StepRefines ==
  Answers /\ Answers' /\ [Next]_vars => [Service!Next]_<<Called, Results>>
<1> SUFFICES ASSUME Answers, Answers', [Next]_vars PROVE [Service!Next]_<<Called, Results>>
  OBVIOUS
<1>1. Types
  BY DEF Answers
<1>2. ASSUME UNCHANGED <<pc, ok, response>> PROVE UNCHANGED <<Called, Results>>
  BY <1>2 DEF Called, Results
<1>3. ASSUME NEW q \in Calls, executeCmd(q) PROVE [Service!Next]_<<Called, Results>>
  BY <1>3, ExecuteRefines DEF Service!Next
<1>4. ASSUME NEW q \in Calls, Call(q) PROVE Service!Next
  <2>1. pc[q] = "idle" /\ pc' = [pc EXCEPT ![q] = "dial"] /\ UNCHANGED <<response, ok>>
    BY <1>4 DEF Call, Goto
  <2>2. q \notin Called /\ Called' = Called \cup {q}
    BY <1>1, <2>1 DEF Called, Types
  <2>3. Results' = Results
    BY <1>1, <2>1 DEF Results, Types
  <2>4. QED
    BY <2>2, <2>3 DEF Service!Next, Service!Call
<1>5. ASSUME NEW q \in Calls, Daemon(q) PROVE UNCHANGED <<pc, ok, response>>
  BY <1>5 DEF Daemon, AnswerEnable, Execute, WriteSome, Drop, clientVars
<1>6. CASE Tick \/ Quiet \/ UNCHANGED vars
  BY <1>2, <1>6 DEF Tick, Quiet, vars, clientVars
<1>7. QED
  BY <1>2, <1>3, <1>4, <1>5, <1>6 DEF Next

-----------------------------------------------------------------------------
\* Every reachable state is typed: what a caller of executeCmd is given, with
\* an error or without, never holds a NUL.
THEOREM TypeCorrect == Spec => []TypeOK
BY Invariance, AnswersTyped, PTL

\* What was read, what is in the socket and what the daemon has still to write
\* make up the answer to this call: no byte is lost, doubled or another's.
THEOREM BytesConserved == Spec => []Conserved
BY Invariance, AnswersConserved, PTL

\* executeCmd implements the safety part of CommandService: a call returns
\* once, without an error the whole answer, with one the front of it.
THEOREM Refinement == Spec => Service!Init /\ [][Service!Next]_<<Called, Results>>
<1>1. Init => Service!Init
  BY DEF Init, Service!Init, Called, Results, Service!Pending
<1>2. QED
  BY <1>1, Invariance, StepRefines, PTL DEF Spec
=============================================================================
