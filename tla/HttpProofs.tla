----------------------------- MODULE HttpProofs -----------------------------
(***************************************************************************)
(* Proofs about the HTTP server, for any connections and plans: whoever    *)
(* is not watched by the timeout any more is on the way to its end; the    *)
(* session is given the requests as they were sent, and they are answered  *)
(* in their order.                                                         *)
(***************************************************************************)
EXTENDS HttpServer, SequenceTheorems, WellFoundedInduction, TLAPS

(* What of the types the proof needs.                                      *)
Typed ==
    /\ DOMAIN plan.requests \subseteq Conns
    /\ sent \in [Conns -> Nat]
    /\ queue \in [Conns -> Seq(Answer)]
    /\ writing \in [Conns -> Seq([answer : Answer, open : BOOLEAN])]
    /\ closed \subseteq Conns /\ failed \subseteq Conns /\ tracking \subseteq Conns

LEMMA Answers ==
  ASSUME NEW line \in STRING
  PROVE  ProcessRequest(line) \in Answer
  BY DEF ProcessRequest, CheckResource, HandleGet, Answer

LEMMA TailType ==
  ASSUME NEW S, NEW s \in Seq(S), s # <<>>
  PROVE  Tail(s) \in Seq(S)
  OBVIOUS

LEMMA AppendType ==
  ASSUME NEW S, NEW s \in Seq(S), NEW e \in S
  PROVE  Append(s, e) \in Seq(S) /\ Append(s, e) # <<>>
  BY AppendProperties

LEMMA ConcatType ==
  ASSUME NEW S, NEW s \in Seq(S), NEW t \in Seq(S)
  PROVE  /\ s \o t \in Seq(S)
         /\ s # <<>> \/ Len(t) > 0 => s \o t # <<>>
<1>1. s \o t \in Seq(S) /\ Len(s \o t) = Len(s) + Len(t)
  OBVIOUS
<1>2. s # <<>> => Len(s) > 0
  OBVIOUS
<1> QED
  BY <1>1, <1>2

LEMMA InitTyped == Init => Typed /\ NotForgotten
  BY HttpAssumption DEF Init, Typed, Used, NotForgotten

(* The handlers of asio, peers and time.                                   *)
LEMMA HandlerStep ==
  ASSUME Typed, NotForgotten, NEW c \in Conns,
         Handler(c) \/ PeerLeaves(c) \/ TimePasses(c)
  PROVE  Typed' /\ NotForgotten'
<1> USE DEF Typed, NotForgotten, Used, netVars, decoderVars, inVars, outVars, sessionVars
<1>1. CASE ReadHandler(c) \/ PeerLeaves(c) \/ TimePasses(c)
  BY <1>1 DEF ReadHandler, PeerLeaves, TimePasses
<1>2. CASE ReadFailed(c)
  BY <1>2 DEF ReadFailed
<1>3. CASE WriteCompleted(c)
  <2>1. /\ sent' = [sent EXCEPT ![c] = @ + 1]
        /\ writing' = [writing EXCEPT ![c] = Tail(@)] /\ writing[c] # <<>>
        /\ UNCHANGED <<plan, queue, closed, failed, tracking>>
    BY <1>3 DEF WriteCompleted
  <2>2. Tail(writing[c]) \in Seq([answer : Answer, open : BOOLEAN])
    BY <2>1, TailType
  <2>3. Typed'
    <3>1. sent[c] + 1 \in Nat
      OBVIOUS
    <3>2. sent' \in [Conns -> Nat]
      BY <2>1, <3>1
    <3>3. writing' \in [Conns -> Seq([answer : Answer, open : BOOLEAN])]
      BY <2>1, <2>2
    <3> QED
      BY <2>1, <3>2, <3>3
  <2>4. \A d \in Conns : d # c => writing'[d] = writing[d] /\ sent'[d] = sent[d]
    BY <2>1
  <2>5. sent'[c] > 0
    BY <2>1
  <2> QED
    BY <2>1, <2>3, <2>4, <2>5
<1>4. CASE WriteFailed(c)
  <2>1. /\ writing' = [writing EXCEPT ![c] = Tail(@)] /\ writing[c] # <<>>
        /\ failed' = failed \cup {c}
        /\ UNCHANGED <<plan, queue, closed, sent, tracking>>
    BY <1>4 DEF WriteFailed
  <2>2. Tail(writing[c]) \in Seq([answer : Answer, open : BOOLEAN])
    BY <2>1, TailType
  <2>3. \A d \in Conns : d # c => writing'[d] = writing[d]
    BY <2>1
  <2> QED
    BY <2>1, <2>2, <2>3
<1> QED
  BY <1>1, <1>2, <1>3, <1>4 DEF Handler

LEMMA BeginStep ==
  ASSUME Typed, NotForgotten, NEW c \in Conns, BeginPass(c)
  PROVE  Typed' /\ NotForgotten'
<1> USE DEF Typed, NotForgotten, Used, netVars, decoderVars, inVars
<1>1. /\ sent' = [sent EXCEPT ![c] = 0]
      /\ closed' = IF sent[c] > 0 THEN closed \cup {c} ELSE closed
      /\ UNCHANGED <<plan, queue, writing, failed, tracking>>
  BY DEF BeginPass
<1>2. \A d \in Conns : d # c => sent'[d] = sent[d]
  BY <1>1
<1> QED
  BY <1>1, <1>2

(* What a round of decoding that sends an answer does to a connection.     *)
LEMMA SendStep ==
  ASSUME Typed, NotForgotten, NEW c \in Conns, NEW answer \in Answer, Send(c, answer),
         tracking' \in {tracking, tracking \ {c}},
         UNCHANGED <<plan, closed, failed, writing, sent>>
  PROVE  Typed' /\ NotForgotten'
<1> USE DEF Typed, NotForgotten, Used
<1>1. queue' = [queue EXCEPT ![c] = Append(@, answer)]
  BY DEF Send
<1>2. Append(queue[c], answer) \in Seq(Answer) /\ Append(queue[c], answer) # <<>>
  BY AppendType
<1>3. Typed'
  BY <1>1, <1>2
<1>4. queue'[c] # <<>> /\ \A d \in Conns : d # c => queue'[d] = queue[d]
  BY <1>1, <1>2
<1> QED
  BY <1>3, <1>4

LEMMA DecodeStep ==
  ASSUME Typed, NotForgotten, NEW c \in Conns, Decode(c)
  PROVE  Typed' /\ NotForgotten'
<1> USE DEF netVars, inVars
<1>1. UNCHANGED <<plan, closed, failed, writing, sent>>
  BY DEF Decode
<1>2. CASE TakeMessage(c)
  <2>1. PICK text : ArrivedHandler(c, text)
    BY <1>2 DEF TakeMessage
  <2>2. PICK answer \in Answer : Send(c, answer)
    BY <2>1, Answers DEF ArrivedHandler, ErrorHandler, Answer, ProcessRequest,
       CheckResource, HandleGet
  <2> QED
    BY <1>1, <2>1, <2>2, SendStep DEF ArrivedHandler
<1>3. CASE Refuse(c)
  <2>1. PICK answer \in Answer : Send(c, answer)
    BY <1>3 DEF Refuse, ErrorHandler, Answer
  <2> QED
    BY <1>1, <1>3, <2>1, SendStep DEF Refuse
<1>4. CASE FindNothing(c)
  BY <1>1, <1>4 DEF FindNothing, Typed, NotForgotten, Used
<1> QED
  BY <1>2, <1>3, <1>4 DEF Decode

LEMMA FinishStep ==
  ASSUME Typed, NotForgotten, NEW c \in Conns, FinishPass(c)
  PROVE  Typed' /\ NotForgotten'
<1> USE DEF Typed, Used
<1> DEFINE Writes(n) == [i \in 1..n |-> [answer |-> queue[c][i], open |-> c \notin closed]]
<1>1. PICK n \in 0..Len(queue[c]) :
         /\ queue[c] # <<>> => n > 0
         /\ writing' = [writing EXCEPT ![c] = @ \o Writes(n)]
         /\ queue' = [queue EXCEPT ![c] = SubSeq(@, n + 1, Len(@))]
  BY DEF FinishPass
<1>2. /\ failed' = failed \ {c}
      /\ UNCHANGED <<plan, sent>>
      /\ tracking' \subseteq tracking /\ tracking \ {c} \subseteq tracking'
      /\ closed \subseteq closed' /\ closed' \subseteq closed \cup {c}
      /\ c \in failed => c \in closed'
      /\ c \in tracking \ tracking' => c \in closed'
  BY DEF FinishPass
<1>3. Writes(n) \in Seq([answer : Answer, open : BOOLEAN]) /\ Len(Writes(n)) = n
  BY <1>1
<1> HIDE DEF Writes
<1>4. /\ writing[c] \o Writes(n) \in Seq([answer : Answer, open : BOOLEAN])
      /\ writing[c] # <<>> \/ n > 0 => writing[c] \o Writes(n) # <<>>
  BY <1>1, <1>3, ConcatType
<1>5. SubSeq(queue[c], n + 1, Len(queue[c])) \in Seq(Answer)
  BY <1>1
<1>6. Typed'
  BY <1>1, <1>2, <1>4, <1>5
<1>7. /\ queue[c] # <<>> \/ writing[c] # <<>> => writing'[c] # <<>>
      /\ \A d \in Conns : d # c => writing'[d] = writing[d] /\ queue'[d] = queue[d]
  BY <1>1, <1>4
<1>8. NotForgotten'
  BY <1>2, <1>7 DEF NotForgotten
<1> QED
  BY <1>6, <1>8

LEMMA TypedNext == Typed /\ NotForgotten /\ [Next]_vars => Typed' /\ NotForgotten'
<1> SUFFICES ASSUME Typed, NotForgotten, [Next]_vars PROVE Typed' /\ NotForgotten'
  OBVIOUS
<1>1. CASE Next
  BY <1>1, HandlerStep, BeginStep, DecodeStep, FinishStep DEF Next
<1>2. CASE UNCHANGED vars
  BY <1>2 DEF vars, netVars, outVars, sessionVars, Typed, NotForgotten, Used
<1> QED
  BY <1>1, <1>2

LEMMA TypedAlways == Spec => [](Typed /\ NotForgotten)
  BY TypedNext, InitTyped, PTL DEF Spec

(* A connection whose timeout is not tracked has an answer on its way, or  *)
(* was closed, or has failed: an answer is queued in the step that ends    *)
(* the tracking, and each stage hands it to the next.                      *)
THEOREM NotForgottenHolds == Spec => []NotForgotten
  BY TypedAlways, PTL

----------------------------------------------------------------------------
(* Induction and flattened sequences.                                      *)

(* Induction, in the form of the least element of a set of numbers: the    *)
(* provers cannot instantiate the theorems that take an operator.          *)
LEMMA NatMin ==
  ASSUME NEW T \in SUBSET Nat, T # {}
  PROVE  \E m \in T : \A k \in T : m <= k
<1>1. PICK m \in T : \A k \in T : <<k, m>> \notin OpToRel(<, Nat)
  BY WFMin, NatLessThanWellFounded, Zenon
<1>2. \A k \in T : ~(k < m)
  BY <1>1 DEF OpToRel
<1> QED
  BY <1>2

LEMMA SetInduction ==
  ASSUME NEW T \in SUBSET Nat, 0 \in T, \A n \in Nat : n \in T => n + 1 \in T
  PROVE  T = Nat
<1> SUFFICES ASSUME Nat \ T # {} PROVE FALSE
  OBVIOUS
<1>1. PICK m \in Nat \ T : \A k \in Nat \ T : m <= k
  BY NatMin
<1>2. m # 0 /\ m - 1 \in Nat
  BY <1>1
<1>3. m - 1 \in T
  BY <1>1, <1>2
<1> QED
  BY <1>2, <1>3

(* FlattenSeq chooses a function that satisfies its recursion: there is one.*)
IsFlatten(f, seqs) ==
    f = [i \in 1..Len(seqs) |-> IF i = 1 THEN seqs[i] ELSE f[i - 1] \o seqs[i]]

LEMMA ConcatSeq ==
  ASSUME NEW S, NEW s \in Seq(S), NEW t \in Seq(S)
  PROVE  s \o t \in Seq(S)
  OBVIOUS

LEMMA FlattenExists ==
  ASSUME NEW S, NEW seqs \in Seq(Seq(S)), seqs # <<>>
  PROVE  \E f : IsFlatten(f, seqs) /\ f \in [1..Len(seqs) -> Seq(S)]
<1> DEFINE Upto(k) == \E f \in [1..k -> Seq(S)] :
              \A i \in 1..k : f[i] = IF i = 1 THEN seqs[i] ELSE f[i - 1] \o seqs[i]
           T == {k \in Nat : k \in 1..Len(seqs) => Upto(k)}
<1>1. \A i \in 1..Len(seqs) : seqs[i] \in Seq(S)
  OBVIOUS
<1>2. \A k \in Nat : k \in T => k + 1 \in T
  <2> HIDE DEF Upto
  <2> SUFFICES ASSUME NEW k \in Nat, k \in 1..Len(seqs) => Upto(k), k + 1 \in 1..Len(seqs)
               PROVE  Upto(k + 1)
    OBVIOUS
  <2> USE DEF Upto
  <2>1. CASE k = 0
    <3> DEFINE f == [i \in 1..1 |-> seqs[1]]
    <3>1. f \in [1..(k+1) -> Seq(S)] /\ \A i \in 1..(k+1) : i = 1 /\ f[i] = seqs[i]
      BY <1>1, <2>1
    <3> HIDE DEF f
    <3>2. \A i \in 1..(k + 1) : f[i] = IF i = 1 THEN seqs[i] ELSE f[i - 1] \o seqs[i]
      BY ONLY <3>1
    <3>3. f \in [1..(k + 1) -> Seq(S)]
      BY ONLY <3>1
    <3> QED BY ONLY <3>2, <3>3, Zenon DEF Upto
  <2>2. CASE k # 0
    <3>1. PICK f \in [1..k -> Seq(S)] :
             \A i \in 1..k : f[i] = IF i = 1 THEN seqs[i] ELSE f[i - 1] \o seqs[i]
      <4>1. k \in 1..Len(seqs)
        BY <2>2
      <4>2. Upto(k)
        BY ONLY <4>1, k \in 1..Len(seqs) => Upto(k)
      <4> QED BY ONLY <4>2 DEF Upto
    <3> DEFINE g == [i \in 1..(k+1) |-> IF i = k + 1 THEN f[k] \o seqs[k + 1] ELSE f[i]]
    <3>2. f[k] \o seqs[k + 1] \in Seq(S)
      <4>1. f[k] \in Seq(S) /\ seqs[k + 1] \in Seq(S)
        BY <1>1, <2>2
      <4> QED BY <4>1, ConcatSeq
    <3>3. \A i \in 1..(k + 1) : i = k + 1 \/ i \in 1..k
      OBVIOUS
    <3>4. g \in [1..(k + 1) -> Seq(S)]
      BY <3>2, <3>3
    <3>5. \A i \in 1..(k + 1) : i # 1 => i - 1 \in 1..k /\ g[i - 1] = f[i - 1]
      OBVIOUS
    <3>6. \A i \in 1..(k + 1) : g[i] = IF i = 1 THEN seqs[i] ELSE g[i - 1] \o seqs[i]
      <4> SUFFICES ASSUME NEW i \in 1..(k + 1) 
                   PROVE g[i] = IF i = 1 THEN seqs[i] ELSE g[i - 1] \o seqs[i]
        OBVIOUS
      <4>1. CASE i = k + 1
        <5>0. g[i] = f[k] \o seqs[i]
          BY <4>1, Zenon
        <5>1. i - 1 = k /\ i # 1
          BY <4>1, <2>2
        <5>2. g[i - 1] = f[k]
          BY <3>5, <5>1
        <5> QED BY ONLY <5>0, <5>1, <5>2
      <4>2. CASE i # k + 1
        <5>1. i \in 1..k /\ i \in 1..(k + 1) /\ g[i] = f[i]
          BY <4>2
        <5>2. f[i] = IF i = 1 THEN seqs[i] ELSE f[i - 1] \o seqs[i]
          BY ONLY <5>1, <3>1
        <5>3. i # 1 => g[i - 1] = f[i - 1]
          BY ONLY <5>1, <3>5
        <5> QED BY ONLY <5>1, <5>2, <5>3
      <4> QED BY <4>1, <4>2
    <3> HIDE DEF g
    <3> QED BY ONLY <3>4, <3>6, Zenon DEF Upto
  <2> QED BY <2>1, <2>2
<1>3. T = Nat
  <2>1. T \in SUBSET Nat /\ 0 \in T
    OBVIOUS
  <2> HIDE DEF T
  <2> QED BY ONLY <1>2, <2>1, SetInduction
<1>4. Upto(Len(seqs))
  <2>1. Len(seqs) \in 1..Len(seqs) /\ Len(seqs) \in Nat
    OBVIOUS
  <2> HIDE DEF Upto
  <2> QED BY <1>3, <2>1
<1>5. PICK f \in [1..Len(seqs) -> Seq(S)] : \A i \in 1..Len(seqs) : 
                  f[i] = IF i = 1 THEN seqs[i] ELSE f[i - 1] \o seqs[i]
  BY <1>4
<1>6. IsFlatten(f, seqs)
  BY ONLY <1>5 DEF IsFlatten
<1> QED BY <1>5, <1>6

LEMMA FlattenUnfold ==
  ASSUME NEW S, NEW seqs \in Seq(Seq(S)), seqs # <<>>
  PROVE  \E f : IsFlatten(f, seqs) /\ FlattenSeq(seqs) = f[Len(seqs)]
<1> DEFINE f == CHOOSE f : IsFlatten(f, seqs)
<1>1. IsFlatten(f, seqs)
  BY FlattenExists
<1>2. FlattenSeq(seqs) = f[Len(seqs)]
  BY DEF FlattenSeq, IsFlatten
<1> QED BY <1>1, <1>2

(* What is left of a flattened sequence after its first i members.         *)
IsRest(rest, seqs) ==
    /\ rest[0] = FlattenSeq(seqs) /\ rest[Len(seqs)] = <<>>
    /\ \A i \in 1..Len(seqs) : rest[i - 1] = seqs[i] \o rest[i]

LEMMA ConcatEmpty ==
  ASSUME NEW S, NEW s \in Seq(S)
  PROVE  /\ <<>> \in Seq(S) /\ s \o <<>> = s /\ <<>> \o s = s
  OBVIOUS

LEMMA RestExists ==
  ASSUME NEW S, NEW seqs \in Seq(Seq(S))
  PROVE  \E rest \in [0..Len(seqs) -> Seq(S)] : IsRest(rest, seqs)
<1>3. \A s, t, u \in Seq(S) : (s \o t) \o u = s \o (t \o u)
  BY ConcatAssociative
<1>1. CASE seqs = <<>>
  <2> DEFINE r == [i \in 0..0 |-> <<>>]
  <2>1. FlattenSeq(seqs) = <<>> /\ Len(seqs) = 0
    BY <1>1 DEF FlattenSeq
  <2>2. r \in [0..0 -> Seq(S)] /\ r[0] = <<>>
    OBVIOUS
  <2> HIDE DEF r
  <2> QED BY <2>1, <2>2 DEF IsRest
<1>2. CASE seqs # <<>>
  <2>1. PICK f : IsFlatten(f, seqs) /\ FlattenSeq(seqs) = f[Len(seqs)]
    BY <1>2, FlattenUnfold
  <2>2. \A i \in 1..Len(seqs) : f[i] = IF i = 1 THEN seqs[i] ELSE f[i - 1] \o seqs[i]
    BY <2>1 DEF IsFlatten
  <2>3. \A i \in 1..Len(seqs) : seqs[i] \in Seq(S)
    OBVIOUS
  <2> DEFINE Upto(k) == \E rest \in [0..k -> Seq(S)] :
                /\ rest[0] = f[k] /\ rest[k] = <<>>
                /\ \A i \in 1..k : rest[i - 1] = seqs[i] \o rest[i]
             T == {k \in Nat : k \in 1..Len(seqs) => Upto(k)}
  <2> HIDE DEF Upto
  <2>4. ASSUME NEW k \in Nat, k \in 1..Len(seqs) => Upto(k), k + 1 \in 1..Len(seqs)
        PROVE  Upto(k + 1)
    <3> DEFINE s == seqs[k + 1]
    <3>1. s \in Seq(S) /\ s \o <<>> = s /\ <<>> \o s = s /\ <<>> \in Seq(S)
      BY <2>3, <2>4, ConcatEmpty
    <3>2. CASE k = 0
      <4> DEFINE r == [i \in 0..1 |-> IF i = 0 THEN s ELSE <<>>]
      <4>1. r \in [0..1 -> Seq(S)] /\ r[0] = s /\ r[1] = <<>>
        BY <3>1
      <4>2. f[1] = s
        BY <2>2, <2>4, <3>2
      <4> HIDE DEF r
      <4>3. \A i \in 1..1 : r[i - 1] = seqs[i] \o r[i]
        BY <3>1, <3>2, <4>1
      <4>4. k + 1 = 1
        BY <3>2
      <4> HIDE DEF s
      <4>5. Upto(1)
        BY ONLY <4>1, <4>2, <4>3 DEF Upto
      <4> QED BY ONLY <4>4, <4>5
    <3>3. CASE k # 0
      <4>1. k \in 1..Len(seqs)
        BY <2>4, <3>3
      <4>2. Upto(k)
        BY <2>4, <4>1
      <4>3. PICK rest \in [0..k -> Seq(S)] :
                /\ rest[0] = f[k] /\ rest[k] = <<>>
                /\ \A i \in 1..k : rest[i - 1] = seqs[i] \o rest[i]
        BY ONLY <4>2 DEF Upto
      <4> DEFINE r == [i \in 0..(k + 1) |-> IF i = k + 1 THEN <<>> ELSE rest[i] \o s]
      <4>4. \A i \in 0..(k + 1) : i # k + 1 => i \in 0..k
        OBVIOUS
      <4>5. \A i \in 0..k : rest[i] \in Seq(S)
        OBVIOUS
      <4>6. \A i \in 0..k : rest[i] \o s \in Seq(S)
        BY <3>1, <4>5, ConcatSeq
      <4>7. r \in [0..(k + 1) -> Seq(S)]
        BY <3>1, <4>4, <4>6
      <4>8. r[k + 1] = <<>> /\ \A i \in 0..k : r[i] = rest[i] \o s
        OBVIOUS
      <4> HIDE DEF r, s
      <4>9. f[k + 1] = rest[0] \o s
        <5>1. k + 1 # 1 /\ (k + 1) - 1 = k
          BY <3>3
        <5>2. f[k + 1] = f[(k + 1) - 1] \o s
          BY <2>2, <2>4, <5>1 DEF s
        <5> QED BY ONLY <4>3, <5>1, <5>2
      <4>10. r[0] = f[k + 1]
        BY <4>8, <4>9
      <4>11. \A i \in 1..(k + 1) : r[i - 1] = seqs[i] \o r[i]
        <5> SUFFICES ASSUME NEW i \in 1..(k + 1) PROVE r[i - 1] = seqs[i] \o r[i]
          OBVIOUS
        <5>1. i - 1 \in 0..k /\ r[i - 1] = rest[i - 1] \o s
          BY <4>8
        <5>2. CASE i = k + 1
          <6>1. rest[i - 1] = <<>> /\ seqs[i] = s
            BY <4>3, <5>2 DEF s
          <6> QED BY <3>1, <4>8, <5>1, <5>2, <6>1
        <5>3. CASE i # k + 1
          <6>1. i \in 1..k /\ i \in 0..k /\ i \in 1..Len(seqs)
            BY <2>4, <5>3
          <6>2. rest[i - 1] = seqs[i] \o rest[i] /\ r[i] = rest[i] \o s
            BY <4>3, <4>8, <6>1
          <6>3. seqs[i] \in Seq(S) /\ rest[i] \in Seq(S)
            BY <2>3, <4>5, <6>1
          <6>4. (seqs[i] \o rest[i]) \o s = seqs[i] \o (rest[i] \o s)
            <7>1. s \in Seq(S)
              BY <3>1
            <7> QED BY ONLY <6>3, <7>1, <1>3
          <6> QED BY ONLY <5>1, <6>2, <6>4
        <5> QED BY <5>2, <5>3
      <4> QED BY ONLY <4>7, <4>8, <4>10, <4>11 DEF Upto
    <3> QED BY <3>2, <3>3
  <2>5. \A k \in Nat : k \in T => k + 1 \in T
    <3> SUFFICES ASSUME NEW k \in Nat, k \in T PROVE k + 1 \in T
      OBVIOUS
    <3>1. k \in 1..Len(seqs) => Upto(k)
      OBVIOUS
    <3>2. k + 1 \in 1..Len(seqs) => Upto(k + 1)
      BY <2>4, <3>1
    <3>3. k + 1 \in Nat
      OBVIOUS
    <3> QED BY ONLY <3>2, <3>3 DEF T
  <2>6. T = Nat
    <3>1. T \in SUBSET Nat /\ 0 \in T
      OBVIOUS
    <3> HIDE DEF T
    <3> QED BY ONLY <2>5, <3>1, SetInduction
  <2>7. Len(seqs) \in Nat /\ Len(seqs) \in 1..Len(seqs)
    BY <1>2
  <2>8. Upto(Len(seqs))
    BY <2>6, <2>7
  <2> QED BY ONLY <2>1, <2>8 DEF Upto, IsRest
<1> QED BY <1>1, <1>2

----------------------------------------------------------------------------
(* Texts and requests.                                                     *)

(* The cells texts are made of.                                            *)
Cell == Lines \cup {"junk", "sep", "body"}

LEMMA TextIsSeq == Text = Seq(Cell) /\ <<>> \in Text
  BY DEF Text, Cell

LEMMA RequestShape ==
  ASSUME NEW r \in Request
  PROVE  /\ r \in Text /\ Len(r) \in Nat /\ Len(r) >= 2
         /\ r[1] # "sep" /\ r[2] = "sep"
         /\ r[1] \in Lines \/ r[1] = "junk"
         /\ r[1] = "junk" => r[1] \notin Lines
         /\ r[1] \in DOMAIN ContentLength => Len(r) = 2 + ContentLength[r[1]]
         /\ r[1] \notin DOMAIN ContentLength => Len(r) = 2
<1>1. /\ DOMAIN ContentLength = {"post", "missing", "elsewhere"}
      /\ ContentLength["post"] = 0 /\ ContentLength["missing"] = 1
      /\ ContentLength["elsewhere"] = 2
  BY DEF ContentLength
<1>2. Lines = {"get", "locked", "hostless", "post", "missing", "elsewhere"}
  BY <1>1 DEF Lines
<1>3. /\ "sep" \in Cell /\ "body" \in Cell /\ "junk" \in Cell /\ "missing" \in Cell
      /\ "elsewhere" \in Cell /\ "get" \in Cell /\ "locked" \in Cell /\ "hostless" \in Cell
      /\ "post" \in Cell
  BY <1>2 DEF Cell
<1>4. CASE \E x \in {"get", "locked", "hostless", "junk", "post"} : r = <<x, "sep">>
  <2>1. PICK x \in {"get", "locked", "hostless", "junk", "post"} : r = <<x, "sep">>
    BY <1>4
  <2>2. x \in Cell
    BY <1>3
  <2>3. r \in Seq(Cell) /\ Len(r) = 2 /\ r[1] = x /\ r[2] = "sep"
    BY ONLY <1>3, <2>1, <2>2
  <2> QED BY <1>1, <1>2, <2>3, TextIsSeq
<1>5. CASE r = <<"missing", "sep", "body">>
  <2>1. r \in Seq(Cell) /\ Len(r) = 3 /\ r[1] = "missing" /\ r[2] = "sep"
    BY ONLY <1>3, <1>5
  <2> QED BY <1>1, <1>2, <2>1, TextIsSeq
<1>6. CASE r = <<"elsewhere", "sep", "body", "body">>
  <2>1. r \in Seq(Cell) /\ Len(r) = 4 /\ r[1] = "elsewhere" /\ r[2] = "sep"
    BY ONLY <1>3, <1>6
  <2> QED BY <1>1, <1>2, <2>1, TextIsSeq
<1> QED BY <1>4, <1>5, <1>6 DEF Request

(* The first empty line, if there is one.                                  *)
LEMMA SepAtFirst ==
  ASSUME NEW buf \in Text
  PROVE  /\ SepAt(buf) \in 0..Len(buf)
         /\ SepAt(buf) = 0 => \A i \in DOMAIN buf : buf[i] # "sep"
         /\ SepAt(buf) # 0 => /\ SepAt(buf) \in DOMAIN buf /\ buf[SepAt(buf)] = "sep"
                              /\ \A j \in 1..(SepAt(buf) - 1) : buf[j] # "sep"
<1>1. DOMAIN buf = 1..Len(buf) /\ Len(buf) \in Nat
  BY TextIsSeq
<1>2. CASE \E i \in DOMAIN buf : buf[i] = "sep"
  <2> DEFINE T == {i \in DOMAIN buf : buf[i] = "sep"}
  <2>1. PICK m \in T : \A k \in T : m <= k
    <3>1. T \in SUBSET Nat /\ T # {}
      BY <1>1, <1>2
    <3> HIDE DEF T
    <3> QED BY <3>1, NatMin
  <2>2. m \in DOMAIN buf /\ buf[m] = "sep" /\ \A j \in 1..(m - 1) : buf[j] # "sep"
    BY <1>1, <2>1
  <2>3. SepAt(buf) = CHOOSE i \in DOMAIN buf :
            buf[i] = "sep" /\ \A j \in 1..(i - 1) : buf[j] # "sep"
    BY <1>2 DEF SepAt
  <2>4. /\ SepAt(buf) \in DOMAIN buf /\ buf[SepAt(buf)] = "sep"
        /\ \A j \in 1..(SepAt(buf) - 1) : buf[j] # "sep"
    BY ONLY <2>2, <2>3, Zenon
  <2> QED BY ONLY <1>1, <2>4
<1>3. CASE ~\E i \in DOMAIN buf : buf[i] = "sep"
  BY <1>1, <1>3 DEF SepAt
<1> QED BY <1>2, <1>3

LEMMA MessageLengthNat ==
  ASSUME NEW buf \in Text, length \in Nat
  PROVE  MessageLength(buf) \in Nat
  BY SepAtFirst DEF MessageLength, HasLength, ContentLength

(* Two ways to cut one text: what has arrived and what is on its way, and  *)
(* a request and what follows it.                                          *)
LEMMA Overlap ==
  ASSUME NEW S, NEW b \in Seq(S), NEW w \in Seq(S), NEW r \in Seq(S), NEW t \in Seq(S),
         b \o w = r \o t
  PROVE  /\ \A i \in 1..Len(b) : i <= Len(r) => b[i] = r[i]
         /\ Len(b) >= Len(r) => /\ SubSeq(b, 1, Len(r)) = r
                                /\ SubSeq(b, Len(r) + 1, Len(b)) \o w = t
<1> DEFINE c == b \o w
           d == r \o t
<1>1. /\ Len(b) \in Nat /\ Len(w) \in Nat /\ Len(r) \in Nat /\ Len(t) \in Nat
      /\ Len(c) = Len(b) + Len(w)
      /\ \A i \in 1..(Len(b) + Len(w)) : c[i] = IF i <= Len(b) THEN b[i] ELSE w[i - Len(b)]
      /\ Len(d) = Len(r) + Len(t)
      /\ \A i \in 1..(Len(r) + Len(t)) : d[i] = IF i <= Len(r) THEN r[i] ELSE t[i - Len(r)]
  BY ConcatProperties, LenProperties
<1>2. c = d
  OBVIOUS
<1> HIDE DEF c, d
<1>3. Len(b) + Len(w) = Len(r) + Len(t)
  BY ONLY <1>1, <1>2
<1>4. \A i \in 1..Len(b) : i <= Len(r) => b[i] = r[i]
  <2> SUFFICES ASSUME NEW i \in 1..Len(b), i <= Len(r) PROVE b[i] = r[i]
    OBVIOUS
  <2>1. c[i] = b[i] /\ d[i] = r[i]
    BY <1>1
  <2> QED BY <1>2, <2>1
<1>5. ASSUME Len(b) >= Len(r) PROVE SubSeq(b, 1, Len(r)) = r
  <2>1. /\ SubSeq(b, 1, Len(r)) \in Seq(S) /\ Len(SubSeq(b, 1, Len(r))) = Len(r)
        /\ \A i \in 1..Len(r) : SubSeq(b, 1, Len(r))[i] = b[i]
    BY <1>1, <1>5
  <2>2. \A i \in 1..Len(r) : SubSeq(b, 1, Len(r))[i] = r[i]
    BY <1>1, <1>4, <1>5, <2>1
  <2> QED BY <2>1, <2>2, SeqEqual
<1>6. ASSUME Len(b) >= Len(r) PROVE SubSeq(b, Len(r) + 1, Len(b)) \o w = t
  <2> DEFINE e == SubSeq(b, Len(r) + 1, Len(b))
             f == e \o w
  <2>1. /\ e \in Seq(S) /\ Len(e) = Len(b) - Len(r)
        /\ \A i \in 1..(Len(b) - Len(r)) : e[i] = b[Len(r) + i]
    BY <1>1, <1>6
  <2> HIDE DEF e
  <2>2. /\ f \in Seq(S) /\ Len(f) = Len(e) + Len(w)
        /\ \A i \in 1..(Len(e) + Len(w)) : f[i] = IF i <= Len(e) THEN e[i] ELSE w[i - Len(e)]
    BY <2>1, ConcatProperties
  <2> HIDE DEF f
  <2>3. Len(f) = Len(t)
    BY ONLY <1>1, <1>3, <2>1, <2>2
  <2>4. \A i \in 1..Len(t) : f[i] = t[i]
    <3> SUFFICES ASSUME NEW i \in 1..Len(t) PROVE f[i] = t[i]
      OBVIOUS
    <3> DEFINE k == Len(r) + i
    <3>0. /\ k \in 1..(Len(r) + Len(t)) /\ k \in 1..(Len(b) + Len(w)) /\ k \in Nat
          /\ ~(k <= Len(r)) /\ k - Len(r) = i
      BY <1>1, <1>3
    <3> HIDE DEF k
    <3>1. d[k] = t[i]
      BY ONLY <1>1, <3>0
    <3>2. c[k] = f[i]
      <4>1. CASE i <= Len(e)
        <5>1. i \in 1..Len(e) /\ k <= Len(b) /\ i \in 1..(Len(e) + Len(w))
          BY <1>1, <2>1, <4>1 DEF k
        <5>2. f[i] = e[i] /\ e[i] = b[k]
          BY <2>1, <2>2, <4>1, <5>1 DEF k
        <5>3. c[k] = b[k]
          BY <1>1, <3>0, <5>1
        <5> QED BY <5>2, <5>3
      <4>2. CASE i > Len(e)
        <5>1. /\ i \in 1..(Len(e) + Len(w)) /\ ~(i <= Len(e)) /\ ~(k <= Len(b))
              /\ k - Len(b) = i - Len(e)
          BY <1>1, <1>3, <2>1, <4>2 DEF k
        <5>2. f[i] = w[i - Len(e)]
          BY <2>2, <5>1
        <5>3. c[k] = w[k - Len(b)]
          BY ONLY <1>1, <3>0, <5>1
        <5> QED BY <5>1, <5>2, <5>3
      <4> QED BY <1>1, <2>1, <4>1, <4>2
    <3> QED BY <1>2, <3>1, <3>2
  <2> QED BY <2>2, <2>3, <2>4, SeqEqual DEF f, e
<1> QED BY <1>4, <1>5, <1>6

(* What the decoder sees in a buffer that holds part of a request, or more.*)
LEMMA Scan ==
  ASSUME NEW buf \in Text, NEW r \in Request,
         \A i \in 1..Len(buf) : i <= Len(r) => buf[i] = r[i]
  PROVE  /\ Len(buf) < 2 => SepAt(buf) = 0
         /\ Len(buf) >= 2 => /\ SepAt(buf) = 2
                             /\ Parsed(buf) <=> r[1] # "junk"
                             /\ HasLength(buf) <=> r[1] \in DOMAIN ContentLength
                             /\ buf[1] = r[1]
<1>1. DOMAIN buf = 1..Len(buf) /\ Len(buf) \in Nat
  BY TextIsSeq
<1>2. CASE Len(buf) < 2
  <2>1. \A i \in DOMAIN buf : buf[i] # "sep"
    BY <1>1, <1>2, RequestShape
  <2> QED BY <1>2, <1>1, <2>1 DEF SepAt
<1>3. CASE Len(buf) >= 2
  <2>1. buf[1] = r[1] /\ buf[2] = "sep" /\ buf[1] # "sep" /\ 2 \in DOMAIN buf /\ 1 \in DOMAIN buf
    BY <1>1, <1>3, RequestShape
  <2>2. SepAt(buf) = 2
    BY <1>1, <2>1, SepAtFirst
  <2> QED BY <1>3, <1>1, <2>1, <2>2, RequestShape DEF Parsed, HasLength
<1> QED BY <1>1, <1>2, <1>3

----------------------------------------------------------------------------
(* Types.                                                                  *)

(* What is left of the requests of a connection after the first k.         *)
Requests(c) == plan.requests[c]

Rest(c) == CHOOSE rest \in [0..Len(Requests(c)) -> Text] : IsRest(rest, Requests(c))

LEMMA RequestsType ==
  ASSUME NEW c \in Used, plan \in Plans
  PROVE  /\ Requests(c) \in Seq(Request) /\ c \in Conns
         /\ Len(Requests(c)) \in Nat
         /\ DOMAIN Requests(c) = 1..Len(Requests(c))
         /\ \A i \in 1..Len(Requests(c)) : Requests(c)[i] \in Request
         /\ Rest(c) \in [0..Len(Requests(c)) -> Text] /\ IsRest(Rest(c), Requests(c))
         /\ FlattenSeq(Requests(c)) \in Text
<1>1. Requests(c) \in Seq(Request) /\ c \in Conns
  BY HttpAssumption DEF Used, Requests
<1>2. /\ Len(Requests(c)) \in Nat /\ DOMAIN Requests(c) = 1..Len(Requests(c))
      /\ \A i \in 1..Len(Requests(c)) : Requests(c)[i] \in Request
  BY <1>1, LenProperties
<1>3. Requests(c) \in Seq(Seq(Cell))
  <2>1. Request \subseteq Seq(Cell)
    BY RequestShape, TextIsSeq
  <2> QED BY <1>1, <2>1, SeqMonotonic
<1>4. \E rest \in [0..Len(Requests(c)) -> Text] : IsRest(rest, Requests(c))
  BY <1>3, RestExists, TextIsSeq
<1>5. Rest(c) \in [0..Len(Requests(c)) -> Text] /\ IsRest(Rest(c), Requests(c))
  BY ONLY <1>4, Zenon DEF Rest
<1>6. FlattenSeq(Requests(c)) \in Text
  BY <1>2, <1>5 DEF IsRest
<1> QED
  BY ONLY <1>1, <1>2, <1>5, <1>6

LEMMA SubText ==
  ASSUME NEW s \in Text, NEW n \in Nat \ {0}
  PROVE  SubSeq(s, n, Len(s)) \in Text /\ (n <= Len(s) => SubSeq(s, 1, n) \in Text)
  BY TextIsSeq

LEMMA ConcatText ==
  ASSUME NEW s \in Text, NEW t \in Text
  PROVE  s \o t \in Text
  BY TextIsSeq, ConcatSeq

LEMMA TypeInit == Init => TypeOK
<1> SUFFICES ASSUME Init PROVE TypeOK
  OBVIOUS
<1>1. plan \in Plans
  BY DEF Init
<1>2. wire \in [Conns -> Text]
  BY <1>1, RequestsType, TextIsSeq DEF Init, Requests
<1>3. <<>> \in Seq(Answer) /\ <<>> \in Seq(Text) /\ <<>> \in Text
      /\ <<>> \in Seq([answer : Answer, open : BOOLEAN])
  BY TextIsSeq
<1>4. gone \subseteq Conns /\ tracking \subseteq Conns
  BY <1>1, RequestsType DEF Init
<1> HIDE DEF Init
<1> QED
  BY <1>1, <1>2, <1>3, <1>4 DEF Init, TypeOK

LEMMA TypeRead ==
  ASSUME TypeOK, NEW c \in Conns, ReadHandler(c)
  PROVE  wire' \in [Conns -> Text] /\ buffer' \in [Conns -> Text]
<1>1. PICK n \in 1..Len(wire[c]) :
          /\ buffer' = [buffer EXCEPT ![c] = @ \o SubSeq(wire[c], 1, n)]
          /\ wire' = [wire EXCEPT ![c] = SubSeq(@, n + 1, Len(@))]
  BY DEF ReadHandler
<1>2. wire[c] \in Text /\ buffer[c] \in Text
  BY DEF TypeOK
<1>3. n \in Nat \ {0} /\ n + 1 \in Nat \ {0} /\ n <= Len(wire[c])
  BY <1>2, TextIsSeq
<1>4. SubSeq(wire[c], 1, n) \in Text /\ SubSeq(wire[c], n + 1, Len(wire[c])) \in Text
  BY <1>2, <1>3, SubText
<1>5. buffer[c] \o SubSeq(wire[c], 1, n) \in Text
  BY <1>2, <1>4, ConcatText
<1> QED
  BY <1>1, <1>4, <1>5 DEF TypeOK

LEMMA TypeDecode ==
  ASSUME TypeOK, NEW c \in Conns, Decode(c)
  PROVE  /\ buffer' \in [Conns -> Text] /\ given' \in [Conns -> Seq(Text)]
         /\ length' \in Nat /\ lastSize' \in Nat
         /\ updated' \in [Conns -> BOOLEAN] /\ at' \in Conns \cup {NoConn}
<1>1. /\ buffer[c] \in Text /\ given[c] \in Seq(Text) /\ length \in Nat /\ lastSize \in Nat
      /\ Len(buffer[c]) \in Nat /\ updated \in [Conns -> BOOLEAN]
      /\ buffer \in [Conns -> Text] /\ given \in [Conns -> Seq(Text)]
      /\ at \in Conns \cup {NoConn} /\ MessageLength(buffer[c]) \in Nat
  <2>1. buffer[c] \in Text /\ length \in Nat
    BY DEF TypeOK
  <2>2. MessageLength(buffer[c]) \in Nat
    BY <2>1, MessageLengthNat
  <2> QED BY <2>1, <2>2, TextIsSeq DEF TypeOK
<1>2. CASE TakeMessage(c)
  <2> DEFINE n == MessageLength(buffer[c])
             text == SubSeq(buffer[c], 1, n)
  <2>1. /\ buffer' = [buffer EXCEPT ![c] = SubSeq(@, n + 1, Len(@))]
        /\ given' = [given EXCEPT ![c] = Append(@, text)]
        /\ length' = 0 /\ lastSize' = 0 /\ UNCHANGED updated /\ n \in 1..Len(buffer[c])
        /\ at' \in {at, NoConn}
    BY <1>2 DEF TakeMessage, FinishDecode, Found, ArrivedHandler, ErrorHandler
  <2> HIDE DEF n
  <2>2. n \in Nat \ {0} /\ n + 1 \in Nat \ {0} /\ n <= Len(buffer[c])
    BY <1>1, <2>1
  <2>3. text \in Text /\ SubSeq(buffer[c], n + 1, Len(buffer[c])) \in Text
    BY <1>1, <2>2, SubText
  <2> HIDE DEF text
  <2>4. Append(given[c], text) \in Seq(Text)
    BY <1>1, <2>3, AppendType
  <2> QED BY <1>1, <2>1, <2>3, <2>4
<1>3. CASE Refuse(c)
  BY <1>1, <1>3 DEF Refuse, ErrorHandler, inVars
<1>4. CASE FindNothing(c)
  BY <1>1, <1>4 DEF FindNothing
<1> QED BY <1>2, <1>3, <1>4 DEF Decode

LEMMA TypeNext ==
  ASSUME TypeOK, Typed', [Next]_vars
  PROVE  TypeOK'
<1> USE DEF netVars, decoderVars, inVars, outVars, sessionVars
<1>1. /\ queue' \in [Conns -> Seq(Answer)]
      /\ writing' \in [Conns -> Seq([answer : Answer, open : BOOLEAN])]
      /\ sent' \in [Conns -> Nat]
      /\ failed' \subseteq Conns /\ closed' \subseteq Conns /\ tracking' \subseteq Conns
  BY DEF Typed
<1>2. ASSUME NEW c \in Conns, ReadHandler(c) PROVE TypeOK'
  BY <1>1, <1>2, TypeRead DEF ReadHandler, TypeOK
<1>3. ASSUME NEW c \in Conns, ReadFailed(c) \/ PeerLeaves(c) \/ TimePasses(c) \/ WriteFailed(c)
      PROVE  TypeOK'
  BY <1>1, <1>3 DEF ReadFailed, PeerLeaves, TimePasses, WriteFailed, TypeOK
<1>4. ASSUME NEW c \in Conns, WriteCompleted(c) PROVE TypeOK'
  <2>1. Head(writing[c]) \in [answer : Answer, open : BOOLEAN] /\ answers[c] \in Seq(Answer)
    <3>1. /\ writing[c] \in Seq([answer : Answer, open : BOOLEAN]) /\ writing[c] # <<>>
          /\ answers[c] \in Seq(Answer)
      BY <1>4 DEF TypeOK, WriteCompleted
    <3> QED BY ONLY <3>1, HeadTailProperties
  <2>2. Append(answers[c], Head(writing[c]).answer) \in Seq(Answer)
    BY <2>1, AppendType
  <2> QED BY <1>1, <1>4, <2>2 DEF WriteCompleted, TypeOK
<1>5. ASSUME NEW c \in Conns, BeginPass(c) PROVE TypeOK'
  BY <1>1, <1>5 DEF BeginPass, TypeOK
<1>6. ASSUME NEW c \in Conns, Decode(c) PROVE TypeOK'
  <2>1. UNCHANGED <<plan, wire, link, read, gone, elapsed, answers>>
    BY <1>6 DEF Decode
  <2> QED BY <1>1, <1>6, <2>1, TypeDecode DEF TypeOK
<1>7. ASSUME NEW c \in Conns, FinishPass(c) PROVE TypeOK'
  <2>1. /\ gone' \in {gone, gone \cup {c}} /\ at' = NoConn
        /\ UNCHANGED <<plan, wire, link, read, decoderVars, inVars, elapsed, given, answers>>
    BY <1>7 DEF FinishPass
  <2> QED BY <1>1, <2>1 DEF TypeOK
<1>8. CASE UNCHANGED vars
  BY <1>1, <1>8 DEF vars, TypeOK
<1> QED
  BY <1>2, <1>3, <1>4, <1>5, <1>6, <1>7, <1>8 DEF Next, Handler

(* Every variable has its type.  For the length the decoder has learned and*)
(* the texts it has cut that needs that there is a first empty line, and   *)
(* that the requests of a connection make one text.                        *)
THEOREM TypeCorrect == Spec => []TypeOK
<1>1. Typed /\ NotForgotten /\ TypeOK /\ [Next]_vars => TypeOK'
  BY TypedNext, TypeNext
<1> QED
  BY <1>1, TypeInit, TypedAlways, PTL DEF Spec

----------------------------------------------------------------------------
(* The requests arrive as they were sent.                                  *)

(* The request whose turn it is.                                           *)
Current(c) == Requests(c)[Len(given[c]) + 1]

(* The decoder is one object for all connections.  What it has learned of  *)
(* one is safe from the others when no text arrives in parts, or when only *)
(* one connection sends.                                                   *)
OneTalks == plan.atOnce \/ \E c \in Conns : Used \subseteq {c}

(* What the session was given, what is in the buffer and what is on its    *)
(* way make up the requests of the connection; the length the decoder has  *)
(* learned is that of the request whose turn it is.                        *)
Received(c) ==
    /\ Len(given[c]) <= Len(Requests(c))
    /\ \A i \in 1..Len(given[c]) : given[c][i] = Requests(c)[i]
    /\ buffer[c] \o wire[c] = Rest(c)[Len(given[c])]
    /\ plan.atOnce => buffer[c] = <<>> \/ wire[c] = <<>>
    /\ length > 0 =>
          /\ ~plan.atOnce
          /\ Len(given[c]) < Len(Requests(c))
          /\ length = Len(Current(c)) /\ Current(c)[1] # "junk"

TextInv ==
    /\ TypeOK
    /\ OneTalks
    /\ at \in Used \cup {NoConn} /\ Conns \ Used \subseteq gone
    /\ \A c \in Used : Received(c)

LEMMA RestStep ==
  ASSUME TypeOK, NEW c \in Used, NEW k \in 0..Len(Requests(c))
  PROVE  /\ Rest(c)[k] \in Text
         /\ k < Len(Requests(c)) => /\ k + 1 \in 0..Len(Requests(c))
                                    /\ k + 1 \in DOMAIN Requests(c)
                                    /\ Requests(c)[k + 1] \in Request
                                    /\ Rest(c)[k] = Requests(c)[k + 1] \o Rest(c)[k + 1]
         /\ k = Len(Requests(c)) => Rest(c)[k] = <<>>
<1>1. /\ Len(Requests(c)) \in Nat
      /\ DOMAIN Requests(c) = 1..Len(Requests(c))
      /\ \A i \in 1..Len(Requests(c)) : Requests(c)[i] \in Request
      /\ Rest(c) \in [0..Len(Requests(c)) -> Text]
      /\ Rest(c)[Len(Requests(c))] = <<>>
      /\ \A i \in 1..Len(Requests(c)) : Rest(c)[i - 1] = Requests(c)[i] \o Rest(c)[i]
  BY RequestsType DEF TypeOK, IsRest
<1>2. k < Len(Requests(c)) => k + 1 \in 1..Len(Requests(c)) /\ (k + 1) - 1 = k
  BY <1>1
<1>3. ASSUME k < Len(Requests(c))
      PROVE  /\ Requests(c)[k + 1] \in Request
             /\ Rest(c)[k] = Requests(c)[k + 1] \o Rest(c)[k + 1]
  <2>1. Rest(c)[(k + 1) - 1] = Requests(c)[k + 1] \o Rest(c)[k + 1]
    BY ONLY <1>1, <1>2, <1>3
  <2> QED BY ONLY <1>1, <1>2, <1>3, <2>1
<1>4. Rest(c)[k] \in Text
  BY <1>1
<1>5. k < Len(Requests(c)) => k + 1 \in 0..Len(Requests(c)) /\ k + 1 \in DOMAIN Requests(c)
  BY <1>1
<1>6. k = Len(Requests(c)) => Rest(c)[k] = <<>>
  BY <1>1
<1> QED
  BY ONLY <1>3, <1>4, <1>5, <1>6

LEMMA TextInit == Init /\ OneTalks => TextInv
<1> SUFFICES ASSUME Init, OneTalks PROVE TextInv
  OBVIOUS
<1>1. TypeOK
  BY TypeInit
<1>2. ASSUME NEW c \in Used PROVE Received(c)
  <2>1. /\ c \in Conns /\ FlattenSeq(Requests(c)) \in Text /\ IsRest(Rest(c), Requests(c))
        /\ Len(Requests(c)) \in Nat
    BY <1>1, RequestsType DEF TypeOK
  <2>2. /\ given[c] = <<>> /\ buffer[c] = <<>> /\ wire[c] = FlattenSeq(Requests(c))
        /\ length = 0 /\ Len(given[c]) = 0
    BY <2>1 DEF Init, Requests
  <2>3. buffer[c] \o wire[c] = wire[c]
    BY <2>1, <2>2, ConcatEmpty, TextIsSeq
  <2> QED BY <2>1, <2>2, <2>3 DEF Received, IsRest
<1> QED
  BY <1>1, <1>2 DEF TextInv, Init

LEMMA SplitText ==
  ASSUME NEW b \in Text, NEW w \in Text, NEW n \in 1..Len(w)
  PROVE  (b \o SubSeq(w, 1, n)) \o SubSeq(w, n + 1, Len(w)) = b \o w
<1> DEFINE u == SubSeq(w, 1, n)
           v == SubSeq(w, n + 1, Len(w))
<1>1. Len(w) \in Nat /\ n \in Nat \ {0} /\ n + 1 \in Nat \ {0} /\ n <= Len(w)
  BY TextIsSeq
<1>2. u \in Text /\ v \in Text
  BY <1>1, SubText
<1>3. u \o v = w
  <2>1. w \in Seq(Cell)
    BY TextIsSeq
  <2>2. u \in Seq(Cell) /\ v \in Seq(Cell)
    BY <1>2, TextIsSeq
  <2>3. Len(u) = n /\ Len(v) = Len(w) - n
    BY <1>1, <2>1
  <2>4. /\ \A i \in 1..n : u[i] = w[i]
        /\ \A i \in 1..(Len(w) - n) : v[i] = w[n + i]
    BY <1>1, <2>1
  <2> HIDE DEF u, v
  <2> DEFINE x == u \o v
  <2>5. /\ x \in Seq(Cell) /\ Len(x) = Len(u) + Len(v)
        /\ \A i \in 1..(Len(u) + Len(v)) : x[i] = IF i <= Len(u) THEN u[i] ELSE v[i - Len(u)]
    BY <2>2, ConcatProperties
  <2> HIDE DEF x
  <2>6. Len(x) = Len(w)
    BY <1>1, <2>3, <2>5
  <2>7. \A i \in 1..Len(x) : x[i] = w[i]
    <3> SUFFICES ASSUME NEW i \in 1..Len(x) PROVE x[i] = w[i]
      OBVIOUS
    <3>1. CASE i <= n
      BY <1>1, <2>3, <2>4, <2>5, <3>1
    <3>2. CASE i > n
      <4>1. i - n \in 1..(Len(w) - n) /\ n + (i - n) = i
        BY <1>1, <2>6, <3>2
      <4>2. x[i] = v[i - n]
        BY <1>1, <2>3, <2>5, <3>2
      <4>3. v[i - n] = w[n + (i - n)]
        BY ONLY <2>4, <4>1
      <4> QED BY ONLY <4>1, <4>2, <4>3
    <3> QED BY <1>1, <2>6, <3>1, <3>2
  <2>8. x = w
    BY ONLY <2>1, <2>5, <2>6, <2>7, SeqEqual
  <2> QED BY <2>8 DEF x
<1> HIDE DEF u, v
<1>4. \A s, t, z \in Seq(Cell) : (s \o t) \o z = s \o (t \o z)
  BY ConcatAssociative
<1>5. (b \o u) \o v = b \o (u \o v)
  BY <1>2, <1>4, TextIsSeq
<1>6. (b \o u) \o v = b \o w
  BY ONLY <1>3, <1>5
<1> QED BY <1>6 DEF u, v

(* What a step leaves of Received when it does not touch a connection.     *)
LEMMA ReceivedSame ==
  ASSUME NEW c, Received(c), plan' = plan, given'[c] = given[c],
         buffer'[c] \o wire'[c] = buffer[c] \o wire[c],
         plan.atOnce => buffer'[c] = <<>> \/ wire'[c] = <<>>,
         length' \in {0, length}
  PROVE  Received(c)'
<1>1. Requests(c)' = Requests(c) /\ Rest(c)' = Rest(c)
  BY DEF Requests, Rest
<1>2. Current(c)' = Current(c)
  BY <1>1 DEF Current
<1> QED
  BY <1>1, <1>2 DEF Received

LEMMA TextRead ==
  ASSUME TextInv, NEW c \in Conns, ReadHandler(c), NEW d \in Used
  PROVE  Received(d)'
<1>1. PICK n \in 1..Len(wire[c]) :
          /\ plan.atOnce => n = Len(wire[c])
          /\ buffer' = [buffer EXCEPT ![c] = @ \o SubSeq(wire[c], 1, n)]
          /\ wire' = [wire EXCEPT ![c] = SubSeq(@, n + 1, Len(@))]
  BY DEF ReadHandler
<1>2. UNCHANGED <<plan, given, length>>
  BY DEF ReadHandler, decoderVars
<1>3. Received(d) /\ wire \in [Conns -> Text] /\ buffer \in [Conns -> Text] /\ d \in Conns
  BY RequestsType DEF TextInv, TypeOK
<1>4. CASE d # c
  <2>1. buffer'[d] = buffer[d] /\ wire'[d] = wire[d]
    BY <1>1, <1>3, <1>4
  <2> QED BY <1>2, <1>3, <2>1, ReceivedSame DEF Received
<1>5. CASE d = c
  <2>1. buffer'[c] = buffer[c] \o SubSeq(wire[c], 1, n)
        /\ wire'[c] = SubSeq(wire[c], n + 1, Len(wire[c]))
    BY <1>1, <1>3
  <2>2. buffer'[c] \o wire'[c] = buffer[c] \o wire[c]
    BY <1>3, <2>1, SplitText
  <2>3. plan.atOnce => wire'[c] = <<>>
    <3>1. Len(wire[c]) \in Nat
      BY <1>3, TextIsSeq
    <3> QED BY <1>1, <2>1, <3>1, SubSeqEmpty
  <2> QED BY <1>2, <1>3, <1>5, <2>2, <2>3, ReceivedSame
<1> QED BY <1>4, <1>5

(* What the decoder finds in a buffer that is not empty.                   *)
LEMMA Look ==
  ASSUME TextInv, NEW c \in Used, buffer[c] # <<>>
  PROVE  /\ buffer[c] \in Text /\ wire[c] \in Text /\ length \in Nat
         /\ Len(given[c]) < Len(Requests(c)) /\ Len(given[c]) \in Nat
         /\ Len(given[c]) + 1 \in 0..Len(Requests(c))
         /\ Len(given[c]) + 1 \in DOMAIN Requests(c)
         /\ Current(c) \in Request
         /\ \A i \in 1..Len(buffer[c]) : i <= Len(Current(c)) => buffer[c][i] = Current(c)[i]
         /\ Len(buffer[c]) >= Len(Current(c)) =>
               /\ SubSeq(buffer[c], 1, Len(Current(c))) = Current(c)
               /\ SubSeq(buffer[c], Len(Current(c)) + 1, Len(buffer[c])) \o wire[c]
                    = Rest(c)[Len(given[c]) + 1]
         /\ plan.atOnce => Len(buffer[c]) >= Len(Current(c))
<1>1. Received(c) /\ TypeOK /\ c \in Conns
  BY RequestsType DEF TextInv, TypeOK
<1>2. /\ buffer[c] \in Text /\ wire[c] \in Text /\ length \in Nat
      /\ given[c] \in Seq(Text) /\ Len(given[c]) \in Nat
  BY <1>1 DEF TypeOK
<1>3. Len(Requests(c)) \in Nat
  BY <1>1, RequestsType DEF TypeOK
<1> DEFINE k == Len(given[c])
<1>4. k \in 0..Len(Requests(c))
  BY <1>1, <1>2, <1>3 DEF Received
<1>5. buffer[c] \o wire[c] = Rest(c)[k]
  BY <1>1 DEF Received
<1>6. k < Len(Requests(c))
  <2>1. buffer[c] \o wire[c] # <<>>
    BY <1>2, ConcatEqualIffEmpty, TextIsSeq
  <2>2. k # Len(Requests(c))
    BY <1>1, <1>4, <1>5, <2>1, RestStep
  <2> QED BY <1>3, <1>4, <2>2
<1>7. /\ k + 1 \in 0..Len(Requests(c)) /\ k + 1 \in DOMAIN Requests(c)
      /\ Requests(c)[k + 1] \in Request /\ Rest(c)[k] = Requests(c)[k + 1] \o Rest(c)[k + 1]
      /\ Rest(c)[k + 1] \in Text
  BY <1>1, <1>4, <1>6, RestStep
<1> DEFINE r == Requests(c)[k + 1]
           t == Rest(c)[k + 1]
<1>8. r \in Text /\ t \in Text /\ buffer[c] \o wire[c] = r \o t
  BY <1>5, <1>7, RequestShape
<1>9. Current(c) = r
  BY DEF Current
<1> HIDE DEF k, r, t
<1>10. /\ \A i \in 1..Len(buffer[c]) : i <= Len(r) => buffer[c][i] = r[i]
       /\ Len(buffer[c]) >= Len(r) => /\ SubSeq(buffer[c], 1, Len(r)) = r
                                      /\ SubSeq(buffer[c], Len(r) + 1, Len(buffer[c])) \o wire[c] = t
  BY <1>2, <1>8, Overlap, TextIsSeq
<1>11. ASSUME plan.atOnce PROVE Len(buffer[c]) >= Len(r)
  <2>1. wire[c] = <<>>
    BY <1>1, <1>11 DEF Received
  <2>2. /\ buffer[c] \in Seq(Cell) /\ wire[c] \in Seq(Cell) /\ r \in Seq(Cell)
        /\ t \in Seq(Cell)
    BY <1>2, <1>8, TextIsSeq
  <2>3. /\ Len(buffer[c]) \in Nat /\ Len(r) \in Nat /\ Len(t) \in Nat
        /\ Len(buffer[c] \o wire[c]) = Len(buffer[c]) + Len(wire[c])
        /\ Len(r \o t) = Len(r) + Len(t)
    BY ONLY <2>2, ConcatProperties, LenProperties
  <2>4. wire[c] = <<>> => Len(wire[c]) = 0
    OBVIOUS
  <2>5. Len(buffer[c] \o wire[c]) = Len(r \o t)
    BY ONLY <1>8
  <2>6. Len(buffer[c]) + Len(wire[c]) = Len(r) + Len(t)
    BY ONLY <2>3, <2>5
  <2> QED BY ONLY <2>1, <2>3, <2>4, <2>6
<1> QED
  BY <1>2, <1>6, <1>7, <1>9, <1>10, <1>11 DEF k, r, t

(* What it makes of it.                                                    *)
LEMMA Judge ==
  ASSUME TextInv, NEW c \in Used, buffer[c] # <<>>
  PROVE  /\ BadRequest(buffer[c]) => Current(c)[1] = "junk"
         /\ LengthRequired(buffer[c]) => Current(c)[1] \in {"get", "locked", "hostless"}
         /\ Found(buffer[c]) => /\ MessageLength(buffer[c]) = Len(Current(c))
                                /\ Len(Current(c)) <= Len(buffer[c])
                                /\ Current(c)[1] # "junk" /\ Current(c)[1] = buffer[c][1]
         /\ MessageLength(buffer[c]) > 0 =>
               MessageLength(buffer[c]) = Len(Current(c)) /\ Current(c)[1] # "junk"
         /\ plan.atOnce => Found(buffer[c]) \/ BadRequest(buffer[c]) \/ LengthRequired(buffer[c])
<1> DEFINE b == buffer[c]
           r == Current(c)
<1>1. /\ b \in Text /\ r \in Request /\ length \in Nat
      /\ \A i \in 1..Len(b) : i <= Len(r) => b[i] = r[i]
      /\ plan.atOnce => Len(b) >= Len(r)
  BY Look
<1>2. length > 0 => ~plan.atOnce /\ length = Len(r) /\ r[1] # "junk"
  BY DEF TextInv, Received
<1> HIDE DEF b, r
<1>3. /\ Len(b) < 2 => SepAt(b) = 0
      /\ Len(b) >= 2 => /\ SepAt(b) = 2
                        /\ Parsed(b) <=> r[1] # "junk"
                        /\ HasLength(b) <=> r[1] \in DOMAIN ContentLength
                        /\ b[1] = r[1]
  BY <1>1, Scan
<1>4. /\ Len(r) \in Nat /\ Len(r) >= 2
      /\ r[1] \in Lines \/ r[1] = "junk"
      /\ r[1] \in DOMAIN ContentLength => Len(r) = 2 + ContentLength[r[1]]
      /\ r[1] \notin DOMAIN ContentLength => Len(r) = 2
  BY <1>1, RequestShape
<1>5. Len(b) \in Nat
  BY <1>1, TextIsSeq
<1>6. BadRequest(b) => r[1] = "junk"
  BY <1>3, <1>5 DEF BadRequest
<1>7. LengthRequired(b) => r[1] \in {"get", "locked", "hostless"}
  BY <1>3, <1>4, <1>5 DEF LengthRequired, Lines
<1>8. MessageLength(b) \in Nat /\ (MessageLength(b) > 0 => MessageLength(b) = Len(r) /\ r[1] # "junk")
  <2>1. MessageLength(b) \in Nat
    BY <1>1, MessageLengthNat
  <2>2. CASE length > 0
    BY <1>2, <1>4, <2>2 DEF MessageLength
  <2>3. CASE length = 0 /\ Len(b) < 2
    BY <1>3, <2>3 DEF MessageLength
  <2>4. CASE length = 0 /\ Len(b) >= 2
    <3>1. b[SepAt(b) - 1] = r[1]
      BY <1>3, <2>4
    <3> QED BY <1>3, <1>4, <2>4, <3>1 DEF MessageLength
  <2> QED BY <1>1, <1>5, <2>1, <2>2, <2>3, <2>4
<1>9. Found(b) => MessageLength(b) = Len(r) /\ Len(r) <= Len(b) /\ r[1] # "junk" /\ r[1] = b[1]
  <2>1. Found(b) => MessageLength(b) > 0 /\ MessageLength(b) <= Len(b)
    BY <1>5, <1>8 DEF Found
  <2> QED BY <1>3, <1>4, <1>5, <1>8, <2>1
<1>10. ASSUME plan.atOnce PROVE Found(b) \/ BadRequest(b) \/ LengthRequired(b)
  <2>1. length = 0 /\ Len(b) >= 2 /\ Len(b) >= Len(r)
    BY <1>1, <1>2, <1>4, <1>5, <1>10
  <2>2. CASE r[1] = "junk"
    BY <1>3, <2>1, <2>2 DEF BadRequest
  <2>3. CASE r[1] # "junk"
    <3>1. b[SepAt(b) - 1] = r[1]
      BY <1>3, <2>1
    <3>2. MessageLength(b) = Len(r)
      BY <1>3, <1>4, <2>1, <2>3, <3>1 DEF MessageLength
    <3> QED BY <1>4, <1>5, <2>1, <3>2 DEF Found
  <2> QED BY <2>2, <2>3
<1> QED
  BY <1>6, <1>7, <1>8, <1>9, <1>10 DEF b, r

(* A message that is taken is the request whose turn it is.                *)
LEMMA Taken ==
  ASSUME TextInv, NEW c \in Used, buffer[c] # <<>>, TakeMessage(c)
  PROVE  /\ given' = [given EXCEPT ![c] = Append(@, Current(c))]
         /\ Len(given'[c]) = Len(given[c]) + 1
         /\ ArrivedHandler(c, Current(c))
         /\ Current(c)[1] # "junk"
         /\ length' = 0
         /\ buffer' = [buffer EXCEPT ![c] =
                         SubSeq(@, Len(Current(c)) + 1, Len(@))]
<1>1. Found(buffer[c])
  BY DEF TakeMessage
<1>2. /\ MessageLength(buffer[c]) = Len(Current(c))
      /\ SubSeq(buffer[c], 1, Len(Current(c))) = Current(c)
      /\ Current(c)[1] # "junk"
  BY <1>1, Look, Judge
<1>3. given' = [given EXCEPT ![c] = Append(@, Current(c))]
  BY <1>2 DEF TakeMessage
<1>4. c \in Conns /\ given \in [Conns -> Seq(Text)]
  BY RequestsType DEF TextInv, TypeOK
<1>5. given'[c] = Append(given[c], Current(c)) /\ given[c] \in Seq(Text)
  BY <1>3, <1>4
<1>6. Len(given'[c]) = Len(given[c]) + 1
  BY <1>5
<1> QED
  BY <1>2, <1>3, <1>6 DEF TakeMessage, FinishDecode

LEMMA TextDecode ==
  ASSUME TextInv, NEW c \in Used, Decode(c), NEW d \in Used
  PROVE  Received(d)'
<1>1. Received(d) /\ Received(c) /\ TypeOK /\ d \in Conns /\ c \in Conns
  BY RequestsType DEF TextInv, TypeOK
<1>2. buffer[c] # <<>> /\ UNCHANGED <<plan, wire>>
  BY DEF Decode, netVars
<1>3. CASE TakeMessage(c)
  <2>1. /\ given' = [given EXCEPT ![c] = Append(@, Current(c))]
        /\ Len(given'[c]) = Len(given[c]) + 1
        /\ length' = 0
        /\ buffer' = [buffer EXCEPT ![c] = SubSeq(@, Len(Current(c)) + 1, Len(@))]
    BY <1>2, <1>3, Taken
  <2>2. CASE d # c
    <3>1. given'[d] = given[d] /\ buffer'[d] = buffer[d]
      BY <1>1, <2>1, <2>2 DEF TypeOK
    <3> QED BY <1>1, <1>2, <2>1, <3>1, ReceivedSame DEF Received
  <2>3. CASE d = c
    <3>1. /\ buffer'[c] = SubSeq(buffer[c], Len(Current(c)) + 1, Len(buffer[c]))
          /\ given'[c] = Append(given[c], Current(c))
          /\ given[c] \in Seq(Text) /\ buffer[c] \in Text
      BY <1>1, <2>1 DEF TypeOK
    <3>2. Found(buffer[c])
      BY <1>3 DEF TakeMessage
    <3>3. /\ SubSeq(buffer[c], Len(Current(c)) + 1, Len(buffer[c])) \o wire[c]
                = Rest(c)[Len(given[c]) + 1]
          /\ Len(given[c]) < Len(Requests(c))
          /\ Current(c) \in Text
          /\ Len(given[c]) \in Nat
      BY <1>2, <3>2, Look, Judge, RequestShape
    <3>4. buffer'[c] \o wire'[c] = Rest(c)[Len(given'[c])]
      BY <1>2, <2>1, <3>1, <3>3
    <3>5. plan.atOnce => buffer'[c] = <<>> \/ wire'[c] = <<>>
      BY <1>1, <1>2 DEF Received
    <3>6. \A i \in 1..Len(given'[c]) : given'[c][i] = Requests(c)[i]
      <4> SUFFICES ASSUME NEW i \in 1..Len(given'[c]) PROVE given'[c][i] = Requests(c)[i]
        OBVIOUS
      <4>1. CASE i = Len(given[c]) + 1
        <5>1. given'[c][i] = Current(c)
          BY <3>1, <4>1
        <5> QED BY <4>1, <5>1 DEF Current
      <4>2. CASE i # Len(given[c]) + 1
        <5>1. i \in 1..Len(given[c])
          BY <2>1, <3>3, <4>2
        <5>2. given'[c][i] = given[c][i]
          <6>1. Current(c) \in Text
            BY <3>3
          <6> QED BY ONLY <3>1, <5>1, <6>1, AppendProperties
        <5> QED BY <1>1, <5>1, <5>2 DEF Received
      <4> QED BY <4>1, <4>2
    <3>7. Len(given'[c]) <= Len(Requests(c))
      <4>1. Len(Requests(c)) \in Nat
        BY <1>1, RequestsType DEF TypeOK
      <4> QED BY <2>1, <3>3, <4>1
    <3>8. Requests(c)' = Requests(c) /\ Rest(c)' = Rest(c)
      BY <1>2 DEF Requests, Rest
    <3>9. ~(length' > 0) /\ plan' = plan
      BY <1>2, <2>1
    <3>10. Received(c)'
      BY ONLY <3>4, <3>5, <3>6, <3>7, <3>8, <3>9 DEF Received
    <3> QED BY <2>3, <3>10
  <2> QED BY <2>2, <2>3
<1>4. CASE Refuse(c)
  <2>1. UNCHANGED <<length, buffer, given>>
    BY <1>4 DEF Refuse, inVars
  <2> QED BY <1>1, <1>2, <2>1, ReceivedSame DEF Received
<1>5. CASE FindNothing(c)
  <2>1. UNCHANGED <<buffer, given>>
        /\ length' = IF lastSize = Len(buffer[c]) THEN length ELSE MessageLength(buffer[c])
    BY <1>5 DEF FindNothing
  <2>2. length' = length \/ length' = MessageLength(buffer[c])
    BY <2>1
  <2>3. CASE length' = length
    BY <1>1, <1>2, <2>1, <2>3, ReceivedSame DEF Received
  <2>4. CASE length' # length
    <3>1. /\ ~Found(buffer[c]) /\ ~BadRequest(buffer[c]) /\ ~LengthRequired(buffer[c])
          /\ length' = MessageLength(buffer[c])
      BY <1>5, <2>1, <2>4 DEF FindNothing
    <3>2. ~plan.atOnce
      BY <1>2, <3>1, Judge
    <3>3. d = c
      BY <3>2 DEF TextInv, OneTalks
    <3>4. length' > 0 =>
            length' = Len(Current(c)) /\ Current(c)[1] # "junk" /\ Len(given[c]) < Len(Requests(c))
      BY <1>2, <3>1, Judge, Look
    <3>5. Requests(c)' = Requests(c) /\ Rest(c)' = Rest(c)
      BY <1>2 DEF Requests, Rest
    <3>6. Current(c)' = Current(c)
      BY <2>1, <3>5 DEF Current
    <3> QED BY <1>1, <1>2, <2>1, <3>2, <3>3, <3>4, <3>5, <3>6 DEF Received
  <2> QED BY <2>3, <2>4
<1> QED BY <1>3, <1>4, <1>5 DEF Decode

LEMMA TextNext == TextInv /\ TypeOK' /\ [Next]_vars => TextInv'
<1> SUFFICES ASSUME TextInv, TypeOK', [Next]_vars PROVE TextInv'
  OBVIOUS
<1> USE DEF netVars, decoderVars, inVars, outVars, sessionVars
<1>1. plan' = plan
  BY DEF Next, Handler, ReadHandler, ReadFailed, WriteCompleted, WriteFailed, PeerLeaves,
         TimePasses, BeginPass, Decode, FinishPass, vars
<1>2. Used' = Used /\ OneTalks'
  BY <1>1 DEF Used, OneTalks, TextInv
<1>3. gone \subseteq gone'
  BY DEF Next, Handler, ReadHandler, ReadFailed, WriteCompleted, WriteFailed, PeerLeaves,
         TimePasses, BeginPass, Decode, FinishPass, vars
<1>4. at' \in Used \cup {NoConn}
  <2>1. ASSUME NEW c \in Conns, BeginPass(c) PROVE at' \in Used \cup {NoConn}
    BY <2>1 DEF BeginPass, TextInv
  <2>2. ASSUME NEW c \in Conns, Decode(c) PROVE at' \in {at, NoConn}
    BY <2>2 DEF Decode, TakeMessage, ArrivedHandler, Refuse, ErrorHandler, FindNothing
  <2>3. ASSUME NEW c \in Conns, Handler(c) \/ PeerLeaves(c) \/ TimePasses(c) \/ FinishPass(c)
        PROVE  at' \in {at, NoConn}
    BY <2>3 DEF Handler, ReadHandler, ReadFailed, WriteCompleted, WriteFailed, PeerLeaves,
         TimePasses, FinishPass
  <2>4. CASE UNCHANGED vars
    BY <2>4 DEF vars, TextInv
  <2> QED BY <2>1, <2>2, <2>3, <2>4 DEF Next, TextInv
<1>5. ASSUME NEW d \in Used PROVE Received(d)'
  <2>1. Received(d)
    BY DEF TextInv
  <2>2. ASSUME NEW c \in Conns, ReadHandler(c) PROVE Received(d)'
    BY <2>2, TextRead
  <2>3. ASSUME NEW c \in Conns, Decode(c) PROVE Received(d)'
    <3>1. c \in Used
      BY <2>3, HttpAssumption DEF Decode, TextInv
    <3> QED BY <2>3, <3>1, TextDecode
  <2>4. ASSUME UNCHANGED <<given, buffer, wire, length>> PROVE Received(d)'
    BY <1>1, <2>1, <2>4, ReceivedSame DEF Received
  <2> QED BY <2>2, <2>3, <2>4 DEF Next, Handler, ReadFailed, WriteCompleted, WriteFailed,
         PeerLeaves, TimePasses, BeginPass, FinishPass, vars
<1> QED
  BY <1>2, <1>3, <1>4, <1>5 DEF TextInv

LEMMA TextGives == TextInv => Intact
<1> SUFFICES ASSUME TextInv, NEW c \in Used PROVE IsPrefix(given[c], Requests(c))
  BY DEF Intact, Requests
<1>1. Received(c) /\ given[c] \in Seq(Text) /\ Requests(c) \in Seq(Request)
  BY RequestsType DEF TextInv, TypeOK
<1> DEFINE n == Len(given[c])
           s == SubSeq(Requests(c), 1, n)
<1>2. n \in Nat /\ n <= Len(Requests(c)) /\ Len(Requests(c)) \in Nat
  BY <1>1 DEF Received
<1>3. SubSeq(given[c], 1, n) = given[c]
  BY <1>1, SubSeqFull
<1>4. s \in Seq(Text) /\ Len(s) = n /\ \A i \in 1..n : s[i] = Requests(c)[i]
  <2>1. Request \subseteq Text
    BY RequestShape
  <2>2. Requests(c) \in Seq(Text)
    BY <1>1, <2>1, SeqMonotonic
  <2> QED BY <1>2, <2>2
<1>5. given[c] = s
  <2> HIDE DEF s
  <2>1. \A i \in 1..n : given[c][i] = s[i]
    BY <1>1, <1>4 DEF Received
  <2> QED BY <1>1, <1>4, <2>1, SeqEqual
<1> QED
  BY <1>2, <1>3, <1>5 DEF IsPrefix

----------------------------------------------------------------------------
(* The answers go in their order.                                          *)

(* The i-th of the answers that were sent, are being written and are queued.*)
At(a, w, q, i) ==
    IF i <= Len(a) THEN a[i]
    ELSE IF i <= Len(a) + Len(w) THEN w[i - Len(a)].answer
    ELSE q[i - (Len(a) + Len(w))]

Size(a, w, q) == Len(a) + Len(w) + Len(q)

LEMMA LenNat ==
  ASSUME NEW S, NEW s \in Seq(S)
  PROVE  Len(s) \in Nat /\ DOMAIN s = 1..Len(s)
  BY LenProperties

(* The answer at the front of those being written goes to the peer.        *)
LEMMA AtWritten ==
  ASSUME NEW A, NEW W, NEW a \in Seq(A), NEW w \in Seq(W), NEW q,
         w # <<>>, NEW e \in A, Head(w).answer = e, Len(q) \in Nat
  PROVE  /\ Size(Append(a, e), Tail(w), q) = Size(a, w, q)
         /\ \A i \in Nat \ {0} : At(Append(a, e), Tail(w), q, i) = At(a, w, q, i)
<1> DEFINE b == Append(a, e)
           v == Tail(w)
<1>1. Len(a) \in Nat /\ Len(w) \in Nat
  BY LenNat
<1>2. Len(b) = Len(a) + 1 /\ b[Len(a) + 1] = e /\ \A i \in 1..Len(a) : b[i] = a[i]
  BY AppendProperties
<1>3. /\ Len(v) = Len(w) - 1 /\ \A i \in 1..Len(v) : v[i] = w[i + 1]
  BY HeadTailProperties
<1>4. w[1].answer = e /\ Len(w) > 0
  BY <1>1
<1> HIDE DEF b, v
<1>5. ASSUME NEW i \in Nat \ {0} PROVE At(b, v, q, i) = At(a, w, q, i)
  <2>1. CASE i <= Len(a)
    <3>1. i \in 1..Len(a) /\ i <= Len(b)
      BY <1>1, <1>2, <2>1
    <3> QED BY ONLY <1>2, <2>1, <3>1 DEF At
  <2>2. CASE i = Len(a) + 1
    <3>1. i <= Len(b) /\ ~(i <= Len(a)) /\ i <= Len(a) + Len(w) /\ i - Len(a) = 1
      BY <1>1, <1>2, <1>4, <2>2
    <3> QED BY ONLY <1>2, <1>4, <2>2, <3>1 DEF At
  <2>3. CASE i > Len(a) + 1 /\ i <= Len(a) + Len(w)
    <3>1. /\ ~(i <= Len(b)) /\ ~(i <= Len(a)) /\ i <= Len(b) + Len(v)
          /\ i - Len(b) \in 1..Len(v) /\ (i - Len(b)) + 1 = i - Len(a)
      BY <1>1, <1>2, <1>3, <1>4, <2>3
    <3>2. v[i - Len(b)] = w[(i - Len(b)) + 1]
      BY ONLY <1>3, <3>1
    <3> QED BY ONLY <2>3, <3>1, <3>2 DEF At
  <2>4. CASE i > Len(a) + Len(w)
    <3>1. /\ ~(i <= Len(a)) /\ ~(i <= Len(a) + Len(w)) /\ ~(i <= Len(b))
          /\ ~(i <= Len(b) + Len(v)) /\ Len(b) + Len(v) = Len(a) + Len(w)
      BY <1>1, <1>2, <1>3, <1>4, <2>4
    <3> QED BY ONLY <3>1 DEF At
  <2> QED BY <1>1, <2>1, <2>2, <2>3, <2>4
<1>6. Size(b, v, q) = Size(a, w, q)
  BY <1>1, <1>2, <1>3 DEF Size
<1> QED BY <1>5, <1>6 DEF b, v

(* The n at the front of the queue are written.                            *)
LEMMA AtStarted ==
  ASSUME NEW A, NEW W, NEW a, NEW w \in Seq(W), NEW q \in Seq(A), NEW x \in Seq(W),
         Len(a) \in Nat, Len(x) <= Len(q), \A i \in 1..Len(x) : x[i].answer = q[i]
  PROVE  /\ Size(a, w \o x, SubSeq(q, Len(x) + 1, Len(q))) = Size(a, w, q)
         /\ \A i \in 1..Size(a, w, q) :
               At(a, w \o x, SubSeq(q, Len(x) + 1, Len(q)), i) = At(a, w, q, i)
<1> DEFINE n == Len(x)
           v == w \o x
           p == SubSeq(q, n + 1, Len(q))
<1>1. n \in Nat /\ Len(w) \in Nat /\ Len(q) \in Nat
  BY LenNat
<1>2. /\ Len(v) = Len(w) + n
      /\ \A i \in 1..(Len(w) + n) : v[i] = IF i <= Len(w) THEN w[i] ELSE x[i - Len(w)]
  BY ConcatProperties
<1>3. /\ Len(p) = Len(q) - n
      /\ \A i \in 1..(Len(q) - n) : p[i] = q[n + i]
  BY <1>1
<1>4. \A i \in 1..n : x[i].answer = q[i]
  OBVIOUS
<1>5. n <= Len(q)
  OBVIOUS
<1> HIDE DEF n, v, p
<1>6. ASSUME NEW i \in 1..(Len(a) + Len(w) + Len(q)) PROVE At(a, v, p, i) = At(a, w, q, i)
  <2>1. CASE i <= Len(a)
    BY <2>1 DEF At
  <2>2. CASE i > Len(a) /\ i <= Len(a) + Len(w)
    <3>1. /\ ~(i <= Len(a)) /\ i <= Len(a) + Len(v)
          /\ i - Len(a) \in 1..(Len(w) + n) /\ i - Len(a) <= Len(w)
      BY <1>1, <1>2, <1>5, <2>2
    <3>2. v[i - Len(a)] = w[i - Len(a)]
      BY ONLY <1>2, <3>1
    <3> QED BY ONLY <2>2, <3>1, <3>2 DEF At
  <2>3. CASE i > Len(a) + Len(w) /\ i <= Len(a) + Len(w) + n
    <3>1. /\ ~(i <= Len(a)) /\ ~(i <= Len(a) + Len(w)) /\ i <= Len(a) + Len(v)
          /\ i - Len(a) \in 1..(Len(w) + n) /\ ~(i - Len(a) <= Len(w))
          /\ (i - Len(a)) - Len(w) = i - (Len(a) + Len(w)) /\ i - (Len(a) + Len(w)) \in 1..n
      BY <1>1, <1>2, <1>5, <2>3
    <3>2. v[i - Len(a)] = x[(i - Len(a)) - Len(w)]
      BY ONLY <1>2, <3>1
    <3>3. x[i - (Len(a) + Len(w))].answer = q[i - (Len(a) + Len(w))]
      BY ONLY <1>4, <3>1
    <3> QED BY ONLY <3>1, <3>2, <3>3 DEF At
  <2>4. CASE i > Len(a) + Len(w) + n
    <3> DEFINE j == i - (Len(a) + Len(v))
    <3>1. /\ ~(i <= Len(a)) /\ ~(i <= Len(a) + Len(w)) /\ ~(i <= Len(a) + Len(v))
          /\ j \in 1..(Len(q) - n) /\ n + j = i - (Len(a) + Len(w))
      BY <1>1, <1>2, <1>5, <2>4
    <3>2. j = i - (Len(a) + Len(v))
      OBVIOUS
    <3> HIDE DEF j
    <3>3. p[j] = q[n + j]
      BY ONLY <1>3, <3>1
    <3> QED BY ONLY <3>1, <3>2, <3>3 DEF At
  <2> QED BY <1>1, <2>1, <2>2, <2>3, <2>4
<1>7. Size(a, v, p) = Size(a, w, q)
  BY <1>1, <1>2, <1>3, <1>5 DEF Size
<1> QED BY <1>6, <1>7 DEF v, p, n, Size

(* An answer joins the queue.                                              *)
LEMMA AtQueued ==
  ASSUME NEW A, NEW a, NEW w, NEW q \in Seq(A), NEW e \in A,
         Len(a) \in Nat, Len(w) \in Nat
  PROVE  /\ Size(a, w, Append(q, e)) = Size(a, w, q) + 1
         /\ \A i \in 1..Size(a, w, q) : At(a, w, Append(q, e), i) = At(a, w, q, i)
         /\ At(a, w, Append(q, e), Size(a, w, q) + 1) = e
<1> DEFINE p == Append(q, e)
<1>1. Len(q) \in Nat
  BY LenNat
<1>2. Len(p) = Len(q) + 1 /\ p[Len(q) + 1] = e /\ \A i \in 1..Len(q) : p[i] = q[i]
  BY AppendProperties
<1> HIDE DEF p
<1>3. ASSUME NEW i \in 1..(Len(a) + Len(w) + Len(q)) PROVE At(a, w, p, i) = At(a, w, q, i)
  <2>1. CASE i <= Len(a) + Len(w)
    BY <2>1 DEF At
  <2>2. CASE ~(i <= Len(a) + Len(w))
    <3>1. i - (Len(a) + Len(w)) \in 1..Len(q) /\ ~(i <= Len(a))
      BY <1>1, <2>2
    <3>2. p[i - (Len(a) + Len(w))] = q[i - (Len(a) + Len(w))]
      BY ONLY <1>2, <3>1
    <3> QED BY ONLY <2>2, <3>1, <3>2 DEF At
  <2> QED BY <2>1, <2>2
<1>4. At(a, w, p, Len(a) + Len(w) + Len(q) + 1) = e
  <2> DEFINE i == Len(a) + Len(w) + Len(q) + 1
  <2>1. /\ ~(i <= Len(a)) /\ ~(i <= Len(a) + Len(w)) /\ i - (Len(a) + Len(w)) = Len(q) + 1
    BY <1>1
  <2> HIDE DEF i
  <2>2. At(a, w, p, i) = e
    BY ONLY <1>2, <2>1 DEF At
  <2> QED BY <2>2 DEF i
<1>5. Size(a, w, p) = Size(a, w, q) + 1
  BY <1>1, <1>2 DEF Size
<1> QED BY <1>3, <1>4, <1>5 DEF p, Size

LEMMA AtDelivered ==
  ASSUME NEW A, NEW W, NEW a \in Seq(A), NEW w \in Seq(W), NEW q \in Seq(A)
  PROVE  /\ Size(a, w, q) \in Nat
         /\ \A i \in 1..Len(a) : /\ i \in 1..Size(a, w, q) /\ At(a, w, q, i) = a[i]
                               /\ \A j \in 1..(i - 1) : At(a, w, q, j) = a[j]
<1>1. Len(a) \in Nat /\ Len(w) \in Nat /\ Len(q) \in Nat
  BY LenNat
<1> QED BY <1>1 DEF Size, At

(* All the answers that were given on a connection, in the order in which  *)
(* they go.                                                                *)
Total(c) == Size(answers[c], writing[c], queue[c])

Reply(c, i) == At(answers[c], writing[c], queue[c], i)

Refusal(c, j) == Reply(c, j) = "length_required" \/ Requests(c)[j][1] = "junk"

ReplyOk(c, i) ==
    \/ i \in DOMAIN Requests(c) /\ Reply(c, i) \in Expected(Requests(c)[i])
    \/ \E j \in 1..(i - 1) : Refusal(c, j)

AnsweredOk(c) ==
    \A i \in DOMAIN answers[c] :
        \/ i \in DOMAIN Requests(c) /\ answers[c][i] \in Expected(Requests(c)[i])
        \/ \E j \in 1..(i - 1) :
              answers[c][j] = "length_required" \/ Requests(c)[j][1] = "junk"

(* Until the decoder refuses a request there is one answer for each request*)
(* the session was given.                                                  *)
RepliesOk(c) ==
    /\ \A i \in 1..Total(c) : ReplyOk(c, i)
    /\ Total(c) = Len(given[c]) \/ \E j \in 1..Total(c) : Refusal(c, j)

OrderInv == \A c \in Used : AnsweredOk(c) /\ (link[c] # "broken" => RepliesOk(c))

LEMMA OrderGives == OrderInv => InOrder
  BY DEF OrderInv, AnsweredOk, InOrder, Requests

LEMMA OutTypes ==
  ASSUME TypeOK, NEW c \in Conns
  PROVE  /\ answers[c] \in Seq(Answer) /\ queue[c] \in Seq(Answer)
         /\ writing[c] \in Seq([answer : Answer, open : BOOLEAN])
         /\ Len(answers[c]) \in Nat /\ Len(writing[c]) \in Nat /\ Len(queue[c]) \in Nat
         /\ Total(c) \in Nat
         /\ DOMAIN answers[c] = 1..Len(answers[c])
         /\ \A i \in 1..Len(answers[c]) :
               /\ i \in 1..Total(c) /\ Reply(c, i) = answers[c][i]
               /\ \A j \in 1..(i - 1) : Reply(c, j) = answers[c][j]
<1>1. /\ answers[c] \in Seq(Answer) /\ queue[c] \in Seq(Answer)
      /\ writing[c] \in Seq([answer : Answer, open : BOOLEAN])
  BY DEF TypeOK
<1>2. /\ Len(answers[c]) \in Nat /\ Len(writing[c]) \in Nat /\ Len(queue[c]) \in Nat
      /\ DOMAIN answers[c] = 1..Len(answers[c])
  BY ONLY <1>1, LenNat
<1>3. /\ Size(answers[c], writing[c], queue[c]) \in Nat
      /\ \A i \in 1..Len(answers[c]) :
            /\ i \in 1..Size(answers[c], writing[c], queue[c])
            /\ At(answers[c], writing[c], queue[c], i) = answers[c][i]
            /\ \A j \in 1..(i - 1) : At(answers[c], writing[c], queue[c], j) = answers[c][j]
  <2> DEFINE Item == [answer : Answer, open : BOOLEAN]
  <2>1. PICK a \in Seq(Answer) : a = answers[c]
    BY <1>1
  <2>2. PICK q \in Seq(Answer) : q = queue[c]
    BY <1>1
  <2>3. PICK w \in Seq(Item) : w = writing[c]
    BY <1>1
  <2> HIDE DEF Item
  <2>4. /\ Size(a, w, q) \in Nat
        /\ \A i \in 1..Len(a) : /\ i \in 1..Size(a, w, q) /\ At(a, w, q, i) = a[i]
                                /\ \A j \in 1..(i - 1) : At(a, w, q, j) = a[j]
    BY AtDelivered
  <2> QED BY ONLY <2>1, <2>2, <2>3, <2>4
<1> QED BY ONLY <1>1, <1>2, <1>3 DEF Total, Reply

LEMMA OrderInit == Init => OrderInv
<1> SUFFICES ASSUME Init, NEW c \in Used PROVE AnsweredOk(c) /\ RepliesOk(c)
  BY DEF OrderInv
<1>1. c \in Conns
  BY HttpAssumption DEF Init, Used
<1>2. answers[c] = <<>> /\ queue[c] = <<>> /\ writing[c] = <<>> /\ given[c] = <<>>
  BY <1>1 DEF Init
<1>3. Total(c) = 0 /\ Len(given[c]) = 0 /\ DOMAIN answers[c] = {}
  BY <1>2 DEF Total, Size
<1> QED BY <1>3 DEF AnsweredOk, RepliesOk

(* What the peer got is the front of what was given.                       *)
LEMMA Delivered ==
  ASSUME TypeOK, NEW c \in Conns, RepliesOk(c)
  PROVE  AnsweredOk(c)
<1>1. \A i \in DOMAIN answers[c] :
         i \in 1..Total(c) /\ Reply(c, i) = answers[c][i]
         /\ \A j \in 1..(i - 1) : Reply(c, j) = answers[c][j]
  BY OutTypes
<1>2. \A i \in 1..Total(c) : ReplyOk(c, i)
  BY DEF RepliesOk
<1> QED
  BY ONLY <1>1, <1>2 DEF AnsweredOk, ReplyOk, Refusal

LEMMA DeliveredNext == (TypeOK => \A c \in Conns : RepliesOk(c) => AnsweredOk(c))'
<1>1. TypeOK => \A c \in Conns : RepliesOk(c) => AnsweredOk(c)
  BY Delivered
<1> QED BY <1>1, PTL

(* A step that only moves answers on.                                      *)
LEMMA RepliesSame ==
  ASSUME NEW c, RepliesOk(c), Total(c) \in Nat, plan' = plan, given'[c] = given[c],
         Total(c)' = Total(c), \A i \in 1..Total(c) : Reply(c, i)' = Reply(c, i)
  PROVE  RepliesOk(c)'
<1>1. Requests(c)' = Requests(c)
  BY DEF Requests
<1>2. \A j \in 1..Total(c) : Refusal(c, j)' <=> Refusal(c, j)
  BY <1>1 DEF Refusal
<1>3. \A i \in 1..Total(c) : ReplyOk(c, i)'
  <2> SUFFICES ASSUME NEW i \in 1..Total(c) PROVE ReplyOk(c, i)'
    OBVIOUS
  <2>1. \A j \in 1..(i - 1) : j \in 1..Total(c)
    OBVIOUS
  <2>2. ReplyOk(c, i)
    BY DEF RepliesOk
  <2> QED BY <1>1, <1>2, <2>1, <2>2 DEF ReplyOk
<1> QED BY <1>2, <1>3 DEF RepliesOk

LEMMA ReplyFrame ==
  ASSUME NEW c, answers'[c] = answers[c], writing'[c] = writing[c], queue'[c] = queue[c]
  PROVE  /\ Total(c)' = Total(c)
         /\ \A i \in 1..Total(c) : Reply(c, i)' = Reply(c, i)
  BY DEF Total, Reply

LEMMA OrderFrame ==
  ASSUME TypeOK, NEW c \in Conns, plan' = plan, given'[c] = given[c],
         answers'[c] = answers[c], writing'[c] = writing[c], queue'[c] = queue[c],
         AnsweredOk(c) /\ (link[c] # "broken" => RepliesOk(c)),
         link'[c] # "broken" => link[c] # "broken"
  PROVE  AnsweredOk(c)' /\ (link'[c] # "broken" => RepliesOk(c)')
<1>1. AnsweredOk(c)'
  BY DEF AnsweredOk, Requests
<1>2. RepliesOk(c) => RepliesOk(c)'
  BY ReplyFrame, RepliesSame, OutTypes
<1> QED BY <1>1, <1>2

LEMMA WriteReplies ==
  ASSUME TypeOK, NEW c \in Conns, WriteCompleted(c)
  PROVE  /\ Total(c)' = Total(c)
         /\ \A i \in 1..Total(c) : Reply(c, i)' = Reply(c, i)
<1> DEFINE e == Head(writing[c]).answer
           Item == [answer : Answer, open : BOOLEAN]
<1>1. /\ answers[c] \in Seq(Answer) /\ writing[c] \in Seq(Item) /\ writing[c] # <<>>
      /\ Len(queue[c]) \in Nat
      /\ answers'[c] = Append(answers[c], e) /\ writing'[c] = Tail(writing[c])
      /\ queue'[c] = queue[c]
  BY OutTypes DEF WriteCompleted, TypeOK
<1>2. e \in Answer
  <2>1. Head(writing[c]) \in Item
    BY ONLY <1>1, HeadTailProperties
  <2> QED BY <2>1
<1>3. PICK f : f = e
  OBVIOUS
<1> HIDE DEF e, Item
<1>4. /\ Size(Append(answers[c], e), Tail(writing[c]), queue[c])
            = Size(answers[c], writing[c], queue[c])
      /\ \A i \in Nat \ {0} : At(Append(answers[c], e), Tail(writing[c]), queue[c], i)
                                = At(answers[c], writing[c], queue[c], i)
  BY ONLY <1>1, <1>2, AtWritten DEF e
<1>5. \A i \in 1..Total(c) : i \in Nat \ {0}
  BY OutTypes
<1> QED
  BY ONLY <1>1, <1>4, <1>5 DEF Total, Reply

LEMMA FinishReplies ==
  ASSUME TypeOK, NEW c \in Conns, FinishPass(c)
  PROVE  /\ Total(c)' = Total(c)
         /\ \A i \in 1..Total(c) : Reply(c, i)' = Reply(c, i)
<1> DEFINE Writes(n) == [i \in 1..n |-> [answer |-> queue[c][i], open |-> c \notin closed]]
           Item == [answer : Answer, open : BOOLEAN]
<1>1. PICK n \in 0..Len(queue[c]) :
         /\ writing' = [writing EXCEPT ![c] = @ \o Writes(n)]
         /\ queue' = [queue EXCEPT ![c] = SubSeq(@, n + 1, Len(@))]
  BY DEF FinishPass
<1>2. /\ queue[c] \in Seq(Answer) /\ Len(answers[c]) \in Nat /\ Len(queue[c]) \in Nat
      /\ Len(writing[c]) \in Nat
      /\ writing[c] \in Seq(Item) /\ answers'[c] = answers[c]
      /\ writing'[c] = writing[c] \o Writes(n)
      /\ queue'[c] = SubSeq(queue[c], n + 1, Len(queue[c]))
  BY <1>1, OutTypes DEF FinishPass, TypeOK
<1>3. /\ Writes(n) \in Seq(Item) /\ Len(Writes(n)) = n
      /\ \A i \in 1..n : Writes(n)[i].answer = queue[c][i]
  BY <1>1, <1>2
<1>4. PICK x \in Seq(Item) : x = Writes(n)
  BY <1>3
<1> HIDE DEF Item, Writes
<1>5. /\ Len(x) = n /\ Len(x) <= Len(queue[c])
      /\ \A i \in 1..Len(x) : x[i].answer = queue[c][i]
  BY <1>1, <1>2, <1>3, <1>4
<1>6. /\ writing'[c] = writing[c] \o x
      /\ queue'[c] = SubSeq(queue[c], Len(x) + 1, Len(queue[c]))
  BY <1>2, <1>4, <1>5
<1>7. /\ Size(answers[c], writing[c] \o x, SubSeq(queue[c], Len(x) + 1, Len(queue[c])))
            = Size(answers[c], writing[c], queue[c])
      /\ \A i \in 1..Size(answers[c], writing[c], queue[c]) :
            At(answers[c], writing[c] \o x, SubSeq(queue[c], Len(x) + 1, Len(queue[c])), i)
              = At(answers[c], writing[c], queue[c], i)
  <2>1. PICK w \in Seq(Item) : w = writing[c]
    BY <1>2
  <2>2. PICK q \in Seq(Answer) : q = queue[c]
    BY <1>2
  <2>3. PICK a : a = answers[c]
    OBVIOUS
  <2>4. Len(a) \in Nat /\ Len(x) <= Len(q) /\ \A i \in 1..Len(x) : x[i].answer = q[i]
    BY ONLY <1>2, <1>5, <2>2, <2>3
  <2>5. /\ Size(a, w \o x, SubSeq(q, Len(x) + 1, Len(q))) = Size(a, w, q)
        /\ \A i \in 1..Size(a, w, q) :
              At(a, w \o x, SubSeq(q, Len(x) + 1, Len(q)), i) = At(a, w, q, i)
    BY <2>4, AtStarted
  <2> QED BY ONLY <2>1, <2>2, <2>3, <2>5
<1> QED
  BY ONLY <1>2, <1>6, <1>7 DEF Total, Reply

LEMMA SendReplies ==
  ASSUME TypeOK, NEW c \in Conns, NEW answer \in Answer, Send(c, answer),
         answers'[c] = answers[c], writing'[c] = writing[c]
  PROVE  /\ Total(c)' = Total(c) + 1
         /\ \A i \in 1..Total(c) : Reply(c, i)' = Reply(c, i)
         /\ At(answers'[c], writing'[c], queue'[c], Total(c) + 1) = answer
<1>1. /\ queue[c] \in Seq(Answer) /\ Len(answers[c]) \in Nat /\ Len(writing[c]) \in Nat
      /\ Len(queue[c]) \in Nat
      /\ queue'[c] = Append(queue[c], answer) /\ answer \in Answer
  BY OutTypes DEF Send, TypeOK
<1>2. answers'[c] = answers[c] /\ writing'[c] = writing[c]
  OBVIOUS
<1>3. /\ Size(answers[c], writing[c], Append(queue[c], answer))
            = Size(answers[c], writing[c], queue[c]) + 1
      /\ \A i \in 1..Size(answers[c], writing[c], queue[c]) :
            At(answers[c], writing[c], Append(queue[c], answer), i)
              = At(answers[c], writing[c], queue[c], i)
      /\ At(answers[c], writing[c], Append(queue[c], answer),
            Size(answers[c], writing[c], queue[c]) + 1) = answer
  BY ONLY <1>1, AtQueued
<1> QED BY ONLY <1>1, <1>2, <1>3 DEF Total, Reply

(* The answer a request gets when it is taken.                             *)
LEMMA TakenExpected ==
  ASSUME NEW r \in Request, r[1] # "junk"
  PROVE  /\ r[1] = "hostless" => "bad_request" \in Expected(r)
         /\ r[1] # "hostless" => ProcessRequest(r[1]) \in Expected(r)
<1>1. r[1] \in Lines
  BY RequestShape
<1>2. Lines = {"get", "locked", "hostless", "post", "missing", "elsewhere"}
  BY DEF Lines, ContentLength
<1>3. CASE r[1] = "get"
  BY <1>3 DEF Expected, ProcessRequest, CheckResource, HandleGet
<1>4. CASE r[1] = "locked"
  BY <1>4 DEF Expected, ProcessRequest, CheckResource, HandleGet
<1>5. CASE r[1] = "hostless"
  BY <1>5 DEF Expected
<1>6. CASE r[1] = "post"
  <2>1. ProcessRequest("post") = "not_implemented"
    BY DEF ProcessRequest, CheckResource
  <2>2. "not_implemented" \in Expected(r)
    BY <1>6 DEF Expected
  <2> QED BY <1>6, <2>1, <2>2
<1>7. CASE r[1] = "missing"
  BY <1>7 DEF Expected, ProcessRequest, CheckResource
<1>8. CASE r[1] = "elsewhere"
  BY <1>8 DEF Expected, ProcessRequest, CheckResource
<1> QED BY <1>1, <1>2, <1>3, <1>4, <1>5, <1>6, <1>7, <1>8

LEMMA RefusedExpected ==
  ASSUME NEW r \in Request
  PROVE  /\ r[1] = "junk" => "bad_request" \in Expected(r)
         /\ r[1] \in {"get", "locked", "hostless"} => "length_required" \in Expected(r)
  BY DEF Expected

(* A step that gives one answer more.                                      *)
LEMMA RepliesGrow ==
  ASSUME TypeOK, TextInv, NEW c \in Used, RepliesOk(c), buffer[c] # <<>>,
         NEW answer \in Answer, Send(c, answer), plan' = plan,
         answers'[c] = answers[c], writing'[c] = writing[c],
         answer \in Expected(Current(c)),
         \/ Len(given'[c]) = Len(given[c]) + 1
         \/ answer = "length_required" \/ Current(c)[1] = "junk"
  PROVE  RepliesOk(c)'
<1> DEFINE n == Total(c)
           k == Len(given[c])
<1>1. c \in Conns /\ k + 1 \in DOMAIN Requests(c) /\ k \in Nat
  BY RequestsType, Look DEF TypeOK
<1>2. Requests(c)' = Requests(c)
  BY DEF Requests
<1>3. /\ Total(c)' = n + 1 /\ n \in Nat
      /\ \A i \in 1..n : Reply(c, i)' = Reply(c, i)
  BY <1>1, SendReplies, OutTypes
<1>4. \A m : m = n + 1 => Reply(c, m)' = answer
  BY <1>1, SendReplies DEF Reply
<1>5. Requests(c)[k + 1] = Current(c)
  BY DEF Current
<1>6. \A j \in 1..n : Refusal(c, j)' <=> Refusal(c, j)
  BY <1>2, <1>3 DEF Refusal
<1>7. \A i \in 1..n : ReplyOk(c, i)
  BY DEF RepliesOk
<1>8. n = k \/ \E j \in 1..n : Refusal(c, j)
  BY DEF RepliesOk
<1> HIDE DEF n, k
<1>9. ASSUME NEW i \in 1..n PROVE ReplyOk(c, i)'
  <2>1. \A j \in 1..(i - 1) : j \in 1..n
    BY <1>3
  <2>2. ReplyOk(c, i) /\ Reply(c, i)' = Reply(c, i)
    BY <1>3, <1>7
  <2> QED BY ONLY <1>2, <1>6, <2>1, <2>2 DEF ReplyOk
<1>10. PICK m \in Nat : m = n + 1
  BY <1>3
<1>11. Reply(c, m)' = answer
  BY <1>4, <1>10
<1>12. ReplyOk(c, m)'
  <2>1. CASE n = k
    <3>1. m \in DOMAIN Requests(c) /\ Requests(c)[m] = Current(c)
      BY <1>1, <1>5, <1>10, <2>1
    <3> QED BY <1>2, <1>11, <3>1 DEF ReplyOk
  <2>2. CASE \E j \in 1..n : Refusal(c, j)
    <3>1. PICK j \in 1..n : Refusal(c, j)
      BY <2>2
    <3>2. j \in 1..(m - 1)
      BY <1>3, <1>10
    <3> QED BY <1>6, <3>1, <3>2 DEF ReplyOk
  <2> QED BY <1>8, <2>1, <2>2
<1>13. \A i \in 1..m : i = m \/ i \in 1..n
  BY <1>3, <1>10
<1>14. Total(c)' = m
  BY <1>3, <1>10
<1>15. m = Len(given'[c]) \/ \E j \in 1..m : Refusal(c, j)'
  <2>1. CASE \E j \in 1..n : Refusal(c, j)
    <3>1. PICK j \in 1..n : Refusal(c, j)
      BY <2>1
    <3>2. j \in 1..m
      BY <1>3, <1>10
    <3> QED BY <1>6, <3>1, <3>2
  <2>2. CASE n = k /\ Len(given'[c]) = k + 1
    BY <1>10, <2>2
  <2>3. CASE n = k /\ (answer = "length_required" \/ Current(c)[1] = "junk")
    <3>1. Refusal(c, m)'
      BY <1>2, <1>5, <1>10, <1>11, <2>3 DEF Refusal
    <3>2. m \in 1..m
      BY <1>3, <1>10
    <3> QED BY <3>1, <3>2
  <2> QED BY <1>8, <2>1, <2>2, <2>3 DEF k
<1> QED
  BY ONLY <1>9, <1>12, <1>13, <1>14, <1>15 DEF RepliesOk

LEMMA OrderDecode ==
  ASSUME TypeOK, TextInv, NEW c \in Used, Decode(c), AnsweredOk(c), link[c] # "broken" => RepliesOk(c)
  PROVE  AnsweredOk(c)' /\ (link'[c] # "broken" => RepliesOk(c)')
<1>1. /\ buffer[c] # <<>> /\ plan' = plan /\ answers' = answers /\ writing' = writing
      /\ link' = link /\ c \in Conns
  BY RequestsType DEF Decode, netVars, TypeOK
<1>2. AnsweredOk(c)'
  BY <1>1 DEF AnsweredOk, Requests
<1>3. Current(c) \in Request
  BY <1>1, Look
<1>4. ASSUME RepliesOk(c), TakeMessage(c) PROVE RepliesOk(c)'
  <2>1. /\ Len(given'[c]) = Len(given[c]) + 1 /\ ArrivedHandler(c, Current(c))
        /\ Current(c)[1] # "junk"
    BY <1>1, <1>4, Taken
  <2>2. PICK answer \in Answer : Send(c, answer) /\ answer \in Expected(Current(c))
    <3>1. CASE Current(c)[1] = "hostless"
      <4>1. Send(c, "bad_request")
        BY <2>1, <3>1 DEF ArrivedHandler, ErrorHandler
      <4>2. "bad_request" \in Answer
        BY DEF Answer
      <4> QED BY <1>3, <2>1, <3>1, <4>1, <4>2, TakenExpected
    <3>2. CASE Current(c)[1] # "hostless"
      <4>1. Send(c, ProcessRequest(Current(c)[1]))
        BY <2>1, <3>2 DEF ArrivedHandler
      <4>2. ProcessRequest(Current(c)[1]) \in Answer
        BY DEF ProcessRequest, CheckResource, HandleGet, Answer
      <4> QED BY <1>3, <2>1, <3>2, <4>1, <4>2, TakenExpected
    <3> QED BY <3>1, <3>2
  <2> QED BY <1>1, <1>4, <2>1, <2>2, RepliesGrow
<1>5. ASSUME RepliesOk(c), Refuse(c) PROVE RepliesOk(c)'
  <2>1. \/ BadRequest(buffer[c]) /\ Send(c, "bad_request")
        \/ LengthRequired(buffer[c]) /\ Send(c, "length_required")
    BY <1>5 DEF Refuse, ErrorHandler
  <2>2. "bad_request" \in Answer /\ "length_required" \in Answer
    BY DEF Answer
  <2>3. CASE BadRequest(buffer[c]) /\ Send(c, "bad_request")
    <3>1. Current(c)[1] = "junk"
      BY <1>1, <2>3, Judge
    <3> QED BY <1>1, <1>3, <1>5, <2>2, <2>3, <3>1, RefusedExpected, RepliesGrow
  <2>4. CASE LengthRequired(buffer[c]) /\ Send(c, "length_required")
    <3>1. Current(c)[1] \in {"get", "locked", "hostless"}
      BY <1>1, <2>4, Judge
    <3> QED BY <1>1, <1>3, <1>5, <2>2, <2>4, <3>1, RefusedExpected, RepliesGrow
  <2> QED BY <2>1, <2>3, <2>4
<1>6. ASSUME RepliesOk(c), FindNothing(c) PROVE RepliesOk(c)'
  <2>1. queue' = queue /\ given' = given
    BY <1>6 DEF FindNothing
  <2>2. Total(c)' = Total(c) /\ \A i \in 1..Total(c) : Reply(c, i)' = Reply(c, i)
    BY <1>1, <2>1, ReplyFrame
  <2> QED BY <1>1, <1>6, <2>1, <2>2, RepliesSame, OutTypes
<1> QED BY <1>1, <1>2, <1>4, <1>5, <1>6 DEF Decode

LEMMA OrderNext == OrderInv /\ TextInv /\ TypeOK' /\ [Next]_vars => OrderInv'
<1> SUFFICES ASSUME OrderInv, TextInv, TypeOK', [Next]_vars PROVE OrderInv'
  OBVIOUS
<1> USE DEF netVars, decoderVars, inVars, outVars, sessionVars
<1>1. TypeOK /\ plan \in Plans
  BY DEF TextInv, TypeOK
<1>2. plan' = plan
  BY DEF Next, Handler, ReadHandler, ReadFailed, WriteCompleted, WriteFailed, PeerLeaves,
         TimePasses, BeginPass, Decode, FinishPass, vars
<1>3. Used' = Used
  BY <1>2 DEF Used
<1> SUFFICES ASSUME NEW d \in Used
             PROVE  AnsweredOk(d)' /\ (link'[d] # "broken" => RepliesOk(d)')
  BY <1>3 DEF OrderInv
<1>4. d \in Conns /\ AnsweredOk(d) /\ (link[d] # "broken" => RepliesOk(d))
  BY <1>1, RequestsType DEF OrderInv
<1>5. ASSUME given'[d] = given[d], answers'[d] = answers[d], writing'[d] = writing[d],
             queue'[d] = queue[d], link'[d] # "broken" => link[d] # "broken"
      PROVE  AnsweredOk(d)' /\ (link'[d] # "broken" => RepliesOk(d)')
  BY <1>1, <1>2, <1>4, <1>5, OrderFrame
<1>6. ASSUME NEW c \in Conns,
             ReadHandler(c) \/ ReadFailed(c) \/ PeerLeaves(c) \/ TimePasses(c) \/ BeginPass(c)
      PROVE  AnsweredOk(d)' /\ (link'[d] # "broken" => RepliesOk(d)')
  <2>1. link'[d] # "broken" => link[d] # "broken"
    BY <1>1, <1>4, <1>6
       DEF ReadHandler, ReadFailed, PeerLeaves, TimePasses, BeginPass, TypeOK
  <2>2. UNCHANGED <<given, answers, writing, queue>>
    BY <1>6 DEF ReadHandler, ReadFailed, PeerLeaves, TimePasses, BeginPass
  <2> QED BY <1>5, <2>1, <2>2
<1>7. ASSUME NEW c \in Conns, WriteCompleted(c)
      PROVE  AnsweredOk(d)' /\ (link'[d] # "broken" => RepliesOk(d)')
  <2>1. /\ link' = link /\ given' = given /\ queue' = queue /\ link[c] # "broken"
        /\ \A b \in Conns : b # c => writing'[b] = writing[b] /\ answers'[b] = answers[b]
    BY <1>1, <1>7 DEF WriteCompleted, TypeOK
  <2>2. CASE d # c
    BY <1>4, <1>5, <2>1, <2>2
  <2>3. CASE d = c
    <3>1. RepliesOk(d)'
      BY <1>1, <1>2, <1>4, <1>7, <2>1, <2>3, WriteReplies, RepliesSame, OutTypes
    <3>2. AnsweredOk(d)'
      BY <1>4, <3>1, DeliveredNext
    <3> QED BY <3>1, <3>2
  <2> QED BY <2>2, <2>3
<1>8. ASSUME NEW c \in Conns, WriteFailed(c)
      PROVE  AnsweredOk(d)' /\ (link'[d] # "broken" => RepliesOk(d)')
  <2>1. /\ given' = given /\ queue' = queue /\ answers' = answers
        /\ link'[c] = "broken"
        /\ \A b \in Conns : b # c => writing'[b] = writing[b] /\ link'[b] = link[b]
    BY <1>1, <1>8 DEF WriteFailed, TypeOK
  <2>2. CASE d # c
    BY <1>4, <1>5, <2>1, <2>2
  <2>3. CASE d = c
    BY <1>2, <1>4, <2>1, <2>3 DEF AnsweredOk, Requests
  <2> QED BY <2>2, <2>3
<1>9. ASSUME NEW c \in Conns, Decode(c)
      PROVE  AnsweredOk(d)' /\ (link'[d] # "broken" => RepliesOk(d)')
  <2>1. c \in Used
    BY <1>9, HttpAssumption DEF Decode, TextInv
  <2>2. CASE d = c
    BY <1>1, <1>4, <1>9, <2>2, OrderDecode
  <2>3. CASE d # c
    <3>1. UNCHANGED <<answers, writing, link>>
      BY <1>9 DEF Decode
    <3>2. given'[d] = given[d]
      BY <1>1, <1>4, <1>9, <2>3 DEF Decode, TakeMessage, Refuse, FindNothing, TypeOK
    <3>3. queue'[d] = queue[d]
      <4>1. CASE UNCHANGED queue
        BY <4>1
      <4>2. ASSUME NEW answer, Send(c, answer) PROVE queue'[d] = queue[d]
        BY <1>1, <1>4, <2>3, <4>2 DEF Send, TypeOK
      <4>3. UNCHANGED queue \/ \E answer : Send(c, answer)
        BY <1>9 DEF Decode, TakeMessage, ArrivedHandler, ErrorHandler, Refuse, FindNothing
      <4> QED BY <4>1, <4>2, <4>3
    <3> QED BY <1>5, <3>1, <3>2, <3>3
  <2> QED BY <2>2, <2>3
<1>10. ASSUME NEW c \in Conns, FinishPass(c)
       PROVE  AnsweredOk(d)' /\ (link'[d] # "broken" => RepliesOk(d)')
  <2>1. /\ link' = link /\ given' = given /\ answers' = answers
        /\ \A b \in Conns : b # c => writing'[b] = writing[b] /\ queue'[b] = queue[b]
    BY <1>1, <1>10 DEF FinishPass, TypeOK
  <2>2. CASE d # c
    BY <1>4, <1>5, <2>1, <2>2
  <2>3. CASE d = c
    <3>1. RepliesOk(d) => RepliesOk(d)'
      BY <1>1, <1>2, <1>4, <1>10, <2>1, <2>3, FinishReplies, RepliesSame, OutTypes
    <3>2. AnsweredOk(d)'
      BY <1>2, <1>4, <2>1 DEF AnsweredOk, Requests
    <3> QED BY <1>4, <2>1, <3>1, <3>2
  <2> QED BY <2>2, <2>3
<1>11. CASE UNCHANGED vars
  BY <1>5, <1>11 DEF vars
<1> QED
  BY <1>6, <1>7, <1>8, <1>9, <1>10, <1>11 DEF Next, Handler

(* What the plans must be like: see OneTalks.                              *)
Undivided == \A p \in Plans : p.atOnce \/ \E c \in Conns : DOMAIN p.requests \subseteq {c}

LEMMA TextAlways == ASSUME Undivided PROVE Spec => [](TypeOK /\ TextInv)
<1>1. Init => TextInv
  BY TextInit DEF Undivided, OneTalks, Init, Used
<1>2. TextInv /\ TypeOK' /\ [Next]_vars => TextInv'
  BY TextNext
<1> QED BY <1>1, <1>2, TypeCorrect, PTL DEF Spec

(* The session gets the requests of its connection whole and in order,     *)
(* however the text is cut on its way.                                     *)
THEOREM IntactHolds == ASSUME Undivided PROVE Spec => []Intact
  BY TextAlways, TextGives, PTL

(* The n-th answer a peer gets answers its n-th request, until one is      *)
(* refused: an answer is queued behind those that wait, in the step in     *)
(* which its request is taken, and nothing overtakes.  After a write that  *)
(* failed nothing more is sent.                                            *)
THEOREM InOrderHolds == ASSUME Undivided PROVE Spec => []InOrder
<1>1. OrderInv /\ TextInv /\ TypeOK' /\ [Next]_vars => OrderInv'
  BY OrderNext
<1> QED BY <1>1, OrderInit, TextAlways, OrderGives, PTL DEF Spec
=============================================================================
