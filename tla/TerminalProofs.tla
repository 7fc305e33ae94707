---------------------------- MODULE TerminalProofs ----------------------------
(***************************************************************************)
(* Proofs about the terminal sample, for any number of communicators and   *)
(* threads, and any plans.                                                 *)
(***************************************************************************)
EXTENDS Terminal, SequenceTheorems, TLAPS

USE TerminalAssumption, CommsAssumption

(* A thread that processes has a communicator in hand.                     *)
Typed ==
    /\ TypeOK
    /\ \A t \in Threads : pc[t] = "process" => cur[t] \in Comms

(* Taking some characters off the front of a sequence.                     *)
LEMMA Cut ==
  ASSUME NEW s \in Chars, NEW n \in 0..Len(s)
  PROVE  /\ SubSeq(s, 1, n) \in Chars
         /\ SubSeq(s, n + 1, Len(s)) \in Chars
         /\ SubSeq(s, 1, n) \o SubSeq(s, n + 1, Len(s)) = s
<1>1. Len(s) \in Nat /\ \A i \in 1..Len(s) : s[i] \in Nat
  BY LenProperties, ElementOfSeq DEF Chars
<1>2. SubSeq(s, 1, n) \in Chars
  BY <1>1, SubSeqProperties DEF Chars
<1>3. SubSeq(s, n + 1, Len(s)) \in Chars
  BY <1>1, SubSeqProperties DEF Chars
<1>4. SubSeq(s, 1, n) \o SubSeq(s, n + 1, Len(s)) = SubSeq(s, 1, Len(s))
  <2>1. 1 \in 1..Len(s) + 1 /\ n \in 1 - 1..Len(s) /\ Len(s) \in n..Len(s)
    BY <1>1
  <2> QED BY <2>1, ConcatAdjacentSubSeq DEF Chars
<1> QED
  BY <1>2, <1>3, <1>4, SubSeqFull DEF Chars

LEMMA Joined ==
  /\ \A s, t \in Chars : s \o t \in Chars
  /\ \A s, t, u \in Chars : (s \o t) \o u = s \o (t \o u)
<1>1. \A s, t \in Chars : s \o t \in Chars
  BY ConcatProperties DEF Chars
<1>2. ASSUME NEW s \in Chars, NEW t \in Chars, NEW u \in Chars
      PROVE  (s \o t) \o u = s \o (t \o u)
  <2>1. PICK S : S = Nat
    OBVIOUS
  <2>2. s \in Seq(S) /\ t \in Seq(S) /\ u \in Seq(S)
    BY <2>1 DEF Chars
  <2> QED BY ONLY <2>2, ConcatAssociative
<1> QED
  BY <1>1, <1>2

(* Something put behind four parts is put behind the last.                 *)
BehindLast(h, b, w, q, t) ==
    (h \o (b \o (w \o q))) \o t = h \o (b \o (w \o (q \o t)))

LEMMA Behind ==
  ASSUME NEW h \in Chars, NEW b \in Chars, NEW w \in Chars, NEW q \in Chars, NEW t \in Chars
  PROVE  BehindLast(h, b, w, q, t)
<1>1. w \o q \in Chars /\ (w \o q) \o t = w \o (q \o t)
  BY ONLY Joined
<1>2. b \o (w \o q) \in Chars
  BY ONLY <1>1, Joined
<1>3. (b \o (w \o q)) \o t = b \o ((w \o q) \o t)
  BY ONLY <1>1, Joined
<1>4. (h \o (b \o (w \o q))) \o t = h \o ((b \o (w \o q)) \o t)
  BY ONLY <1>2, Joined
<1> QED BY ONLY <1>1, <1>3, <1>4 DEF BehindLast

LEMMA InitType == Init => Typed
  BY DEF Init, Typed, TypeOK, ContainerInit, Plan, Chars

LEMMA PoolType ==
  ASSUME Typed, NEW t \in Threads, PoolStep(t)
  PROVE  Typed'
<1> USE DEF Typed, TypeOK, sendVars, peerVars
<1>1. CASE Begin(t)
  BY <1>1 DEF Begin, container
<1>2. CASE Take(t)
  <2>1. PICK c \in clients : TakeOut(c) /\ cur' = [cur EXCEPT ![t] = c]
                             /\ taken' = [taken EXCEPT ![t] = Append(@, c)]
    BY <1>2 DEF Take
  <2>2. c \in Comms
    OBVIOUS
  <2>3. taken' \in [Threads -> Seq(Comms)]
    <3>1. Append(taken[t], c) \in Seq(Comms)
      BY <2>2, AppendProperties
    <3> QED BY <2>1, <3>1
  <2>4. clients' \subseteq Comms /\ excluded' \subseteq Comms /\ clients' \cap excluded' = {}
    BY <2>1 DEF TakeOut
  <2> QED BY <1>2, <2>1, <2>2, <2>3, <2>4 DEF Take
<1>3. CASE TakeNone(t)
  BY <1>3 DEF TakeNone, container
<1>4. CASE ProcessFresh(t)
  BY <1>4 DEF ProcessFresh, container
<1>5. CASE ProcessQueue(t)
  <2> DEFINE c == cur[t]
  <2>1. c \in Comms /\ queue[c] \in Chars /\ wire[c] \in Chars
    BY <1>5 DEF ProcessQueue
  <2>2. PICK n \in 0..Len(queue[c]) :
           /\ wire' = [wire EXCEPT ![c] = @ \o SubSeq(queue[c], 1, n)]
           /\ queue' = [queue EXCEPT ![c] = SubSeq(@, n + 1, Len(@))]
    BY <1>5 DEF ProcessQueue
  <2>3. SubSeq(queue[c], 1, n) \in Chars /\ SubSeq(queue[c], n + 1, Len(queue[c])) \in Chars
    BY <2>1, Cut
  <2>4. wire[c] \o SubSeq(queue[c], 1, n) \in Chars
    BY <2>1, <2>3, ConcatProperties DEF Chars
  <2>5. wire' \in [Comms -> Chars] /\ queue' \in [Comms -> Chars]
    BY <2>2, <2>3, <2>4
  <2> QED BY <1>5, <2>5 DEF ProcessQueue, container
<1>6. CASE ProcessLost(t)
  BY <1>6 DEF ProcessLost, Erase
<1>7. CASE GiveBack(t)
  <2>1. CASE taken[t] = <<>>
    BY <1>7, <2>1 DEF GiveBack, container
  <2>2. CASE taken[t] # <<>>
    <3> DEFINE c == Head(taken[t])
    <3>1. c \in Comms /\ Tail(taken[t]) \in Seq(Comms)
      BY <2>2, HeadTailProperties
    <3>2. GetBack(c) /\ taken' = [taken EXCEPT ![t] = Tail(@)] /\ UNCHANGED <<pc, cur>>
      BY <1>7, <2>2 DEF GiveBack
    <3>3. taken' \in [Threads -> Seq(Comms)]
      BY <3>1, <3>2
    <3>4. clients' \subseteq Comms /\ excluded' \subseteq Comms /\ clients' \cap excluded' = {}
      BY <3>1, <3>2 DEF GetBack
    <3> QED BY <1>7, <3>1, <3>2, <3>3, <3>4 DEF GiveBack
  <2> QED BY <2>1, <2>2
<1> QED
  BY <1>1, <1>2, <1>3, <1>4, <1>5, <1>6, <1>7 DEF PoolStep

LEMMA TypingType ==
  ASSUME Typed, TypingStep
  PROVE  Typed'
<1> USE DEF Typed, TypeOK, poolVars, peerVars
<1>0. typed \in Nat /\ plan.chars \in Nat
  BY DEF Plan
<1>1. CASE Getch
  <2>1. typed' \in 0..plan'.chars
    BY <1>0, <1>1 DEF Getch
  <2> QED BY <1>1, <2>1 DEF Getch, container
<1>2. ASSUME NEW S \in SUBSET Comms, NEW next \in {"excluded", "getch"}, Walk(S, next)
      PROVE  /\ queue' \in [Comms -> Chars] /\ given' \in [Comms -> Chars]
             /\ typing' \in {"excluded", "getch", "dead"}
  <2>1. \A c \in Comms : Append(queue[c], typed) \in Chars /\ Append(given[c], typed) \in Chars
    BY <1>0, AppendProperties DEF Chars
  <2> QED BY <1>2, <2>1 DEF Walk
<1>3. CASE WalkClients
  BY <1>2, <1>3 DEF WalkClients, Contents, container
<1>4. CASE WalkExcluded
  BY <1>2, <1>4 DEF WalkExcluded, container
<1> QED
  BY <1>1, <1>3, <1>4 DEF TypingStep

LEMMA ConnectionType ==
  ASSUME Typed, NEW c \in Comms, Accept(c) \/ PeerLeaves(c)
  PROVE  Typed'
  BY DEF Typed, TypeOK, sendVars, peerVars, Accept, PeerLeaves, Insert, container

LEMMA PeerType ==
  ASSUME Typed, NEW c \in Comms, PeerReads(c) \/ PeerPass(c)
  PROVE  Typed'
<1> USE DEF Typed, TypeOK, poolVars, sendVars, container
<1>1. CASE ReadHandler(c)
  <2>1. PICK n \in 1..Len(wire[c]) :
           /\ buffer' = [buffer EXCEPT ![c] = @ \o SubSeq(wire[c], 1, n)]
           /\ wire' = [wire EXCEPT ![c] = SubSeq(@, n + 1, Len(@))]
    BY <1>1 DEF ReadHandler
  <2>2. Len(wire[c]) \in Nat
    BY LenProperties DEF Chars
  <2>3. n \in 0..Len(wire[c])
    BY <2>1, <2>2
  <2>4. SubSeq(wire[c], 1, n) \in Chars /\ SubSeq(wire[c], n + 1, Len(wire[c])) \in Chars
    BY <2>3, Cut
  <2>5. buffer[c] \o SubSeq(wire[c], 1, n) \in Chars
    BY <2>4, ConcatProperties DEF Chars
  <2>6. wire' \in [Comms -> Chars] /\ buffer' \in [Comms -> Chars]
    BY <2>1, <2>4, <2>5
  <2> QED BY <1>1, <2>6 DEF ReadHandler
<1>2. CASE SetUpdated(c)
  BY <1>2 DEF SetUpdated
<1>3. CASE ProcessArrived(c)
  BY <1>3 DEF ProcessArrived
<1>4. CASE CopyBuffer(c)
  BY <1>4 DEF CopyBuffer
<1>5. CASE ClearBuffer(c)
  <2>1. shown[c] \o held[c] \in Chars /\ <<>> \in Chars
    BY ConcatProperties, EmptySeq DEF Chars
  <2> QED BY <1>5, <2>1 DEF ClearBuffer
<1>6. CASE ClearUpdated(c)
  BY <1>6 DEF ClearUpdated
<1> QED
  BY <1>1, <1>2, <1>3, <1>4, <1>5, <1>6 DEF PeerReads, PeerPass

LEMMA NextType == Typed /\ [Next]_vars => Typed'
<1> SUFFICES ASSUME Typed, [Next]_vars PROVE Typed'
  OBVIOUS
<1>1. CASE UNCHANGED vars
  BY <1>1 DEF Typed, TypeOK, vars, container, poolVars, sendVars, peerVars
<1> QED
  BY <1>1, PoolType, TypingType, ConnectionType, PeerType DEF Next

LEMMA Typing == Spec => []Typed
  BY InitType, NextType, PTL DEF Spec

(* The state keeps its type, and a communicator is never in both           *)
(* collections, whatever the threads of the pool do.                       *)
THEOREM TypeCorrect == Spec => []TypeOK
  BY Typing, PTL DEF Typed

----------------------------------------------------------------------------
(* Sequences that lose elements.  An embedding of one in another stays one *)
(* when both get the same element more, and when the smaller one loses     *)
(* some in the middle.                                                     *)
Embeds(f, s, t) ==
    /\ f \in [DOMAIN s -> DOMAIN t]
    /\ \A i, j \in DOMAIN s : i < j => f[i] < f[j]
    /\ \A i \in DOMAIN s : t[f[i]] = s[i]

LEMMA WithinItself == ASSUME NEW s \in Chars PROVE Within(s, s)
<1> DEFINE f == [i \in DOMAIN s |-> i]
<1>1. Embeds(f, s, s)
  BY DEF Embeds
<1> QED BY <1>1 DEF Within, Embeds

LEMMA Grown ==
  ASSUME NEW s \in Chars, NEW x \in Nat
  PROVE  /\ Append(s, x) \in Chars
         /\ Len(s) \in Nat /\ DOMAIN s = 1..Len(s)
         /\ DOMAIN Append(s, x) = 1..Len(s) + 1
         /\ Append(s, x)[Len(s) + 1] = x
         /\ \A i \in 1..Len(s) : Append(s, x)[i] = s[i]
<1>1. /\ Append(s, x) \in Seq(Nat) /\ Len(Append(s, x)) = Len(s) + 1
      /\ \A i \in 1..Len(s) : Append(s, x)[i] = s[i]
      /\ Append(s, x)[Len(s) + 1] = x
  BY AppendProperties DEF Chars
<1>2. DOMAIN Append(s, x) = 1..Len(Append(s, x)) /\ DOMAIN s = 1..Len(s) /\ Len(s) \in Nat
  BY <1>1, LenProperties DEF Chars
<1> QED BY <1>1, <1>2 DEF Chars

LEMMA WithinGrows ==
  ASSUME NEW s \in Chars, NEW t \in Chars, NEW x \in Nat, Within(s, t)
  PROVE  Within(Append(s, x), Append(t, x))
<1>1. PICK f : Embeds(f, s, t)
  BY DEF Within, Embeds
<1> DEFINE m == Len(s)
           n == Len(t)
           u == Append(s, x)
           v == Append(t, x)
           g == [i \in 1..m + 1 |-> IF i = m + 1 THEN n + 1 ELSE f[i]]
<1>2. /\ m \in Nat /\ DOMAIN s = 1..m /\ DOMAIN u = 1..m + 1
      /\ u[m + 1] = x /\ \A i \in 1..m : u[i] = s[i]
  BY Grown
<1>3. /\ n \in Nat /\ DOMAIN t = 1..n /\ DOMAIN v = 1..n + 1
      /\ v[n + 1] = x /\ \A i \in 1..n : v[i] = t[i]
  BY Grown
<1> HIDE DEF m, n, u, v
<1>4. /\ \A i \in 1..m : f[i] \in 1..n /\ t[f[i]] = s[i]
      /\ \A i, j \in 1..m : i < j => f[i] < f[j]
  BY <1>1, <1>2, <1>3 DEF Embeds
<1>5. g \in [1..m + 1 -> 1..n + 1]
  BY <1>2, <1>3, <1>4
<1>6. \A i, j \in 1..m + 1 : i < j => g[i] < g[j]
  <2> SUFFICES ASSUME NEW i \in 1..m + 1, NEW j \in 1..m + 1, i < j PROVE g[i] < g[j]
    OBVIOUS
  <2>1. i \in 1..m /\ g[i] = f[i]
    BY <1>2
  <2>2. CASE j = m + 1
    <3>1. g[j] = n + 1
      BY <2>2
    <3> HIDE DEF g
    <3> QED BY <1>3, <1>4, <2>1, <3>1
  <2>3. CASE j # m + 1
    <3>1. j \in 1..m /\ g[j] = f[j]
      BY <1>2, <2>3
    <3> HIDE DEF g
    <3> QED BY <1>4, <2>1, <3>1
  <2> QED BY <2>2, <2>3
<1>7. \A i \in 1..m + 1 : v[g[i]] = u[i]
  BY <1>2, <1>3, <1>4
<1> HIDE DEF g
<1>8. Embeds(g, u, v)
  BY <1>2, <1>3, <1>5, <1>6, <1>7 DEF Embeds
<1> QED BY <1>8 DEF Within, Embeds, u, v

LEMMA Both ==
  ASSUME NEW s \in Chars, NEW t \in Chars
  PROVE  /\ s \o t \in Chars
         /\ Len(s) \in Nat /\ Len(t) \in Nat
         /\ DOMAIN s = 1..Len(s) /\ DOMAIN t = 1..Len(t)
         /\ DOMAIN (s \o t) = 1..Len(s) + Len(t)
         /\ \A i \in 1..Len(s) + Len(t) :
               (s \o t)[i] = IF i <= Len(s) THEN s[i] ELSE t[i - Len(s)]
<1>1. /\ s \o t \in Seq(Nat) /\ Len(s \o t) = Len(s) + Len(t)
      /\ \A i \in 1..Len(s) + Len(t) :
            (s \o t)[i] = IF i <= Len(s) THEN s[i] ELSE t[i - Len(s)]
  BY ConcatProperties DEF Chars
<1>2. Len(s) \in Nat /\ Len(t) \in Nat /\ DOMAIN s = 1..Len(s) /\ DOMAIN t = 1..Len(t)
  BY LenProperties DEF Chars
<1>3. DOMAIN (s \o t) = 1..Len(s \o t)
  BY <1>1, LenProperties
<1> QED BY <1>1, <1>2, <1>3 DEF Chars

LEMMA WithinLoses ==
  ASSUME NEW a \in Chars, NEW b \in Chars, NEW x \in Chars, NEW t \in Chars,
         Within(a \o (x \o b), t)
  PROVE  Within(a \o b, t)
<1> DEFINE s == a \o (x \o b)
           u == a \o b
           k == Len(a)
           l == Len(x)
           m == Len(b)
           at == [i \in 1..k + m |-> IF i <= k THEN i ELSE i + l]
<1>1. PICK f : Embeds(f, s, t)
  BY DEF Within, Embeds
<1>2. /\ k \in Nat /\ m \in Nat /\ l \in Nat
      /\ DOMAIN u = 1..k + m
      /\ \A i \in 1..k + m : u[i] = IF i <= k THEN a[i] ELSE b[i - k]
  BY Both
<1>3. /\ x \o b \in Chars
      /\ DOMAIN (x \o b) = 1..l + m
      /\ \A i \in 1..l + m : (x \o b)[i] = IF i <= l THEN x[i] ELSE b[i - l]
  BY Both
<1>4. /\ DOMAIN s = 1..k + Len(x \o b)
      /\ \A i \in 1..k + Len(x \o b) :
            s[i] = IF i <= k THEN a[i] ELSE (x \o b)[i - k]
  BY <1>3, Both
<1>5. Len(x \o b) = l + m
  BY ConcatProperties DEF Chars
<1> HIDE DEF s, u, k, l, m
<1>6. /\ DOMAIN s = 1..k + (l + m)
      /\ \A i \in 1..k + (l + m) : s[i] = IF i <= k THEN a[i] ELSE (x \o b)[i - k]
  BY <1>4, <1>5
<1>7. /\ \A i \in 1..k + m : at[i] \in 1..k + (l + m)
      /\ \A i, j \in 1..k + m : i < j => at[i] < at[j]
  BY <1>2
<1>8. \A i \in 1..k + m : s[at[i]] = u[i]
  <2> SUFFICES ASSUME NEW i \in 1..k + m PROVE s[at[i]] = u[i]
    OBVIOUS
  <2>1. CASE i <= k
    <3>1. at[i] = i /\ i \in 1..k + (l + m)
      BY <1>2, <2>1
    <3> QED BY <1>2, <1>6, <2>1, <3>1
  <2>2. CASE ~(i <= k)
    <3>1. at[i] = i + l
      BY <2>2
    <3> HIDE DEF at
    <3>2. PICK p \in 1..k + (l + m) : p = i + l
      BY <1>2, <2>2
    <3>3. PICK q \in 1..l + m : q = p - k
      BY <1>2, <2>2, <3>2
    <3>4. ~(p <= k) /\ ~(q <= l) /\ q - l = i - k
      BY <1>2, <2>2, <3>2, <3>3
    <3>5. s[p] = (x \o b)[p - k]
      BY <1>6, <3>4
    <3>6. (x \o b)[q] = b[q - l]
      BY <1>3, <3>4
    <3>7. u[i] = b[i - k]
      BY <1>2, <2>2
    <3> QED BY <3>1, <3>2, <3>3, <3>4, <3>5, <3>6, <3>7
  <2> QED BY <2>1, <2>2
<1> DEFINE g == [i \in 1..k + m |-> f[at[i]]]
<1>9. Embeds(g, u, t)
  <2> HIDE DEF at
  <2>1. /\ \A i \in 1..k + (l + m) : f[i] \in DOMAIN t /\ t[f[i]] = s[i]
        /\ \A i, j \in 1..k + (l + m) : i < j => f[i] < f[j]
    BY <1>1, <1>6 DEF Embeds
  <2>2. g \in [1..k + m -> DOMAIN t] /\ \A i \in 1..k + m : t[g[i]] = u[i]
    BY <1>7, <1>8, <2>1
  <2>3. \A i, j \in 1..k + m : i < j => g[i] < g[j]
    BY <1>7, <2>1
  <2> HIDE DEF g
  <2> QED BY <1>2, <2>2, <2>3 DEF Embeds
<1> QED BY <1>9 DEF Within, Embeds, u

----------------------------------------------------------------------------
(* A peer.  Between copy and clear the buffer begins with what was copied: *)
(* what the clear loses is what came behind it, in the middle of the way.  *)
BeginsWith(s, h) == \E rest \in Chars : s = h \o rest

WayInv ==
    /\ Typed
    /\ \A c \in Comms : /\ Within(Way(c), given[c])
                        /\ pass[c] = "clear" => BeginsWith(buffer[c], held[c])

LEMMA WayInit == Init => WayInv
<1> SUFFICES ASSUME Init PROVE WayInv
  OBVIOUS
<1>1. \A c \in Comms : given[c] = <<>> /\ Way(c) = <<>> \o (<<>> \o (<<>> \o <<>>))
  BY DEF Init, Way
<1>2. <<>> \o <<>> = <<>> /\ <<>> \in Chars
  BY ConcatEmptySeq, EmptySeq DEF Chars
<1>3. \A c \in Comms : pass[c] # "clear"
  BY DEF Init
<1>4. Within(<<>>, <<>>)
  BY <1>2, WithinItself
<1> QED
  BY <1>1, <1>2, <1>3, <1>4, InitType DEF WayInv

LEMMA WayQuiet ==
  ASSUME WayInv, Typed', UNCHANGED <<given, shown, buffer, wire, queue, held>>,
         \A c \in Comms : pass'[c] = "clear" => pass[c] = "clear"
  PROVE  WayInv'
<1>1. \A c \in Comms : Way(c)' = Way(c)
  BY DEF Way
<1> QED
  BY <1>1 DEF WayInv

LEMMA WayMoves ==
  ASSUME WayInv, Typed', UNCHANGED given, NEW c \in Comms,
         \A d \in Comms \ {c} : /\ shown'[d] = shown[d] /\ buffer'[d] = buffer[d]
                                /\ wire'[d] = wire[d] /\ queue'[d] = queue[d]
                                /\ pass'[d] = pass[d] /\ held'[d] = held[d],
         Within(Way(c)', given[c]),
         pass'[c] = "clear" => BeginsWith(buffer'[c], held'[c])
  PROVE  WayInv'
<1>1. \A d \in Comms \ {c} : Way(d)' = Way(d)
  BY DEF Way
<1> QED
  BY <1>1 DEF WayInv

LEMMA WayPool ==
  ASSUME WayInv, Typed', NEW t \in Threads, PoolStep(t)
  PROVE  WayInv'
<1>1. CASE ProcessQueue(t)
  <2>0. PICK c \in Comms : c = cur[t]
    BY <1>1 DEF ProcessQueue, WayInv, Typed
  <2>1. queue[c] \in Chars /\ wire[c] \in Chars
        /\ queue \in [Comms -> Chars] /\ wire \in [Comms -> Chars]
    BY <1>1 DEF ProcessQueue, WayInv, Typed, TypeOK
  <2>2. PICK n \in 0..Len(queue[c]) :
           /\ wire' = [wire EXCEPT ![c] = @ \o SubSeq(queue[c], 1, n)]
           /\ queue' = [queue EXCEPT ![c] = SubSeq(@, n + 1, Len(@))]
    BY <1>1, <2>0 DEF ProcessQueue
  <2>3. UNCHANGED <<given, shown, buffer, pass, held>>
    BY <1>1 DEF ProcessQueue, sendVars, peerVars
  <2> DEFINE x == SubSeq(queue[c], 1, n)
             y == SubSeq(queue[c], n + 1, Len(queue[c]))
  <2>4. x \in Chars /\ y \in Chars /\ x \o y = queue[c]
    BY <2>1, Cut
  <2>5. wire'[c] = wire[c] \o x /\ queue'[c] = y
    BY <2>1, <2>2
  <2> HIDE DEF x, y
  <2>6. wire'[c] \o queue'[c] = wire[c] \o queue[c]
    <3>1. (wire[c] \o x) \o y = wire[c] \o (x \o y)
      BY <2>1, <2>4, Joined
    <3> QED BY <2>4, <2>5, <3>1
  <2>7. Way(c)' = Way(c)
    <3>1. shown'[c] = shown[c] /\ buffer'[c] = buffer[c]
      BY <2>3
    <3> QED BY <2>6, <3>1 DEF Way
  <2>8. \A d \in Comms \ {c} : wire'[d] = wire[d] /\ queue'[d] = queue[d]
    BY <2>1, <2>2
  <2>9. \A d \in Comms : /\ shown'[d] = shown[d] /\ buffer'[d] = buffer[d]
                         /\ pass'[d] = pass[d] /\ held'[d] = held[d]
    BY <2>3
  <2>10. Within(Way(c), given[c]) /\ (pass[c] = "clear" => BeginsWith(buffer[c], held[c]))
    BY DEF WayInv
  <2> QED BY <2>3, <2>7, <2>8, <2>9, <2>10, WayMoves
<1>2. CASE ~ProcessQueue(t)
  <2>1. UNCHANGED <<given, shown, buffer, wire, queue, held, pass>>
    BY <1>2 DEF PoolStep, Begin, Take, TakeNone, ProcessFresh, ProcessLost, GiveBack,
         sendVars, peerVars
  <2> QED BY <2>1, WayQuiet
<1> QED
  BY <1>1, <1>2

LEMMA WayTyping ==
  ASSUME WayInv, Typed', TypingStep
  PROVE  WayInv'
<1>1. UNCHANGED <<shown, buffer, wire, held, pass>>
  BY DEF TypingStep, Getch, WalkClients, WalkExcluded, peerVars
<1>2. CASE Getch
  BY <1>1, <1>2, WayQuiet DEF Getch
<1>3. ASSUME NEW S, NEW next, Walk(S, next) PROVE WayInv'
  <2>1. ASSUME NEW c \in Comms PROVE Within(Way(c), given[c])'
    <3>1. /\ shown[c] \in Chars /\ buffer[c] \in Chars /\ wire[c] \in Chars
          /\ queue[c] \in Chars /\ given[c] \in Chars /\ typed \in Nat
      BY DEF WayInv, Typed, TypeOK, Plan
    <3>2. Within(Way(c), given[c])
      BY DEF WayInv
    <3>3. CASE c \notin Walked(S)
      <4>1. given'[c] = given[c] /\ queue'[c] = queue[c]
        BY <1>3, <3>3 DEF Walk
      <4>2. Way(c)' = Way(c)
        BY <1>1, <4>1 DEF Way
      <4> QED BY <3>2, <4>1, <4>2
    <3>4. CASE c \in Walked(S)
      <4>1. given'[c] = Append(given[c], typed) /\ queue'[c] = Append(queue[c], typed)
        BY <1>3, <3>4 DEF Walk
      <4> DEFINE e == <<typed>>
      <4>2. e \in Chars
        BY <3>1 DEF Chars
      <4>3. \A s \in Chars : Append(s, typed) = s \o e
        BY <3>1, AppendIsConcat DEF Chars
      <4> HIDE DEF e
      <4>4. Way(c) \o e = shown[c] \o (buffer[c] \o (wire[c] \o (queue[c] \o e)))
        <5>1. BehindLast(shown[c], buffer[c], wire[c], queue[c], e)
          BY ONLY <3>1, <4>2, Behind, Zenon
        <5> QED BY ONLY <5>1 DEF Way, BehindLast
      <4>5. Way(c)' = shown[c] \o (buffer[c] \o (wire[c] \o (queue[c] \o e)))
        BY <1>1, <3>1, <4>1, <4>3 DEF Way
      <4>6. Way(c) \in Chars
        <5>1. wire[c] \o queue[c] \in Chars
          BY ONLY <3>1, Joined
        <5>2. buffer[c] \o (wire[c] \o queue[c]) \in Chars
          BY ONLY <3>1, <5>1, Joined
        <5>3. shown[c] \o (buffer[c] \o (wire[c] \o queue[c])) \in Chars
          BY ONLY <3>1, <5>2, Joined
        <5> QED BY ONLY <5>3 DEF Way
      <4>7. Way(c)' = Append(Way(c), typed)
        BY <4>3, <4>4, <4>5, <4>6
      <4>8. Within(Append(Way(c), typed), Append(given[c], typed))
        <5> HIDE DEF Way
        <5> QED BY ONLY <3>1, <3>2, <4>6, WithinGrows
      <4> QED BY <4>1, <4>7, <4>8
    <3> QED BY <3>3, <3>4
  <2> QED BY <1>1, <2>1 DEF WayInv
<1> QED
  BY <1>2, <1>3 DEF TypingStep, WalkClients, WalkExcluded

LEMMA WayRead ==
  ASSUME WayInv, Typed', NEW c \in Comms, ReadHandler(c)
  PROVE  WayInv'
<1>1. /\ buffer \in [Comms -> Chars] /\ wire \in [Comms -> Chars]
      /\ queue[c] \in Chars /\ held[c] \in Chars
  BY DEF WayInv, Typed, TypeOK
<1>2. UNCHANGED <<given, queue, shown, held, pass>>
  BY DEF ReadHandler, sendVars
<1>3. PICK n \in 1..Len(wire[c]) :
         /\ buffer' = [buffer EXCEPT ![c] = @ \o SubSeq(wire[c], 1, n)]
         /\ wire' = [wire EXCEPT ![c] = SubSeq(@, n + 1, Len(@))]
  BY DEF ReadHandler
<1>4. n \in 0..Len(wire[c])
  <2>1. Len(wire[c]) \in Nat
    BY <1>1, LenProperties DEF Chars
  <2> QED BY <1>3, <2>1
<1> DEFINE x == SubSeq(wire[c], 1, n)
           y == SubSeq(wire[c], n + 1, Len(wire[c]))
<1>5. x \in Chars /\ y \in Chars /\ x \o y = wire[c]
  BY <1>1, <1>4, Cut
<1>6. /\ buffer'[c] = buffer[c] \o x /\ wire'[c] = y
      /\ \A d \in Comms \ {c} : buffer'[d] = buffer[d] /\ wire'[d] = wire[d]
  BY <1>1, <1>3
<1>7. buffer[c] \in Chars /\ wire[c] \in Chars
  BY <1>1
<1> HIDE DEF x, y
<1>8. buffer'[c] \o (wire'[c] \o queue'[c]) = buffer[c] \o (wire[c] \o queue[c])
  <2>1. wire[c] \o queue[c] = x \o (y \o queue[c])
    <3>1. (x \o y) \o queue[c] = x \o (y \o queue[c])
      BY <1>1, <1>5, Joined
    <3> QED BY <1>5, <3>1
  <2>2. y \o queue[c] \in Chars
    BY <1>1, <1>5, Joined
  <2>3. (buffer[c] \o x) \o (y \o queue[c]) = buffer[c] \o (x \o (y \o queue[c]))
    BY <1>5, <1>7, <2>2, Joined
  <2> QED BY <1>2, <1>6, <2>1, <2>3
<1>9. Way(c)' = Way(c)
  BY <1>2, <1>8 DEF Way
<1>10. ASSUME pass'[c] = "clear" PROVE BeginsWith(buffer'[c], held'[c])
  <2>1. PICK rest \in Chars : buffer[c] = held[c] \o rest
    BY <1>2, <1>10 DEF WayInv, BeginsWith
  <2>2. rest \o x \in Chars /\ (held[c] \o rest) \o x = held[c] \o (rest \o x)
    BY <1>1, <1>5, <2>1, Joined
  <2>3. buffer'[c] = held'[c] \o (rest \o x)
    BY <1>2, <1>6, <2>1, <2>2
  <2> QED BY <2>2, <2>3 DEF BeginsWith
<1>11. Within(Way(c)', given[c])
  BY <1>9 DEF WayInv
<1>12. \A d \in Comms : shown'[d] = shown[d] /\ queue'[d] = queue[d]
                        /\ pass'[d] = pass[d] /\ held'[d] = held[d]
  BY <1>2
<1> QED BY <1>2, <1>6, <1>10, <1>11, <1>12, WayMoves

LEMMA WayClear ==
  ASSUME WayInv, Typed', NEW c \in Comms, ClearBuffer(c)
  PROVE  WayInv'
<1>1. /\ shown \in [Comms -> Chars] /\ buffer \in [Comms -> Chars]
      /\ held \in [Comms -> Chars] /\ wire[c] \in Chars /\ queue[c] \in Chars
      /\ pass \in [Comms -> {"idle", "decode", "clear", "unflag"}]
      /\ given[c] \in Chars
  BY DEF WayInv, Typed, TypeOK
<1>2. UNCHANGED <<given, queue, wire>>
  BY DEF ClearBuffer, sendVars
<1>3. /\ pass[c] = "clear" /\ pass'[c] = "decode"
      /\ shown'[c] = shown[c] \o held[c] /\ buffer'[c] = <<>>
      /\ \A d \in Comms \ {c} : /\ pass'[d] = pass[d] /\ held'[d] = held[d]
                                /\ shown'[d] = shown[d] /\ buffer'[d] = buffer[d]
  BY <1>1 DEF ClearBuffer
<1>4. PICK rest \in Chars : buffer[c] = held[c] \o rest
  BY <1>3 DEF WayInv, BeginsWith
<1> DEFINE a == shown[c] \o held[c]
           z == wire[c] \o queue[c]
<1>5. a \in Chars /\ z \in Chars /\ shown[c] \in Chars /\ held[c] \in Chars
  BY <1>1, Joined
<1>6. Way(c) = shown[c] \o ((held[c] \o rest) \o z) /\ Way(c)' = a \o (<<>> \o z)
  BY <1>2, <1>3, <1>4 DEF Way
<1>7. Way(c) = a \o (rest \o z)
  <2> HIDE DEF z
  <2>1. rest \o z \in Chars /\ (held[c] \o rest) \o z = held[c] \o (rest \o z)
    BY <1>4, <1>5, Joined
  <2>2. (shown[c] \o held[c]) \o (rest \o z) = shown[c] \o (held[c] \o (rest \o z))
    BY <1>5, <2>1, Joined
  <2> QED BY <1>6, <2>1, <2>2
<1> HIDE DEF a, z
<1>8. Way(c)' = a \o z
  <2>1. <<>> \o z = z
    BY <1>5, ConcatEmptySeq DEF Chars
  <2> QED BY <1>6, <2>1
<1>9. Within(Way(c), given[c])
  BY DEF WayInv
<1>10. Within(a \o (rest \o z), given[c])
  BY <1>7, <1>9
<1>11. Within(a \o z, given[c])
  BY ONLY <1>1, <1>4, <1>5, <1>10, WithinLoses
<1>12. Within(Way(c)', given[c])
  BY <1>8, <1>11
<1> QED BY <1>2, <1>3, <1>12, WayMoves

LEMMA WayPeer ==
  ASSUME WayInv, Typed', NEW c \in Comms, PeerReads(c) \/ PeerPass(c)
  PROVE  WayInv'
<1>1. CASE ReadHandler(c)
  BY <1>1, WayRead
<1>2. CASE ClearBuffer(c)
  BY <1>2, WayClear
<1>3. /\ buffer \in [Comms -> Chars] /\ held \in [Comms -> Chars]
      /\ pass \in [Comms -> {"idle", "decode", "clear", "unflag"}]
  BY DEF WayInv, Typed, TypeOK
<1>4. CASE CopyBuffer(c)
  <2>1. /\ UNCHANGED <<shown, buffer, wire, given, queue>>
        /\ held'[c] = buffer[c]
        /\ \A d \in Comms \ {c} : pass'[d] = pass[d] /\ held'[d] = held[d]
    BY <1>3, <1>4 DEF CopyBuffer, sendVars
  <2>2. Way(c)' = Way(c)
    BY <2>1 DEF Way
  <2>3. buffer'[c] = held'[c] \o <<>> /\ <<>> \in Chars
    <3>1. buffer[c] \in Chars
      BY <1>3
    <3> QED BY <2>1, <3>1, ConcatEmptySeq, EmptySeq DEF Chars
  <2>4. BeginsWith(buffer'[c], held'[c])
    BY <2>3 DEF BeginsWith
  <2>5. Within(Way(c)', given[c])
    BY <2>2 DEF WayInv
  <2> QED BY <2>1, <2>4, <2>5, WayMoves
<1>5. CASE SetUpdated(c) \/ ProcessArrived(c) \/ ClearUpdated(c)
  <2>1. UNCHANGED <<given, shown, buffer, wire, queue, held>>
    BY <1>5 DEF SetUpdated, ProcessArrived, ClearUpdated, sendVars
  <2>2. \A d \in Comms : pass'[d] = "clear" => pass[d] = "clear"
    BY <1>3, <1>5 DEF SetUpdated, ProcessArrived, ClearUpdated
  <2> QED BY <2>1, <2>2, WayQuiet
<1> QED
  BY <1>1, <1>2, <1>4, <1>5 DEF PeerReads, PeerPass

LEMMA WayNext == WayInv /\ [Next]_vars => WayInv'
<1> SUFFICES ASSUME WayInv, [Next]_vars PROVE WayInv'
  OBVIOUS
<1>1. Typed'
  BY NextType DEF WayInv
<1>2. ASSUME NEW c \in Comms, Accept(c) \/ PeerLeaves(c) PROVE WayInv'
  BY <1>1, <1>2, WayQuiet DEF Accept, PeerLeaves, sendVars, peerVars
<1>3. CASE UNCHANGED vars
  BY <1>1, <1>3, WayQuiet DEF vars, sendVars, peerVars
<1> QED
  BY <1>1, <1>2, <1>3, WayPool, WayTyping, WayPeer DEF Next

(* However reads come between the copy and the clear of the buffer, a peer *)
(* shows only what it was sent, in order and nothing twice.                *)
THEOREM NothingInventedHolds == Spec => []NothingInvented
<1>1. WayInv => NothingInvented
  BY DEF WayInv, NothingInvented
<1> QED
  BY <1>1, WayInit, WayNext, PTL DEF Spec
=============================================================================
