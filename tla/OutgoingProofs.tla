--------------------------- MODULE OutgoingProofs ---------------------------
(***************************************************************************)
(* Proofs about the outgoing path for any number of senders and messages.  *)
(***************************************************************************)
EXTENDS Outgoing, FiniteSetTheorems, SequenceTheorems, TLAPS

USE OutgoingAssumption

Typed ==
    /\ TypeOK
    /\ \A a \in Actors : spc[a] # "idle" => sending[a] \in Msgs
    /\ stage = "pop" => front \in Msgs /\ queue # <<>>

(* What InsertAfter does, element by element.                              *)
LEMMA InsertAfterElements ==
  ASSUME NEW q \in Seq(Msgs), NEW n \in 0..Len(q), NEW m \in Msgs
  PROVE  /\ InsertAfter(q, n, m) \in Seq(Msgs)
         /\ Len(InsertAfter(q, n, m)) = Len(q) + 1
         /\ \A i \in 1..n : InsertAfter(q, n, m)[i] = q[i]
         /\ InsertAfter(q, n, m)[n + 1] = m
         /\ \A i \in (n + 1)..Len(q) : InsertAfter(q, n, m)[i + 1] = q[i]
<1> DEFINE head == SubSeq(q, 1, n)
           tail == SubSeq(q, n + 1, Len(q))
           L == Len(q)
<1>0. L \in Nat /\ n \in Nat /\ n <= L /\ \A i \in 1..L : q[i] \in Msgs
  BY LenProperties, ElementOfSeq
<1>1. head \in Seq(Msgs) /\ Len(head) = n /\ \A i \in 1..n : head[i] = q[i]
  <2> HIDE DEF L
  <2>1. \A i \in 1..n : q[i] \in Msgs
    BY <1>0
  <2>2. /\ head \in Seq(Msgs) /\ Len(head) = IF 1 <= n THEN n - 1 + 1 ELSE 0
        /\ \A i \in 1..n - 1 + 1 : head[i] = q[1 + i - 1]
    BY <1>0, <2>1, SubSeqProperties
  <2> HIDE DEF head
  <2> QED BY <1>0, <2>2
<1>2. tail \in Seq(Msgs) /\ Len(tail) = L - n /\ \A i \in 1..L - n : tail[i] = q[n + i]
  <2>1. \A i \in n + 1..Len(q) : q[i] \in Msgs
    BY <1>0
  <2>2. /\ tail \in Seq(Msgs) /\ Len(tail) = IF n + 1 <= Len(q) THEN Len(q) - (n + 1) + 1 ELSE 0
        /\ \A i \in 1..Len(q) - (n + 1) + 1 : tail[i] = q[n + 1 + i - 1]
    BY <1>0, <2>1, SubSeqProperties
  <2> HIDE DEF tail, L
  <2> QED BY <1>0, <2>2 DEF L
<1>3. InsertAfter(q, n, m) = head \o <<m>> \o tail
  BY DEF InsertAfter
<1> HIDE DEF head, tail
<1> DEFINE one == head \o <<m>>
<1>4. <<m>> \in Seq(Msgs) /\ Len(<<m>>) = 1 /\ <<m>>[1] = m
  OBVIOUS
<1>5. /\ one \in Seq(Msgs) /\ Len(one) = n + 1
      /\ \A i \in 1..n : one[i] = q[i]
      /\ one[n + 1] = m
  <2>1. /\ one \in Seq(Msgs) /\ Len(one) = Len(head) + Len(<<m>>)
        /\ \A i \in 1..Len(head) + Len(<<m>>) :
              one[i] = IF i <= Len(head) THEN head[i] ELSE <<m>>[i - Len(head)]
    BY <1>1, <1>4, ConcatProperties
  <2> HIDE DEF one
  <2>2. \A i \in 1..n + 1 : one[i] = IF i <= n THEN head[i] ELSE <<m>>[i - n]
    BY <1>1, <1>4, <2>1
  <2>3. one[n + 1] = <<m>>[1]
    BY <1>0, <2>2
  <2>4. \A i \in 1..n : one[i] = q[i]
    BY <1>0, <1>1, <2>2
  <2> QED BY <1>1, <1>4, <2>1, <2>3, <2>4
<1>6. InsertAfter(q, n, m) = one \o tail
  <2>1. (head \o <<m>>) \o tail = head \o (<<m>> \o tail)
    BY ONLY <1>1, <1>2, <1>4, ConcatAssociative
  <2>2. head \o <<m>> \o tail = (head \o <<m>>) \o tail
    BY <2>1
  <2> QED BY <1>3, <2>2
<1> HIDE DEF one
<1>7. /\ one \o tail \in Seq(Msgs) /\ Len(one \o tail) = Len(one) + Len(tail)
      /\ \A i \in 1..Len(one) + Len(tail) :
            (one \o tail)[i] = IF i <= Len(one) THEN one[i] ELSE tail[i - Len(one)]
  <2>1. one \in Seq(Msgs) /\ tail \in Seq(Msgs)
    BY <1>2, <1>5
  <2> QED BY ONLY <2>1, ConcatProperties
<1> DEFINE r == InsertAfter(q, n, m)
<1>8. /\ r \in Seq(Msgs) /\ Len(r) = Len(one) + Len(tail)
      /\ \A i \in 1..Len(one) + Len(tail) :
            r[i] = IF i <= Len(one) THEN one[i] ELSE tail[i - Len(one)]
  BY <1>6, <1>7
<1> HIDE DEF r, L
<1>9. Len(r) = L + 1
  BY <1>0, <1>2, <1>5, <1>8
<1>10. \A i \in 1..L + 1 : r[i] = IF i <= n + 1 THEN one[i] ELSE tail[i - (n + 1)]
  BY <1>0, <1>2, <1>5, <1>8, <1>9
<1>11. \A i \in 1..n : r[i] = q[i]
  BY <1>0, <1>5, <1>10
<1>12. r[n + 1] = m
  BY <1>0, <1>5, <1>10
<1>13. \A i \in (n + 1)..L : r[i + 1] = q[i]
  <2> SUFFICES ASSUME NEW i \in (n + 1)..L PROVE r[i + 1] = q[i]
    OBVIOUS
  <2>1. i + 1 \in 1..L + 1 /\ ~(i + 1 <= n + 1) /\ i + 1 - (n + 1) = i - n
        /\ i - n \in 1..L - n /\ n + (i - n) = i
    BY <1>0
  <2> QED BY <1>2, <1>10, <2>1
<1> QED
  BY <1>8, <1>9, <1>11, <1>12, <1>13 DEF r, L

(* How many messages push() leaves in front of one.                        *)
Ahead(q, m) == Cardinality({i \in DOMAIN q : Priority[q[i]] >= Priority[m]})

LEMMA AheadType ==
  ASSUME NEW q \in Seq(Msgs), NEW m \in Msgs
  PROVE  /\ Ahead(q, m) \in 0..Len(q)
         /\ Inserted(q, m) = InsertAfter(q, Ahead(q, m), m)
<1> DEFINE S == {i \in DOMAIN q : Priority[q[i]] >= Priority[m]}
           L == Len(q)
<1>1. L \in Nat /\ S \subseteq 1..L
  BY LenProperties
<1>2. IsFiniteSet(1..L) /\ Cardinality(1..L) = L
  <2> HIDE DEF L, S
  <2>1. 1 \in Int /\ L \in Int
    BY <1>1
  <2>2. IsFiniteSet(1..L) /\ Cardinality(1..L) = IF 1 > L THEN 0 ELSE L - 1 + 1
    BY <2>1, FS_Interval
  <2> QED BY <1>1, <2>2
<1>3. IsFiniteSet(S) /\ Cardinality(S) <= L
  BY <1>1, <1>2, FS_Subset
<1>4. Cardinality(S) \in Nat
  BY <1>3, FS_CardinalityType
<1> QED
  BY <1>1, <1>3, <1>4 DEF Ahead, Inserted

(* A push gives a longer queue of messages.                                *)
LEMMA InsertedType ==
  ASSUME NEW q \in Seq(Msgs), NEW m \in Msgs
  PROVE  Inserted(q, m) \in Seq(Msgs) /\ Len(Inserted(q, m)) = Len(q) + 1
  BY AheadType, InsertAfterElements

(* Nothing but the message is new, and nothing is gone.                    *)
LEMMA InsertedElements ==
  ASSUME NEW q \in Seq(Msgs), NEW m \in Msgs
  PROVE  \A x : (\E i \in DOMAIN Inserted(q, m) : Inserted(q, m)[i] = x)
                   <=> x = m \/ \E i \in DOMAIN q : q[i] = x
<1> DEFINE r == Inserted(q, m)
           n == Ahead(q, m)
           L == Len(q)
<1>1. L \in Nat /\ DOMAIN q = 1..L /\ n \in 0..L /\ r = InsertAfter(q, n, m)
  BY AheadType, LenProperties
<1>2. /\ r \in Seq(Msgs) /\ Len(r) = L + 1
      /\ \A i \in 1..n : r[i] = q[i]
      /\ r[n + 1] = m
      /\ \A i \in (n + 1)..L : r[i + 1] = q[i]
  <2> HIDE DEF r, n
  <2> QED BY <1>1, InsertAfterElements
<1>3. DOMAIN r = 1..L + 1
  BY <1>2, LenProperties
<1> HIDE DEF r, n, L
<1>4. \A i \in DOMAIN r : r[i] = m \/ \E k \in DOMAIN q : q[k] = r[i]
  <2> SUFFICES ASSUME NEW i \in 1..L + 1, i # n + 1 PROVE \E k \in 1..L : q[k] = r[i]
    BY <1>1, <1>2, <1>3
  <2>1. CASE i <= n
    BY <1>1, <1>2, <2>1
  <2>2. CASE i > n
    <3>1. i - 1 \in (n + 1)..L /\ i - 1 \in 1..L /\ i - 1 + 1 = i
      BY <1>1, <2>2
    <3> QED BY <1>2, <3>1
  <2> QED BY <1>1, <2>1, <2>2
<1>5. \A k \in DOMAIN q : \E i \in DOMAIN r : r[i] = q[k]
  <2> SUFFICES ASSUME NEW k \in 1..L PROVE \E i \in 1..L + 1 : r[i] = q[k]
    BY <1>1, <1>3
  <2>1. CASE k <= n
    BY <1>1, <1>2, <2>1
  <2>2. CASE k > n
    <3>1. k \in (n + 1)..L /\ k + 1 \in 1..L + 1
      BY <1>1, <2>2
    <3> QED BY <1>2, <3>1
  <2> QED BY <1>1, <2>1, <2>2
<1>6. \E i \in DOMAIN r : r[i] = m
  BY <1>1, <1>2, <1>3
<1>7. \A x : (\E i \in DOMAIN r : r[i] = x) <=> x = m \/ \E i \in DOMAIN q : q[i] = x
  BY ONLY <1>4, <1>5, <1>6
<1> QED
  BY <1>7 DEF r

LEMMA InitType == Init => Typed
  BY DEF Init, Typed, TypeOK, Ids

LEMMA SendType ==
  ASSUME Typed, NEW a \in Actors, SendStep(a) \/ \E m \in Msgs : Send(a, m)
  PROVE  Typed'
<1> USE DEF Typed, TypeOK, Step, writeVars, doneVars, toldVars
<1>1. ASSUME NEW m \in Msgs, Send(a, m) PROVE Typed'
  <2>1. mid' \in [Msgs -> Nat] /\ lastMid' \in Nat
    <3>1. m \in Nat /\ mid' \in {mid, [mid EXCEPT ![m] = m]}
          /\ lastMid' \in {lastMid, lastMid + 1}
      BY <1>1 DEF Send
    <3> QED BY <3>1, SMTT(20)
  <2>2. spc' \in [Actors -> {"idle", "new_mid", "push", "register"}]
    <3>1. spc' \in {[spc EXCEPT ![a] = "push"], [spc EXCEPT ![a] = "new_mid"]}
      BY <1>1 DEF Send
    <3> QED BY <3>1
  <2>3. /\ sending' \in [Actors -> Msgs \cup {NoMsg}]
        /\ \A b \in Actors : spc'[b] # "idle" => sending'[b] \in Msgs
    BY <1>1 DEF Send
  <2> QED BY <1>1, <2>1, <2>2, <2>3 DEF Send
<1>2. CASE ReadMid(a)
  BY <1>2 DEF ReadMid
<1>3. CASE Push(a)
  <2>1. sending[a] \in Msgs
    BY <1>3 DEF Push
  <2>2. queue' \in Seq(Msgs) /\ queue' # <<>>
    <3>1. Inserted(queue, sending[a]) \in Seq(Msgs)
          /\ Len(Inserted(queue, sending[a])) = Len(queue) + 1
      BY <2>1, InsertedType
    <3>2. queue' = Inserted(queue, sending[a])
      BY <1>3 DEF Push
    <3>3. Len(queue) \in Nat
      BY LenProperties
    <3> QED BY <3>1, <3>2, <3>3
  <2>3. pushed' \in Seq(Msgs)
    BY <1>3, <2>1 DEF Push
  <2> QED BY <1>3, <2>1, <2>2, <2>3 DEF Push
<1>4. CASE RegisterHandler(a)
  <2>1. sending[a] \in Msgs /\ mid[sending[a]] \in Nat
    BY <1>4 DEF RegisterHandler
  <2>2. sentHandlers' \subseteq Nat \X Msgs
    BY <1>4, <2>1 DEF RegisterHandler
  <2> QED BY <1>4, <2>1, <2>2 DEF RegisterHandler
<1> QED
  BY <1>1, <1>2, <1>3, <1>4 DEF SendStep

LEMMA PassType ==
  ASSUME Typed, PassStep
  PROVE  Typed'
<1> USE DEF Typed, TypeOK, sendVars, writeVars, doneVars, toldVars
<1>1. CASE BeginPass
  BY <1>1 DEF BeginPass
<1>2. CASE ProcessSent
  <2>1. sentMessages # <<>> /\ Head(sentMessages) \in Ids \X Msgs
    BY <1>2 DEF ProcessSent
  <2>2. sentMessages' \in Seq(Ids \X Msgs) /\ Len(sentMessages') = Len(sentMessages) - 1
    BY <1>2, <2>1 DEF ProcessSent
  <2>3. notified' \in Seq(Ids) /\ sentHandlers' \subseteq Nat \X Msgs
    BY <1>2, <2>1 DEF ProcessSent, CallMessageSent
  <2>4. called' \in Seq(Msgs)
    <3>1. CallMessageSent(Head(sentMessages))
      BY <1>2 DEF ProcessSent
    <3>2. UNCHANGED called \/ \E h \in sentHandlers : called' = Append(called, h[2])
      BY <3>1 DEF CallMessageSent
    <3>3. \A h \in sentHandlers : h[2] \in Msgs
      OBVIOUS
    <3>4. CASE UNCHANGED called
      BY <3>4
    <3>5. ASSUME NEW h \in sentHandlers, called' = Append(called, h[2])
          PROVE  called' \in Seq(Msgs)
      <4>1. h[2] \in Msgs /\ called \in Seq(Msgs)
        BY <3>3
      <4> QED BY <3>5, <4>1, AppendProperties
    <3> QED BY <3>2, <3>4, <3>5
  <2>5. stage' = "sent" => sentMessages' # <<>>
    <3>1. stage' = "sent" => Len(sentMessages) # 1
      BY <1>2 DEF ProcessSent, HandlerEnds
    <3> QED BY <2>2, <3>1
  <2>6. stage' \in {"sent", "arrived", "idle", "gone"}
    BY <1>2 DEF ProcessSent, HandlerEnds
  <2> QED BY <1>2, <2>2, <2>3, <2>4, <2>5, <2>6 DEF ProcessSent
<1>3. CASE ProcessArrived
  BY <1>3 DEF ProcessArrived, HandlerEnds
<1>4. CASE FrontCopy
  BY <1>4 DEF FrontCopy
<1>5. CASE StartWrite
  BY <1>5, SMTT(20) DEF StartWrite, Ids
<1>6. CASE EndWrite
  BY <1>6 DEF EndWrite
<1>7. CASE ProcessErrors
  BY <1>7 DEF ProcessErrors
<1> QED
  BY <1>1, <1>2, <1>3, <1>4, <1>5, <1>6, <1>7 DEF PassStep

LEMMA WriteHandlerType ==
  ASSUME Typed, WriteHandler
  PROVE  Typed'
<1> USE DEF Typed, TypeOK, sendVars, toldVars
<1>1. ASSUME NEW i \in inflight, WriteSucceeded(i) PROVE Typed'
  BY <1>1 DEF WriteSucceeded
<1>2. ASSUME NEW i \in inflight, WriteFailed(i) PROVE Typed'
  BY <1>2 DEF WriteFailed
<1>3. CASE RegSentMessage
  <2>1. PICK b \in buffers : b[1] = done /\ sentMessages' = Append(sentMessages, b)
    BY <1>3 DEF RegSentMessage
  <2>2. sentMessages' \in Seq(Ids \X Msgs) /\ sentMessages' # <<>>
    BY <2>1
  <2> QED BY <1>3, <2>2 DEF RegSentMessage, writeVars
<1>4. CASE EraseBuffer
  BY <1>4 DEF EraseBuffer
<1> QED
  BY <1>1, <1>2, <1>3, <1>4 DEF WriteHandler

LEMMA NextType == Typed /\ [Next]_vars => Typed'
<1> SUFFICES ASSUME Typed, [Next]_vars PROVE Typed'
  OBVIOUS
<1>1. CASE LoseLink
  BY <1>1 DEF LoseLink, Typed, TypeOK, sendVars, writeVars, doneVars, toldVars
<1>2. CASE ReadFailed
  BY <1>2 DEF ReadFailed, Typed, TypeOK, sendVars, writeVars, doneVars, toldVars
<1>3. CASE UNCHANGED vars
  BY <1>3 DEF Typed, TypeOK, vars, sendVars, writeVars, doneVars, toldVars
<1> QED
  BY <1>1, <1>2, <1>3, SendType, PassType, WriteHandlerType DEF Next

LEMMA Typing == Spec => []Typed
  BY InitType, NextType, PTL DEF Spec

(* The state keeps its type, and mt_process_sent() never runs on an empty  *)
(* list, for any number of senders and messages.                           *)
THEOREM TypeCorrect == Spec => []TypeOK
  BY Typing, PTL DEF Typed
----------------------------------------------------------------------------
(* Buffers.  Internal identifiers are never reused, because each stands    *)
(* for a position of written; the buffers are those of the writes that are *)
(* outstanding or in the hands of the write handler.                       *)
Live == inflight \cup {i \in {done} : handler # "idle"}

BufInv ==
    /\ Typed
    /\ internalMid = Len(written)
    /\ \A i \in Live : i < internalMid
    /\ handler # "idle" => done \notin inflight
    /\ buffers = {<<i, written[i + 1]>> : i \in Live}

LEMMA BufInit == Init => BufInv
  BY InitType DEF Init, BufInv, Live

LEMMA BufStartWrite ==
  ASSUME BufInv, Typed', StartWrite
  PROVE  BufInv'
<1> USE DEF BufInv, Live
<1>1. front \in Msgs /\ written \in Seq(Msgs) /\ internalMid \in Nat
  BY DEF StartWrite, Typed, TypeOK, Ids
<1>2. Len(written') = internalMid + 1 /\ internalMid' = internalMid + 1
  BY <1>1 DEF StartWrite
<1>3. written'[internalMid + 1] = front
      /\ \A i \in Nat : i < internalMid => written'[i + 1] = written[i + 1]
  BY <1>1 DEF StartWrite
<1>4. Live' = Live \cup {internalMid}
  BY DEF StartWrite, doneVars
<1>5. \A i \in Live : i \in Nat
  BY DEF Typed, TypeOK, Ids
<1>6. \A i \in Live' : i < internalMid'
  BY <1>1, <1>2, <1>4, <1>5
<1>7. handler' # "idle" => done' \notin inflight'
  BY <1>1 DEF StartWrite, doneVars
<1>8. buffers' = buffers \cup {<<internalMid, front>>}
  BY DEF StartWrite
<1>9. \A i \in Live : written'[i + 1] = written[i + 1]
  BY <1>3, <1>5
<1>10. {<<i, written'[i + 1]>> : i \in Live'} =
       {<<i, written[i + 1]>> : i \in Live} \cup {<<internalMid, front>>}
  BY <1>3, <1>4, <1>9
<1> QED
  BY <1>2, <1>6, <1>7, <1>8, <1>10

LEMMA BufWriteHandler ==
  ASSUME BufInv, Typed', WriteHandler
  PROVE  BufInv'
<1> USE DEF BufInv, Live
<1>1. ASSUME NEW i \in inflight, WriteSucceeded(i) \/ WriteFailed(i) PROVE BufInv'
  <2>1. Live' = Live /\ UNCHANGED <<written, internalMid, buffers>>
    BY <1>1 DEF WriteSucceeded, WriteFailed
  <2>2. done' \notin inflight'
    BY <1>1 DEF WriteSucceeded, WriteFailed
  <2> HIDE DEF Live
  <2> QED BY <2>1, <2>2
<1>2. CASE RegSentMessage
  <2>1. Live' = Live /\ UNCHANGED <<written, internalMid, buffers, done, inflight>>
    BY <1>2 DEF RegSentMessage, writeVars
  <2>2. handler # "idle"
    BY <1>2 DEF RegSentMessage
  <2> HIDE DEF Live
  <2> QED BY <2>1, <2>2
<1>3. CASE EraseBuffer
  <2>1. Live' = Live \ {done} /\ handler' = "idle" /\ UNCHANGED <<written, internalMid>>
    BY <1>3 DEF EraseBuffer
  <2>2. buffers' = {b \in buffers : b[1] # done}
    BY <1>3 DEF EraseBuffer
  <2>3. buffers' = {<<i, written[i + 1]>> : i \in Live \ {done}}
    <3> HIDE DEF Live
    <3> QED BY <2>2
  <2> HIDE DEF Live
  <2> QED BY <2>1, <2>3
<1> QED
  BY <1>1, <1>2, <1>3 DEF WriteHandler

LEMMA BufQuiet ==
  ASSUME BufInv, Typed', UNCHANGED <<written, internalMid, inflight, buffers, handler, done>>
  PROVE  BufInv'
  BY DEF BufInv, Live

LEMMA BufNext == BufInv /\ [Next]_vars => BufInv'
<1> SUFFICES ASSUME BufInv, [Next]_vars PROVE BufInv'
  OBVIOUS
<1>1. Typed'
  BY NextType DEF BufInv
<1> USE DEF vars, sendVars, writeVars, doneVars, toldVars
<1>2. CASE StartWrite
  BY <1>1, <1>2, BufStartWrite
<1>3. CASE WriteHandler
  BY <1>1, <1>3, BufWriteHandler
<1>4. ASSUME NEW a \in Actors, SendStep(a) \/ \E m \in Msgs : Send(a, m) PROVE BufInv'
  BY <1>1, <1>4, BufQuiet DEF SendStep, Send, ReadMid, Push, RegisterHandler
<1>5. CASE BeginPass \/ ProcessSent \/ ProcessArrived \/ FrontCopy \/ EndWrite \/ ProcessErrors
  BY <1>1, <1>5, BufQuiet
     DEF BeginPass, ProcessSent, ProcessArrived, FrontCopy, EndWrite, ProcessErrors
<1>6. CASE LoseLink \/ ReadFailed \/ UNCHANGED vars
  BY <1>1, <1>6, BufQuiet DEF LoseLink, ReadFailed
<1> QED
  BY <1>2, <1>3, <1>4, <1>5, <1>6 DEF Next, PassStep

LEMMA BufAlways == Spec => []BufInv
  BY BufInit, BufNext, PTL DEF Spec

(* The memory an outstanding async_write() reads holds the message it was  *)
(* started for, and it is released when its handler ends.                  *)
THEOREM BuffersAliveHolds == Spec => []BuffersAlive
<1>1. BufInv => BuffersAlive
  <2> SUFFICES ASSUME BufInv PROVE BuffersAlive
    OBVIOUS
  <2>1. \A i \in inflight : {b \in buffers : b[1] = i} = {<<i, written[i + 1]>>}
    BY DEF BufInv, Live
  <2>2. \A b \in buffers : b[1] \in Live
    BY DEF BufInv
  <2> QED BY <2>1, <2>2 DEF BuffersAlive, Live
<1> QED
  BY <1>1, BufAlways, PTL

----------------------------------------------------------------------------
(* The sent list.  A write that succeeded is in one place: with the write  *)
(* handler, in the list, or among those the session was told of.           *)
Waiting == {sentMessages[k][1] : k \in DOMAIN sentMessages}
Told == {notified[k] : k \in DOMAIN notified}

SentInv ==
    /\ BufInv
    /\ acked \cap inflight = {}
    /\ \A i \in acked : i < internalMid
    /\ Waiting \subseteq acked /\ Told \subseteq acked /\ Waiting \cap Told = {}
    /\ handler = "register" => done \in acked \ (Waiting \cup Told)
    /\ \A j, k \in DOMAIN sentMessages : sentMessages[j][1] = sentMessages[k][1] => j = k
    /\ \A j, k \in DOMAIN notified : notified[j] = notified[k] => j = k

LEMMA SentInit == Init => SentInv
  BY BufInit DEF Init, SentInv, Waiting, Told

LEMMA SentProcess ==
  ASSUME SentInv, BufInv', ProcessSent
  PROVE  SentInv'
<1> USE DEF SentInv
<1>1. /\ sentMessages \in Seq(Ids \X Msgs) /\ sentMessages # <<>>
      /\ notified \in Seq(Ids)
  BY DEF ProcessSent, BufInv, Typed, TypeOK
<1> DEFINE i == Head(sentMessages)[1]
<1>2. i = sentMessages[1][1] /\ 1 \in DOMAIN sentMessages /\ i \in Ids
  BY <1>1
<1>3. /\ sentMessages' = Tail(sentMessages)
      /\ notified' = Append(notified, i)
      /\ UNCHANGED <<acked, inflight, internalMid, handler, done>>
  BY DEF ProcessSent, CallMessageSent, writeVars
<1>4. \A k \in DOMAIN sentMessages' :
         k + 1 \in DOMAIN sentMessages /\ k + 1 # 1 /\ sentMessages'[k] = sentMessages[k + 1]
  BY <1>1, <1>3
<1>5. DOMAIN notified' = DOMAIN notified \cup {Len(notified) + 1}
      /\ Len(notified) + 1 \notin DOMAIN notified
      /\ notified'[Len(notified) + 1] = i
      /\ \A k \in DOMAIN notified : notified'[k] = notified[k]
  <2>1. Len(notified) \in Nat /\ DOMAIN notified = 1..Len(notified)
    BY <1>1, LenProperties
  <2>2. notified' \in Seq(Ids) /\ Len(notified') = Len(notified) + 1
        /\ notified'[Len(notified) + 1] = i
        /\ \A k \in 1..Len(notified) : notified'[k] = notified[k]
    BY <1>1, <1>2, <1>3, AppendProperties
  <2>3. DOMAIN notified' = 1..(Len(notified) + 1)
    BY <2>2, LenProperties
  <2> QED BY <2>1, <2>2, <2>3
<1> HIDE DEF i
<1>6. i \in Waiting
  BY <1>2 DEF Waiting
<1>7. Told' = Told \cup {i}
  BY <1>5 DEF Told
<1>8. Waiting' = Waiting \ {i}
  <2>1. \A k \in DOMAIN sentMessages' : sentMessages'[k][1] \in Waiting \ {i}
    BY <1>2, <1>4 DEF Waiting
  <2>2. ASSUME NEW k \in DOMAIN sentMessages, sentMessages[k][1] # i
        PROVE  \E l \in DOMAIN sentMessages' : sentMessages'[l][1] = sentMessages[k][1]
    <3>1. k \in 2..Len(sentMessages)
      BY <1>1, <1>2, <2>2
    <3>2. k - 1 \in DOMAIN sentMessages' /\ sentMessages'[k - 1] = sentMessages[k]
      BY <1>1, <1>3, <3>1
    <3> QED BY <3>2
  <2> QED BY <2>1, <2>2 DEF Waiting
<1>9. \A j, k \in DOMAIN sentMessages' : sentMessages'[j][1] = sentMessages'[k][1] => j = k
  <2> SUFFICES ASSUME NEW j \in DOMAIN sentMessages', NEW k \in DOMAIN sentMessages',
                      sentMessages'[j][1] = sentMessages'[k][1]
               PROVE  j = k
    OBVIOUS
  <2>1. j + 1 = k + 1
    BY <1>4
  <2>2. j \in Nat /\ k \in Nat
    BY <1>1, <1>3
  <2> QED BY <2>1, <2>2
<1>10. \A j, k \in DOMAIN notified' : notified'[j] = notified'[k] => j = k
  <2>1. \A k \in DOMAIN notified : notified[k] # i
    BY <1>6 DEF Told
  <2> QED BY <1>5, <2>1
<1> QED
  BY <1>3, <1>6, <1>7, <1>8, <1>9, <1>10

LEMMA SentRegister ==
  ASSUME SentInv, BufInv', RegSentMessage
  PROVE  SentInv'
<1> USE DEF SentInv
<1>1. sentMessages \in Seq(Ids \X Msgs)
  BY DEF BufInv, Typed, TypeOK
<1>2. PICK b \in buffers : b[1] = done /\ sentMessages' = Append(sentMessages, b)
  BY DEF RegSentMessage
<1>3. b \in Ids \X Msgs
  BY DEF BufInv, Typed, TypeOK
<1>4. /\ UNCHANGED <<acked, inflight, internalMid, done, notified>>
      /\ handler = "register" /\ handler' = "erase"
  BY DEF RegSentMessage, writeVars, toldVars
<1> DEFINE n == Len(sentMessages) + 1
<1>5. /\ DOMAIN sentMessages' = DOMAIN sentMessages \cup {n} /\ n \notin DOMAIN sentMessages
      /\ sentMessages'[n][1] = done
      /\ \A k \in DOMAIN sentMessages : sentMessages'[k] = sentMessages[k]
  <2>1. Len(sentMessages) \in Nat /\ DOMAIN sentMessages = 1..Len(sentMessages)
    BY <1>1, LenProperties
  <2>2. sentMessages' \in Seq(Ids \X Msgs) /\ Len(sentMessages') = n
        /\ sentMessages'[n] = b
        /\ \A k \in 1..Len(sentMessages) : sentMessages'[k] = sentMessages[k]
    BY <1>1, <1>2, <1>3, AppendProperties
  <2>3. DOMAIN sentMessages' = 1..n
    BY <2>2, LenProperties
  <2> QED BY <1>2, <2>1, <2>2, <2>3
<1> HIDE DEF n
<1>6. Waiting' = Waiting \cup {done}
  BY <1>5 DEF Waiting
<1>7. Told' = Told
  BY <1>4 DEF Told
<1>8. \A j, k \in DOMAIN sentMessages' : sentMessages'[j][1] = sentMessages'[k][1] => j = k
  <2>1. \A k \in DOMAIN sentMessages : sentMessages[k][1] # done
    BY <1>4 DEF Waiting
  <2> QED BY <1>5, <2>1
<1> QED
  BY <1>4, <1>6, <1>7, <1>8

LEMMA SentComplete ==
  ASSUME SentInv, BufInv', NEW i \in inflight, WriteSucceeded(i) \/ WriteFailed(i)
  PROVE  SentInv'
<1> USE DEF SentInv
<1>1. Waiting' = Waiting /\ Told' = Told /\ UNCHANGED <<sentMessages, notified, internalMid>>
  BY DEF WriteSucceeded, WriteFailed, Waiting, Told, toldVars
<1>2. i < internalMid
  BY DEF BufInv, Live
<1>3. CASE WriteSucceeded(i)
  <2>1. acked' = acked \cup {i} /\ inflight' = inflight \ {i} /\ done' = i
    BY <1>3 DEF WriteSucceeded
  <2> QED BY <1>1, <1>2, <2>1
<1>4. CASE WriteFailed(i)
  <2>1. acked' = acked /\ inflight' = inflight \ {i} /\ handler' = "erase"
    BY <1>4 DEF WriteFailed
  <2> QED BY <1>1, <2>1
<1> QED
  BY <1>3, <1>4

LEMMA SentStartWrite ==
  ASSUME SentInv, BufInv', StartWrite
  PROVE  SentInv'
<1>1. internalMid \in Nat /\ \A i \in acked : i \in Nat
  BY DEF SentInv, BufInv, Typed, TypeOK, Ids
<1>2. /\ inflight' = inflight \cup {internalMid} /\ internalMid' = internalMid + 1
      /\ UNCHANGED <<acked, sentMessages, notified, handler, done>>
  BY DEF StartWrite, doneVars, toldVars
<1>3. Waiting' = Waiting /\ Told' = Told
  BY <1>2 DEF Waiting, Told
<1>4. acked' \cap inflight' = {} /\ \A i \in acked' : i < internalMid'
  BY <1>1, <1>2 DEF SentInv
<1> QED
  BY <1>2, <1>3, <1>4 DEF SentInv

LEMMA SentQuiet ==
  ASSUME SentInv, BufInv', handler' \in {handler, "idle"},
         UNCHANGED <<internalMid, inflight, done, acked, sentMessages, notified>>
  PROVE  SentInv'
  BY DEF SentInv, Waiting, Told

LEMMA SentNext == SentInv /\ [Next]_vars => SentInv'
<1> SUFFICES ASSUME SentInv, [Next]_vars PROVE SentInv'
  OBVIOUS
<1>1. BufInv'
  BY BufNext DEF SentInv
<1> USE DEF vars, sendVars, writeVars, doneVars, toldVars
<1>2. CASE StartWrite
  BY <1>1, <1>2, SentStartWrite
<1>3. CASE ProcessSent
  BY <1>1, <1>3, SentProcess
<1>4. CASE RegSentMessage
  BY <1>1, <1>4, SentRegister
<1>5. ASSUME NEW i \in inflight, WriteSucceeded(i) \/ WriteFailed(i) PROVE SentInv'
  BY <1>1, <1>5, SentComplete
<1>6. ASSUME NEW a \in Actors, SendStep(a) \/ \E m \in Msgs : Send(a, m) PROVE SentInv'
  BY <1>1, <1>6, SentQuiet DEF SendStep, Send, ReadMid, Push, RegisterHandler
<1>7. CASE BeginPass \/ ProcessArrived \/ FrontCopy \/ EndWrite \/ ProcessErrors
  BY <1>1, <1>7, SentQuiet DEF BeginPass, ProcessArrived, FrontCopy, EndWrite, ProcessErrors
<1>8. CASE EraseBuffer \/ LoseLink \/ ReadFailed \/ UNCHANGED vars
  BY <1>1, <1>8, SentQuiet DEF EraseBuffer, LoseLink, ReadFailed
<1> QED
  BY <1>2, <1>3, <1>4, <1>5, <1>6, <1>7, <1>8 DEF Next, PassStep, WriteHandler

LEMMA SentAlways == Spec => []SentInv
  BY SentInit, SentNext, PTL DEF Spec

(* The session is told once of each successful write and of no other,      *)
(* whichever of its handlers throw.                                        *)
THEOREM NotifiedOnceHolds == Spec => []NotifiedOnce
<1>1. SentInv => NotifiedOnce
  BY DEF SentInv, NotifiedOnce, Told
<1> QED
  BY <1>1, SentAlways, PTL

----------------------------------------------------------------------------
(* Sending.  Each message is pushed by the one actor that sends it, and    *)
(* only once; the pass sends from inside handlers only, where it fetches   *)
(* nothing from the queue.                                                 *)
SendInv ==
    /\ Typed
    /\ \A a \in Actors : spc[a] # "idle" => By[sending[a]] = a
    /\ \A a \in Actors : spc[a] = "new_mid" => lastMid > 0
    /\ \A a \in Actors : spc[a] \in {"push", "register"} => mid[sending[a]] # 0
    /\ \A a \in Actors : spc[a] = "register" => sending[a] \in Handled
    /\ \A a \in Actors, k \in DOMAIN pushed :
          spc[a] \in {"new_mid", "push"} => pushed[k] # sending[a]
    /\ \A a \in Actors :
          spc[a] = "register" => \E k \in DOMAIN pushed : pushed[k] = sending[a]
    /\ \A k \in DOMAIN pushed : mid[pushed[k]] # 0
    /\ \A j, k \in DOMAIN pushed : pushed[j] = pushed[k] => j = k
    /\ spc[Pass] # "idle" => stage \in {"sent", "arrived"}

Has(s, m) == \E k \in DOMAIN s : s[k] = m

LEMMA Members ==
  ASSUME NEW S, NEW s \in Seq(S)
  PROVE  \A k \in DOMAIN s : s[k] \in S
<1>1. DOMAIN s = 1..Len(s)
  BY LenProperties
<1> QED
  BY <1>1, ElementOfSeq

LEMMA Appended ==
  ASSUME NEW S, NEW s \in Seq(S), NEW x \in S
  PROVE  /\ DOMAIN Append(s, x) = DOMAIN s \cup {Len(s) + 1}
         /\ Len(s) + 1 \notin DOMAIN s
         /\ Append(s, x)[Len(s) + 1] = x
         /\ \A k \in DOMAIN s : Append(s, x)[k] = s[k]
<1>1. Len(s) \in Nat /\ DOMAIN s = 1..Len(s)
  BY LenProperties
<1>2. /\ Append(s, x) \in Seq(S) /\ Len(Append(s, x)) = Len(s) + 1
      /\ Append(s, x)[Len(s) + 1] = x
      /\ \A k \in 1..Len(s) : Append(s, x)[k] = s[k]
  BY AppendProperties
<1>3. DOMAIN Append(s, x) = 1..Len(s) + 1
  BY <1>2, LenProperties
<1> QED
  BY <1>1, <1>2, <1>3

LEMMA SendInit == Init => SendInv
  BY InitType DEF Init, SendInv, Actors

LEMMA SendBegins ==
  ASSUME SendInv, Typed', NEW a \in Actors, NEW m \in Msgs, Send(a, m)
  PROVE  SendInv'
<1>1. UNCHANGED <<pushed, stage>>
  BY DEF Send
<1>2. /\ By[m] = a /\ mid[m] = 0 /\ spc[a] = "idle"
      /\ \A b \in Actors : sending[b] # m
      /\ sending' = [sending EXCEPT ![a] = m]
      /\ a = Pass => stage \in {"sent", "arrived"}
  BY DEF Send
<1>3. \/ /\ spc' = [spc EXCEPT ![a] = "push"]
         /\ mid' = [mid EXCEPT ![m] = m] /\ lastMid' = lastMid
      \/ /\ spc' = [spc EXCEPT ![a] = "new_mid"]
         /\ mid' = mid /\ lastMid' = lastMid + 1
  BY DEF Send, Step
<1>4. m # 0 /\ lastMid \in Nat /\ mid \in [Msgs -> Nat]
      /\ spc \in [Actors -> {"idle", "new_mid", "push", "register"}]
      /\ sending \in [Actors -> Msgs \cup {NoMsg}]
      /\ \A b \in Actors : spc[b] # "idle" => sending[b] \in Msgs
  BY DEF SendInv, Typed, TypeOK
<1>5. \A k \in DOMAIN pushed : pushed[k] \in Msgs /\ pushed[k] # m
  <2>1. \A k \in DOMAIN pushed : mid[pushed[k]] # 0
    BY DEF SendInv
  <2>2. pushed \in Seq(Msgs)
    BY DEF SendInv, Typed, TypeOK
  <2>3. \A k \in DOMAIN pushed : pushed[k] \in Msgs
    BY ONLY <2>2, Members
  <2> QED BY ONLY <1>2, <2>1, <2>3
<1>6. Pass \in Actors
  BY DEF Actors
<1>7. CASE spc' = [spc EXCEPT ![a] = "push"] /\ mid' = [mid EXCEPT ![m] = m]
           /\ lastMid' = lastMid
  BY <1>7, <1>1, <1>2, <1>4, <1>5, <1>6 DEF SendInv
<1>8. CASE spc' = [spc EXCEPT ![a] = "new_mid"] /\ mid' = mid /\ lastMid' = lastMid + 1
  BY <1>8, <1>1, <1>2, <1>4, <1>5, <1>6 DEF SendInv
<1> QED
  BY <1>3, <1>7, <1>8

LEMMA SendRead ==
  ASSUME SendInv, Typed', NEW a \in Actors, ReadMid(a)
  PROVE  SendInv'
<1>1. UNCHANGED <<pushed, stage, sending, lastMid>>
  BY DEF ReadMid
<1>2. /\ spc[a] = "new_mid" /\ spc' = [spc EXCEPT ![a] = "push"]
      /\ mid' = [mid EXCEPT ![sending[a]] = lastMid]
      /\ sending[a] \in Msgs /\ lastMid > 0
  BY DEF ReadMid, Step, SendInv, Typed
<1>3. /\ spc \in [Actors -> {"idle", "new_mid", "push", "register"}]
      /\ mid \in [Msgs -> Nat] /\ lastMid \in Nat /\ Pass \in Actors
  BY DEF SendInv, Typed, TypeOK, Actors
<1>4. \A n \in Msgs : mid[n] # 0 => mid'[n] # 0
  BY <1>2, <1>3
<1>5. mid'[sending[a]] # 0
  BY <1>2, <1>3
<1>6. \A b \in Actors : spc[b] # "idle" => sending[b] \in Msgs
  BY DEF SendInv, Typed
<1>7. \A k \in DOMAIN pushed : pushed[k] \in Msgs
  <2>1. pushed \in Seq(Msgs)
    BY DEF SendInv, Typed, TypeOK
  <2> QED BY ONLY <2>1, Members
<1> QED
  BY <1>1, <1>2, <1>3, <1>4, <1>5, <1>6, <1>7 DEF SendInv

LEMMA SendPush ==
  ASSUME SendInv, Typed', NEW a \in Actors, Push(a)
  PROVE  SendInv'
<1> DEFINE m == sending[a]
           n == Len(pushed) + 1
<1>1. spc[a] = "push" /\ m \in Msgs /\ pushed \in Seq(Msgs)
  BY DEF Push, SendInv, Typed, TypeOK
<1>2. pushed' = Append(pushed, m) /\ UNCHANGED <<stage, mid, lastMid>>
  BY DEF Push
<1>3. /\ DOMAIN pushed' = DOMAIN pushed \cup {n} /\ n \notin DOMAIN pushed
      /\ pushed'[n] = m
      /\ \A k \in DOMAIN pushed : pushed'[k] = pushed[k]
  BY <1>1, <1>2, Appended
<1>4. /\ \A b \in Actors : b # a => spc'[b] = spc[b] /\ sending'[b] = sending[b]
      /\ spc'[a] \in {"register", "idle"}
      /\ spc'[a] = "register" => sending'[a] = m /\ m \in Handled
  BY DEF Push, Step, SendInv, Typed, TypeOK
<1>5. mid[m] # 0 /\ By[m] = a /\ \A k \in DOMAIN pushed : pushed[k] # m
  BY <1>1 DEF SendInv
<1>6. \A b \in Actors : b # a /\ spc[b] # "idle" => sending[b] # m
  BY <1>5 DEF SendInv
<1>7. SendInv /\ Typed' /\ Pass \in Actors
  BY DEF Actors
<1> HIDE DEF m, n
<1>8. \A b \in Actors, k \in DOMAIN pushed' :
         spc'[b] \in {"new_mid", "push"} => pushed'[k] # sending'[b]
  BY ONLY <1>3, <1>4, <1>6, <1>7 DEF SendInv
<1>9. \A j, k \in DOMAIN pushed' : pushed'[j] = pushed'[k] => j = k
  BY ONLY <1>3, <1>5, <1>7 DEF SendInv
<1>10. \A k \in DOMAIN pushed' : mid'[pushed'[k]] # 0
  BY ONLY <1>2, <1>3, <1>5, <1>7 DEF SendInv
<1>11. \A b \in Actors :
          spc'[b] = "register" => \E k \in DOMAIN pushed' : pushed'[k] = sending'[b]
  BY ONLY <1>3, <1>4, <1>7 DEF SendInv
<1>12. /\ \A b \in Actors : spc'[b] # "idle" => By[sending'[b]] = b
       /\ \A b \in Actors : spc'[b] = "new_mid" => lastMid' > 0
       /\ \A b \in Actors : spc'[b] \in {"push", "register"} => mid'[sending'[b]] # 0
       /\ \A b \in Actors : spc'[b] = "register" => sending'[b] \in Handled
  BY ONLY <1>2, <1>4, <1>5, <1>7 DEF SendInv
<1>13. spc'[Pass] # "idle" => stage' \in {"sent", "arrived"}
  BY ONLY <1>1, <1>2, <1>4, <1>7 DEF SendInv
<1> QED
  BY ONLY <1>7, <1>8, <1>9, <1>10, <1>11, <1>12, <1>13 DEF SendInv

LEMMA SendRegister ==
  ASSUME SendInv, Typed', NEW a \in Actors, RegisterHandler(a)
  PROVE  SendInv'
<1>1. UNCHANGED <<pushed, stage, mid, lastMid>>
  BY DEF RegisterHandler
<1>2. spc' = [spc EXCEPT ![a] = "idle"] /\ sending' = [sending EXCEPT ![a] = NoMsg]
  BY DEF RegisterHandler, Step
<1>3. \A b \in Actors : /\ b # a => spc'[b] = spc[b] /\ sending'[b] = sending[b]
                        /\ b = a => spc'[b] = "idle"
  BY <1>2 DEF SendInv, Typed, TypeOK
<1>4. SendInv /\ Typed' /\ Pass \in Actors
  BY DEF Actors
<1> QED
  BY ONLY <1>1, <1>3, <1>4 DEF SendInv

LEMMA SendQuiet ==
  ASSUME SendInv, Typed', UNCHANGED <<sendVars, pushed>>,
         spc[Pass] # "idle" => stage' = stage
  PROVE  SendInv'
  BY DEF SendInv, sendVars

LEMMA SendNext == SendInv /\ [Next]_vars => SendInv'
<1> SUFFICES ASSUME SendInv, [Next]_vars PROVE SendInv'
  OBVIOUS
<1>1. Typed'
  BY NextType DEF SendInv
<1>2. spc[Pass] # "idle" => stage \in {"sent", "arrived"}
  BY DEF SendInv
<1> USE DEF vars
<1>3. ASSUME NEW a \in Actors, SendStep(a) \/ \E m \in Msgs : Send(a, m) PROVE SendInv'
  BY <1>1, <1>3, SendBegins, SendRead, SendPush, SendRegister DEF SendStep
<1>4. CASE PassStep
  BY <1>1, <1>2, <1>4, SendQuiet
     DEF PassStep, BeginPass, ProcessSent, ProcessArrived, FrontCopy, StartWrite, EndWrite,
         ProcessErrors
<1>5. CASE WriteHandler
  BY <1>1, <1>5, SendQuiet
     DEF WriteHandler, WriteSucceeded, WriteFailed, RegSentMessage, EraseBuffer
<1>6. CASE LoseLink \/ ReadFailed \/ UNCHANGED vars
  BY <1>1, <1>6, SendQuiet DEF LoseLink, ReadFailed
<1> QED
  BY <1>3, <1>4, <1>5, <1>6 DEF Next

LEMMA SendAlways == Spec => []SendInv
  BY SendInit, SendNext, PTL DEF Spec

----------------------------------------------------------------------------
(* Sent handlers.  Registered only for messages that are out, under their  *)
(* identifiers; and of a message whose identifier is its own the handler   *)
(* is accounted for: in the table or called as soon as send() has          *)
(* returned.  Identifiers are not assumed to be unique, since they are not *)
(* (the identifier of new_mid() is read apart from its increment), and any *)
(* thread may send with a handler.                                         *)
Account(m) ==
    /\ \A i, j \in DOMAIN called : called[i] = m /\ called[j] = m => i = j
    /\ Called(m) => ToldOf(m)
    /\ ~(Registered(m) /\ Called(m))
    /\ Registered(m) \/ Called(m) <=> Out(m)
    /\ By[m] = Pass /\ ToldOf(m) => Called(m)

HandlerInv ==
    /\ SendInv
    /\ SentInv
    /\ \A a \in Actors : spc[a] = "idle" => sending[a] = NoMsg
    /\ \A a \in Actors : spc[a] = "new_mid" => mid[sending[a]] = 0
    /\ \A h \in sentHandlers : h[2] \in Handled /\ h[1] = mid[h[2]] /\ Has(pushed, h[2])
    /\ \A k \in DOMAIN called : Has(pushed, called[k])
    /\ \A m : Has(written, m) \/ Has(queue, m) => Has(pushed, m)
    /\ stage = "pop" => Has(pushed, front)
    /\ \A k \in DOMAIN sentMessages : sentMessages[k][2] = written[sentMessages[k][1] + 1]
    /\ \A m \in Handled : Sole(m) => Account(m)

LEMMA HandlerInit == Init => HandlerInv
  BY SendInit, SentInit
     DEF Init, HandlerInv, Has, Account, Sole, Out, Registered, Called, ToldOf

(* What the session was told of has been written, and so pushed.           *)
LEMMA HandlerTold ==
  ASSUME HandlerInv, NEW m, ToldOf(m)
  PROVE  Has(pushed, m)
<1>1. /\ notified \in Seq(Ids) /\ written \in Seq(Msgs)
      /\ \A i \in acked : i < internalMid /\ internalMid = Len(written)
      /\ Told \subseteq acked
  BY DEF HandlerInv, SentInv, BufInv, Typed, TypeOK
<1>2. PICK k \in DOMAIN notified : written[notified[k] + 1] = m
  BY DEF ToldOf
<1>3. notified[k] \in Nat /\ notified[k] < Len(written)
  <2>1. notified[k] \in Ids
    BY <1>1, Members
  <2> QED BY <1>1, <2>1 DEF Ids, Told
<1>4. notified[k] + 1 \in DOMAIN written
  BY <1>1, <1>3
<1> QED
  BY <1>2, <1>4 DEF HandlerInv, Has

(* Nobody has a handler for a message that is not pushed.                  *)
LEMMA HandlerNone ==
  ASSUME HandlerInv, NEW m, ~Has(pushed, m)
  PROVE  /\ \A h \in sentHandlers : h[2] # m
         /\ ~Called(m) /\ ~ToldOf(m)
  BY HandlerTold DEF HandlerInv, Called

LEMMA AccountSame ==
  ASSUME UNCHANGED <<mid, sending, pushed, sentHandlers, called>>, NEW x,
         ToldOf(x)' <=> ToldOf(x), Sole(x) => Account(x), Sole(x)'
  PROVE  Account(x)'
<1>1. /\ Sole(x)' <=> Sole(x)
      /\ Registered(x)' <=> Registered(x)
      /\ Called(x)' <=> Called(x)
      /\ Out(x)' <=> Out(x)
  BY DEF Sole, Registered, Called, Out
<1> QED
  BY <1>1 DEF Account

(* A message keeps the identifier it has been given; one that has none is  *)
(* not pushed.                                                             *)
LEMMA HandlerSend ==
  ASSUME HandlerInv, SendInv', SentInv', NEW a \in Actors, NEW m \in Msgs,
         \/ ReadMid(a) /\ m = sending[a]
         \/ Send(a, m)
  PROVE  HandlerInv'
<1>1. UNCHANGED <<pushed, stage, written, queue, front, sentMessages, sentHandlers,
                  notified, called>>
  BY DEF ReadMid, Send, writeVars, doneVars, toldVars
<1>2. /\ spc \in [Actors -> {"idle", "new_mid", "push", "register"}]
      /\ sending \in [Actors -> Msgs \cup {NoMsg}] /\ mid \in [Msgs -> Nat]
      /\ \A b \in Actors : spc[b] # "idle" => By[sending[b]] = b
  BY DEF HandlerInv, SendInv, Typed, TypeOK
<1>3. mid[m] = 0 /\ \A b \in Actors : b # a => sending[b] # m
  <2>1. CASE Send(a, m)
    BY <2>1 DEF Send
  <2>2. CASE ReadMid(a) /\ m = sending[a]
    <3>1. spc[a] = "new_mid" /\ mid[m] = 0 /\ By[m] = a
      BY <1>2, <2>2 DEF ReadMid, HandlerInv
    <3>2. ASSUME NEW b \in Actors, sending[b] = m PROVE b = a
      <4>1. spc[b] # "idle"
        BY <3>2 DEF HandlerInv
      <4> QED BY <1>2, <3>1, <3>2, <4>1
    <3> QED BY <3>1, <3>2
  <2> QED BY <2>1, <2>2
<1>4. ~Has(pushed, m)
  BY <1>3 DEF HandlerInv, SendInv, Has
<1>5. /\ \A b \in Actors : b # a => spc'[b] = spc[b] /\ sending'[b] = sending[b]
      /\ sending'[a] = m /\ spc'[a] # "idle"
      /\ spc'[a] = "new_mid" => mid' = mid
      /\ \A n \in Msgs : n # m => mid'[n] = mid[n]
  <2>1. CASE Send(a, m)
    BY <1>2, <2>1 DEF Send, Step
  <2>2. CASE ReadMid(a) /\ m = sending[a]
    BY <1>2, <2>2 DEF ReadMid, Step
  <2> QED BY <2>1, <2>2
<1>6. \A b \in Actors : spc'[b] = "new_mid" => mid'[sending'[b]] = 0
  <2>1. \A b \in Actors : spc[b] = "new_mid" => sending[b] \in Msgs /\ mid[sending[b]] = 0
    BY DEF HandlerInv, SendInv, Typed
  <2> QED BY <1>3, <1>5, <2>1
<1>7. \A h \in sentHandlers : h[2] \in Msgs /\ h[2] # m /\ mid'[h[2]] = mid[h[2]]
  <2>1. \A h \in sentHandlers : h[2] \in Msgs /\ h[2] # m
    BY <1>4, HandlerNone DEF HandlerInv
  <2> QED BY <1>5, <2>1
<1>8. ASSUME NEW x \in Handled, Sole(x)' PROVE Account(x)'
  <2>1. /\ Called(x)' <=> Called(x)
        /\ ToldOf(x)' <=> ToldOf(x)
        /\ called' = called
    BY <1>1 DEF Called, ToldOf
  <2>2. CASE Has(pushed, x)
    <3>0. x # m /\ x \in Msgs /\ mid[x] # 0
      BY <1>4, <2>2 DEF HandlerInv, SendInv, Has
    <3>1. x # m /\ x \in Msgs /\ mid'[x] = mid[x] /\ mid[x] # 0
      BY <1>5, <3>0
    <3>2. Sole(x)
      BY <1>2, <1>3, <1>5, <1>8, <3>1 DEF Sole
    <3>3. Out(x)' <=> Out(x)
      <4>1. \A b \in Actors : sending'[b] = x <=> sending[b] = x
        <5>1. sending[a] \in {m, NoMsg}
          BY <1>2 DEF HandlerInv, Send, ReadMid
        <5> QED BY <1>5, <3>1, <5>1
      <4> QED BY <1>1, <4>1 DEF Out
    <3>4. Registered(x)' <=> Registered(x)
      BY <1>1, <3>1 DEF Registered
    <3>5. Account(x)
      BY <3>2 DEF HandlerInv
    <3> QED BY ONLY <2>1, <3>3, <3>4, <3>5 DEF Account
  <2>3. CASE ~Has(pushed, x)
    <3>1. ~Out(x)' /\ ~Has(pushed, x)'
      BY <1>1, <2>3 DEF Out, Has
    <3>2. ~Registered(x)' /\ ~Called(x)' /\ ~ToldOf(x)'
      BY <1>1, <2>1, <2>3, HandlerNone DEF Registered
    <3>3. \A i \in DOMAIN called' : called'[i] # x
      BY <3>2 DEF Called
    <3> QED BY <3>1, <3>2, <3>3 DEF Account
  <2> QED BY <2>2, <2>3
<1>9. \A b \in Actors : spc'[b] = "idle" => sending'[b] = NoMsg
  BY <1>5 DEF HandlerInv
<1> QED
  BY <1>1, <1>6, <1>7, <1>8, <1>9 DEF HandlerInv, Has

LEMMA HandlerPush ==
  ASSUME HandlerInv, SendInv', SentInv', NEW a \in Actors, Push(a)
  PROVE  HandlerInv'
<1> DEFINE m == sending[a]
<1>1. SendInv /\ Typed /\ TypeOK
  BY DEF HandlerInv, SendInv, Typed
<1>2. /\ spc[a] = "push" /\ m \in Msgs /\ By[m] = a /\ ~Has(pushed, m)
      /\ queue \in Seq(Msgs) /\ pushed \in Seq(Msgs)
      /\ spc \in [Actors -> {"idle", "new_mid", "push", "register"}]
      /\ sending \in [Actors -> Msgs \cup {NoMsg}]
  <2>1. spc[a] = "push"
    BY DEF Push
  <2>2. m \in Msgs /\ By[m] = a /\ ~Has(pushed, m)
    BY ONLY <1>1, <2>1, a \in Actors DEF SendInv, Typed, Has
  <2> QED BY <1>1, <2>1, <2>2 DEF TypeOK
<1>3. /\ UNCHANGED <<mid, stage, written, front, sentMessages, sentHandlers, notified, called>>
      /\ queue' = Inserted(queue, m) /\ pushed' = Append(pushed, m)
  BY DEF Push, writeVars, doneVars, toldVars
<1>4. \A x : Has(pushed', x) <=> x = m \/ Has(pushed, x)
  <2> HIDE DEF m
  <2>1. /\ DOMAIN pushed' = DOMAIN pushed \cup {Len(pushed) + 1}
        /\ pushed'[Len(pushed) + 1] = m
        /\ \A k \in DOMAIN pushed : pushed'[k] = pushed[k]
    BY <1>2, <1>3, Appended
  <2> QED BY ONLY <2>1 DEF Has
<1>5. \A x : Has(queue', x) <=> x = m \/ Has(queue, x)
  <2> HIDE DEF m
  <2>1. \A x : (\E i \in DOMAIN queue' : queue'[i] = x)
                  <=> x = m \/ \E i \in DOMAIN queue : queue[i] = x
    <3>1. \A x : (\E i \in DOMAIN Inserted(queue, m) : Inserted(queue, m)[i] = x)
                    <=> x = m \/ \E i \in DOMAIN queue : queue[i] = x
      BY <1>2, InsertedElements
    <3>2. queue' = Inserted(queue, m)
      BY <1>3
    <3> QED BY ONLY <3>1, <3>2
  <2> QED BY ONLY <2>1 DEF Has
<1>6. /\ \A b \in Actors : b # a => spc'[b] = spc[b] /\ sending'[b] = sending[b]
      /\ spc'[a] \in {"register", "idle"} /\ sending'[a] \in {m, NoMsg}
      /\ spc'[a] = "idle" => sending'[a] = NoMsg
      /\ m \in Handled => sending'[a] = m
  BY <1>2 DEF Push, Step
<1>7. \A x \in Handled : x \in Msgs /\ x # NoMsg
  OBVIOUS
<1>8. ASSUME NEW x \in Handled PROVE Out(x)' <=> Out(x)
  <2>0. \A y : Out(y) <=> Has(pushed, y) /\ \A b \in Actors : sending[b] # y
    BY DEF Out, Has
  <2>00. Out(x)' <=> Has(pushed', x) /\ \A b \in Actors : sending'[b] # x
    BY DEF Out, Has
  <2>1. CASE x = m
    BY <1>6, <2>0, <2>00, <2>1
  <2>2. CASE x # m
    <3>1. \A b \in Actors : sending'[b] = x <=> sending[b] = x
      BY <1>6, <1>7, <2>2
    <3> QED BY <1>4, <2>0, <2>00, <2>2, <3>1
  <2> QED BY <2>1, <2>2
<1> HIDE DEF m
<1>9. \A x : Has(written', x) \/ Has(queue', x) => Has(pushed', x)
  BY <1>3, <1>4, <1>5 DEF HandlerInv
<1>10. stage' = "pop" => Has(pushed', front')
  BY <1>3, <1>4 DEF HandlerInv
<1>11. \A x \in Handled : Sole(x)' => Account(x)'
  <2>1. \A x : /\ Registered(x)' <=> Registered(x)
               /\ Called(x)' <=> Called(x)
               /\ ToldOf(x)' <=> ToldOf(x)
               /\ Sole(x)' <=> Sole(x)
    BY <1>3 DEF Registered, Called, ToldOf, Sole
  <2> QED BY <1>3, <1>8, <2>1 DEF HandlerInv, Account
<1>12. /\ \A b \in Actors : spc'[b] = "idle" => sending'[b] = NoMsg
       /\ \A b \in Actors : spc'[b] = "new_mid" => mid'[sending'[b]] = 0
  BY <1>3, <1>6 DEF HandlerInv
<1>13. /\ \A h \in sentHandlers' : h[2] \in Handled /\ h[1] = mid'[h[2]] /\ Has(pushed', h[2])
       /\ \A k \in DOMAIN called' : Has(pushed', called'[k])
  BY <1>3, <1>4 DEF HandlerInv
<1>14. \A k \in DOMAIN sentMessages' : sentMessages'[k][2] = written'[sentMessages'[k][1] + 1]
  BY <1>3 DEF HandlerInv
<1>15. SendInv' /\ SentInv'
  OBVIOUS
<1> QED
  BY ONLY <1>9, <1>10, <1>11, <1>12, <1>13, <1>14, <1>15 DEF HandlerInv, Has

LEMMA HandlerRegister ==
  ASSUME HandlerInv, SendInv', SentInv', NEW a \in Actors, RegisterHandler(a)
  PROVE  HandlerInv'
<1>1. SendInv /\ Typed /\ TypeOK /\ spc[a] = "register"
  BY DEF HandlerInv, SendInv, Typed, RegisterHandler
<1>2. PICK m \in Msgs : m = sending[a]
  BY <1>1 DEF Typed
<1>3. /\ m \in Handled /\ mid[m] # 0 /\ Has(pushed, m) /\ By[m] = a /\ m # NoMsg
      /\ spc \in [Actors -> {"idle", "new_mid", "push", "register"}]
      /\ sending \in [Actors -> Msgs \cup {NoMsg}]
  <2>1. m \in Handled /\ mid[m] # 0 /\ Has(pushed, m) /\ By[m] = a
    BY ONLY <1>1, <1>2, a \in Actors DEF SendInv, Has
  <2> QED BY <1>1, <2>1 DEF TypeOK
<1>4. /\ UNCHANGED <<mid, stage, written, queue, pushed, front, sentMessages, notified, called>>
      /\ sentHandlers' = {h \in sentHandlers : h[1] # mid[m]} \cup {<<mid[m], m>>}
      /\ \A b \in Actors : b # a => spc'[b] = spc[b] /\ sending'[b] = sending[b]
      /\ spc'[a] = "idle" /\ sending'[a] = NoMsg
  BY <1>2, <1>3 DEF RegisterHandler, Step, writeVars, doneVars
<1>5. ~Out(m) /\ \A x \in Msgs : x # m => (Out(x)' <=> Out(x))
  <2>1. \A x \in Msgs : x # m => \A b \in Actors : sending'[b] = x <=> sending[b] = x
    BY <1>2, <1>4
  <2> QED BY <1>2, <1>4, <2>1 DEF Out
<1>6. Out(m)'
  <2>1. ASSUME NEW b \in Actors, sending[b] = m PROVE b = a
    <3>1. spc[b] # "idle"
      BY <1>3, <2>1 DEF HandlerInv
    <3> QED BY <1>3, <2>1, <3>1 DEF HandlerInv, SendInv
  <2> QED BY <1>3, <1>4, <2>1 DEF Out, Has
<1>7. \A x : /\ Called(x)' <=> Called(x)
             /\ ToldOf(x)' <=> ToldOf(x)
             /\ Sole(x)' <=> Sole(x)
             /\ called' = called
  BY <1>4 DEF Called, ToldOf, Sole
<1>8. ASSUME NEW x \in Handled, Sole(x)' PROVE Account(x)'
  <2>1. Sole(x) /\ Account(x)
    BY <1>7, <1>8 DEF HandlerInv
  <2>2. CASE x = m
    <3>1. ~Registered(m) /\ ~Called(m)
      BY <1>5, <2>1, <2>2 DEF Account
    <3>2. Registered(m)'
      BY <1>4 DEF Registered
    <3> QED BY <1>6, <1>7, <2>1, <2>2, <3>1, <3>2 DEF Account
  <2>3. CASE x # m
    <3>1. mid[x] # mid[m]
      BY <2>1, <2>3 DEF Sole
    <3>2. Registered(x)' <=> Registered(x)
      BY <1>4, <2>3, <3>1 DEF Registered
    <3>3. Out(x)' <=> Out(x)
      BY <1>5, <2>3
    <3> QED BY <1>7, <2>1, <3>2, <3>3 DEF Account
  <2> QED BY <2>2, <2>3
<1>9. \A h \in sentHandlers' : h[2] \in Handled /\ h[1] = mid'[h[2]] /\ Has(pushed', h[2])
  BY <1>3, <1>4 DEF HandlerInv
<1>10. /\ \A b \in Actors : spc'[b] = "idle" => sending'[b] = NoMsg
       /\ \A b \in Actors : spc'[b] = "new_mid" => mid'[sending'[b]] = 0
  BY <1>4 DEF HandlerInv
<1> QED
  BY <1>4, <1>8, <1>9, <1>10 DEF HandlerInv, Has

LEMMA HandlerProcessSent ==
  ASSUME HandlerInv, SendInv', SentInv', ProcessSent
  PROVE  HandlerInv'
<1>0. PICK e, m : e = Head(sentMessages) /\ m = e[2]
  OBVIOUS
<1> DEFINE own == {h \in sentHandlers : h[1] = mid[m]}
<1>1. /\ sentMessages \in Seq(Ids \X Msgs) /\ sentMessages # <<>> /\ notified \in Seq(Ids)
      /\ written \in Seq(Msgs) /\ called \in Seq(Msgs)
      /\ \A i \in acked : i < internalMid /\ internalMid = Len(written)
      /\ Waiting \subseteq acked /\ sentHandlers \subseteq Nat \X Msgs
  BY DEF HandlerInv, SentInv, BufInv, Typed, TypeOK, ProcessSent
<1>2. /\ e = sentMessages[1] /\ 1 \in DOMAIN sentMessages
      /\ e[1] \in Nat /\ m \in Msgs /\ m = e[2]
  BY <1>0, <1>1 DEF Ids
<1>3. e[1] < Len(written) /\ written[e[1] + 1] = m
  <2>1. e[1] \in acked
    BY <1>1, <1>2 DEF Waiting
  <2> QED BY <1>1, <1>2, <2>1 DEF HandlerInv
<1>4. Has(pushed, m) /\ Has(written, m)
  <2>1. e[1] + 1 \in DOMAIN written
    BY <1>1, <1>2, <1>3
  <2> QED BY <1>3, <2>1 DEF HandlerInv, Has
<1>5. /\ UNCHANGED <<mid, spc, sending, queue, pushed, written, front>>
      /\ sentMessages' = Tail(sentMessages)
      /\ notified' = Append(notified, e[1])
      /\ sentHandlers' = sentHandlers \ own
      /\ \/ own = {} /\ UNCHANGED called
         \/ \E h \in own : called' = Append(called, h[2])
      /\ stage' # "pop" /\ spc[Pass] = "idle"
  BY <1>0 DEF ProcessSent, CallMessageSent, sendVars, writeVars, HandlerEnds
<1>6. \A k \in DOMAIN sentMessages' : sentMessages'[k][2] = written'[sentMessages'[k][1] + 1]
  <2>1. \A k \in DOMAIN sentMessages' :
           k + 1 \in DOMAIN sentMessages /\ sentMessages'[k] = sentMessages[k + 1]
    BY <1>1, <1>5
  <2> QED BY <1>5, <2>1 DEF HandlerInv
<1>7. \A h \in sentHandlers : h = <<mid[h[2]], h[2]>> /\ h[2] \in Handled
  <2>1. \A h \in sentHandlers : h \in Nat \X Msgs
    BY <1>1
  <2> QED BY <2>1 DEF HandlerInv
<1> HIDE DEF own
<1>8. \A x : ToldOf(x)' <=> x = m \/ ToldOf(x)
  <2>1. /\ DOMAIN notified' = DOMAIN notified \cup {Len(notified) + 1}
        /\ notified'[Len(notified) + 1] = e[1]
        /\ \A k \in DOMAIN notified : notified'[k] = notified[k]
    <3>1. e[1] \in Ids
      BY <1>2 DEF Ids
    <3> QED BY <1>1, <1>5, <3>1, Appended
  <2>2. written' = written /\ written[e[1] + 1] = m
    BY <1>3, <1>5
  <2> QED BY ONLY <2>1, <2>2 DEF ToldOf
<1>9. \A x : (Out(x)' <=> Out(x)) /\ (Sole(x)' <=> Sole(x))
  BY <1>5 DEF Out, Sole
<1>10. By[m] = Pass => Out(m)
  <2>1. ASSUME NEW a \in Actors, sending[a] = m PROVE By[m] = a /\ spc[a] # "idle"
    <3>1. m # NoMsg
      BY <1>2
    <3>2. spc[a] # "idle"
      BY <2>1, <3>1 DEF HandlerInv
    <3> QED BY <2>1, <3>2 DEF HandlerInv, SendInv
  <2> QED BY <1>4, <1>5, <2>1 DEF Out, Has
<1>11. \A h \in own : h \in sentHandlers /\ mid[h[2]] = mid[m] /\ Has(pushed, h[2]) /\ h[2] \in Msgs
  BY DEF own, HandlerInv
<1>12. \A x \in Handled : Sole(x) /\ x # m => (Registered(x)' <=> Registered(x))
  <2>1. \A x \in Handled : Sole(x) /\ x # m => <<mid[x], x>> \notin own
    BY <1>2 DEF own, Sole
  <2> QED BY <1>5, <2>1 DEF Registered
<1>13. ~Registered(m)'
  BY <1>5 DEF Registered, own
<1>14. /\ \A h \in sentHandlers' : h[2] \in Handled /\ h[1] = mid'[h[2]] /\ Has(pushed', h[2])
       /\ \A b \in Actors : spc'[b] = "idle" => sending'[b] = NoMsg
       /\ \A b \in Actors : spc'[b] = "new_mid" => mid'[sending'[b]] = 0
       /\ \A x : Has(written', x) \/ Has(queue', x) => Has(pushed', x)
       /\ stage' = "pop" => Has(pushed', front')
  BY <1>5 DEF HandlerInv
<1>15. SendInv' /\ SentInv'
  OBVIOUS
<1>16. CASE own = {}
  <2>1. called' = called /\ \A x : Called(x)' <=> Called(x)
    BY <1>5, <1>16 DEF Called
  <2>2. \A k \in DOMAIN called' : Has(pushed', called'[k])
    BY <1>5, <2>1 DEF HandlerInv
  <2>3. ~Registered(m)
    BY <1>16 DEF Registered, own
  <2>4. ASSUME NEW x \in Handled, Sole(x)' PROVE Account(x)'
    <3>1. Sole(x) /\ Account(x)
      BY <1>9, <2>4 DEF HandlerInv
    <3>2. CASE x = m
      BY <1>8, <1>9, <1>10, <1>13, <2>1, <2>3, <3>1, <3>2 DEF Account
    <3>3. CASE x # m
      BY <1>8, <1>9, <1>12, <2>1, <3>1, <3>3 DEF Account
    <3> QED BY <3>2, <3>3
  <2> QED BY ONLY <1>6, <1>14, <1>15, <2>2, <2>4 DEF HandlerInv, Has
<1>17. CASE own # {}
  <2>1. PICK h \in own : called' = Append(called, h[2])
    BY <1>5, <1>17
  <2>2. h \in sentHandlers /\ mid[h[2]] = mid[m] /\ Has(pushed, h[2]) /\ h[2] \in Msgs
    BY <1>11
  <2>3. /\ DOMAIN called' = DOMAIN called \cup {Len(called) + 1}
        /\ Len(called) + 1 \notin DOMAIN called
        /\ called'[Len(called) + 1] = h[2]
        /\ \A k \in DOMAIN called : called'[k] = called[k]
    BY <1>1, <2>1, <2>2, Appended
  <2>4. \A x : Called(x)' <=> x = h[2] \/ Called(x)
    BY ONLY <2>3 DEF Called
  <2>5. \A k \in DOMAIN called' : Has(pushed', called'[k])
    BY <1>5, <2>2, <2>3 DEF HandlerInv
  <2>6. ASSUME NEW x \in Handled, Sole(x)' PROVE Account(x)'
    <3>1. Sole(x) /\ Account(x)
      BY <1>9, <2>6 DEF HandlerInv
    <3>2. CASE x = m
      <4>1. h[2] = m
        BY <2>2, <3>1, <3>2 DEF Sole
      <4>2. Registered(m)
        BY <1>7, <2>2, <4>1 DEF Registered
      <4>3. ~Called(m) /\ Out(m)
        BY <3>1, <3>2, <4>2 DEF Account
      <4>4. \A i, j \in DOMAIN called' : called'[i] = m /\ called'[j] = m => i = j
        BY <2>3, <4>3 DEF Called
      <4> QED BY <1>8, <1>9, <1>13, <2>4, <3>2, <4>1, <4>3, <4>4 DEF Account
    <3>3. CASE x # m
      <4>1. h[2] # x
        BY <1>2, <2>2, <3>1, <3>3 DEF Sole
      <4>2. \A i, j \in DOMAIN called' : called'[i] = x /\ called'[j] = x => i = j
        BY <2>3, <3>1, <4>1 DEF Account
      <4> QED BY <1>8, <1>9, <1>12, <2>4, <3>1, <3>3, <4>1, <4>2 DEF Account
    <3> QED BY <3>2, <3>3
  <2> QED BY ONLY <1>6, <1>14, <1>15, <2>5, <2>6 DEF HandlerInv, Has
<1> QED
  BY <1>16, <1>17

LEMMA HandlerStartWrite ==
  ASSUME HandlerInv, SendInv', SentInv', StartWrite
  PROVE  HandlerInv'
<1>1. /\ queue \in Seq(Msgs) /\ queue # <<>> /\ written \in Seq(Msgs) /\ front \in Msgs
      /\ sentMessages \in Seq(Ids \X Msgs) /\ notified \in Seq(Ids)
      /\ \A i \in acked : i < internalMid /\ internalMid = Len(written)
      /\ Waiting \subseteq acked /\ Told \subseteq acked
      /\ Has(pushed, front)
  BY DEF HandlerInv, SendInv, SentInv, BufInv, StartWrite, Typed, TypeOK
<1>2. /\ queue' = Tail(queue) /\ written' = Append(written, front) /\ stage' = "write"
      /\ UNCHANGED <<mid, spc, sending, pushed, sentMessages, sentHandlers, notified, called>>
  BY DEF StartWrite, sendVars, doneVars, toldVars
<1>3. /\ DOMAIN written' = DOMAIN written \cup {Len(written) + 1}
      /\ written'[Len(written) + 1] = front
      /\ \A k \in DOMAIN written : written'[k] = written[k]
      /\ DOMAIN written = 1..Len(written) /\ Len(written) \in Nat
  BY <1>1, <1>2, Appended, LenProperties
<1>4. \A i \in Nat : i < Len(written) => written'[i + 1] = written[i + 1]
  BY <1>3
<1>5. \A k \in DOMAIN notified : notified[k] \in Nat /\ notified[k] < Len(written)
  <2>1. \A k \in DOMAIN notified : notified[k] \in Ids
    BY <1>1, Members
  <2>2. \A k \in DOMAIN notified : notified[k] \in acked
    BY <1>1 DEF Told
  <2> QED BY <1>1, <2>1, <2>2 DEF Ids
<1>6. \A k \in DOMAIN sentMessages : sentMessages[k][1] \in Nat
                                     /\ sentMessages[k][1] < Len(written)
  <2>1. \A k \in DOMAIN sentMessages : sentMessages[k] \in Ids \X Msgs
    BY <1>1, Members
  <2>2. \A k \in DOMAIN sentMessages : sentMessages[k][1] \in Waiting
    BY DEF Waiting
  <2>3. \A k \in DOMAIN sentMessages : sentMessages[k][1] \in Nat
    BY <2>1 DEF Ids
  <2> QED BY <1>1, <2>2, <2>3
<1>7. \A x : ToldOf(x)' <=> ToldOf(x)
  BY <1>2, <1>4, <1>5 DEF ToldOf
<1>8. \A k \in DOMAIN sentMessages' : sentMessages'[k][2] = written'[sentMessages'[k][1] + 1]
  BY <1>2, <1>4, <1>6 DEF HandlerInv
<1>9. \A x : Has(written', x) <=> x = front \/ Has(written, x)
  BY ONLY <1>3 DEF Has
<1>10. \A x : Has(queue', x) => Has(queue, x)
  <2>1. \A k \in DOMAIN queue' : k + 1 \in DOMAIN queue /\ queue'[k] = queue[k + 1]
    BY <1>1, <1>2
  <2> QED BY <2>1 DEF Has
<1>12. \A x : Has(written', x) \/ Has(queue', x) => Has(pushed', x)
  BY <1>1, <1>2, <1>9, <1>10 DEF HandlerInv
<1>13. \A x \in Handled : Sole(x)' => Account(x)'
  BY <1>2, <1>7, AccountSame DEF HandlerInv
<1>14. /\ \A h \in sentHandlers' : h[2] \in Handled /\ h[1] = mid'[h[2]] /\ Has(pushed', h[2])
       /\ \A k \in DOMAIN called' : Has(pushed', called'[k])
       /\ \A b \in Actors : spc'[b] = "idle" => sending'[b] = NoMsg
       /\ \A b \in Actors : spc'[b] = "new_mid" => mid'[sending'[b]] = 0
       /\ stage' # "pop"
  BY <1>2 DEF HandlerInv
<1>15. SendInv' /\ SentInv'
  OBVIOUS
<1> QED
  BY ONLY <1>8, <1>12, <1>13, <1>14, <1>15 DEF HandlerInv, Has

LEMMA HandlerFrontCopy ==
  ASSUME HandlerInv, SendInv', SentInv', FrontCopy
  PROVE  HandlerInv'
<1>1. /\ UNCHANGED <<mid, spc, sending, pushed, written, queue, sentMessages, sentHandlers,
                     notified, called>>
      /\ front' = Head(queue) /\ queue \in Seq(Msgs) /\ queue # <<>>
  BY DEF FrontCopy, sendVars, doneVars, toldVars, HandlerInv, SendInv, Typed, TypeOK
<1>2. Has(queue, front')
  <2>1. 1 \in DOMAIN queue /\ Head(queue) = queue[1]
    BY <1>1
  <2> QED BY <1>1, <2>1 DEF Has
<1>3. Has(pushed', front')
  BY <1>1, <1>2 DEF HandlerInv
<1> QED
  BY <1>1, <1>3 DEF HandlerInv, Has, Account, Sole, Out, Registered, Called, ToldOf

LEMMA HandlerRegSent ==
  ASSUME HandlerInv, SendInv', SentInv', RegSentMessage
  PROVE  HandlerInv'
<1>1. /\ UNCHANGED <<mid, spc, sending, pushed, written, queue, front, stage, sentHandlers,
                     notified, called>>
      /\ sentMessages \in Seq(Ids \X Msgs) /\ buffers \subseteq Ids \X Msgs
  BY DEF RegSentMessage, sendVars, writeVars, toldVars, HandlerInv, SendInv, Typed, TypeOK
<1>2. PICK b \in buffers : sentMessages' = Append(sentMessages, b)
  BY DEF RegSentMessage
<1>3. b[2] = written[b[1] + 1]
  BY DEF HandlerInv, SentInv, BufInv
<1>4. /\ DOMAIN sentMessages' = DOMAIN sentMessages \cup {Len(sentMessages) + 1}
      /\ sentMessages'[Len(sentMessages) + 1] = b
      /\ \A k \in DOMAIN sentMessages : sentMessages'[k] = sentMessages[k]
  <2>1. b \in Ids \X Msgs
    BY <1>1
  <2> QED BY <1>1, <1>2, <2>1, Appended
<1>5. \A k \in DOMAIN sentMessages' : sentMessages'[k][2] = written'[sentMessages'[k][1] + 1]
  BY <1>1, <1>3, <1>4 DEF HandlerInv
<1>6. \A x \in Handled : Sole(x)' => Account(x)'
  BY <1>1, AccountSame DEF HandlerInv, ToldOf
<1>7. HandlerInv /\ SendInv' /\ SentInv'
  OBVIOUS
<1> QED
  BY ONLY <1>1, <1>5, <1>6, <1>7 DEF HandlerInv, Has

LEMMA HandlerQuiet ==
  ASSUME HandlerInv, SendInv', SentInv',
         UNCHANGED <<sendVars, pushed, written, queue, sentMessages, toldVars>>,
         stage' = "pop" => stage = "pop" /\ front' = front
  PROVE  HandlerInv'
  BY DEF HandlerInv, Has, Account, Sole, Out, Registered, Called, ToldOf, sendVars, toldVars

LEMMA HandlerNext == HandlerInv /\ [Next]_vars => HandlerInv'
<1> SUFFICES ASSUME HandlerInv, [Next]_vars PROVE HandlerInv'
  OBVIOUS
<1>1. SendInv' /\ SentInv'
  BY SendNext, SentNext DEF HandlerInv
<1> USE DEF vars, writeVars, doneVars
<1>2. ASSUME NEW a \in Actors, SendStep(a) \/ \E m \in Msgs : Send(a, m) PROVE HandlerInv'
  <2>1. ReadMid(a) => sending[a] \in Msgs
    BY DEF HandlerInv, SendInv, Typed, ReadMid
  <2> QED BY <1>1, <1>2, <2>1, HandlerSend, HandlerPush, HandlerRegister DEF SendStep
<1>3. CASE ProcessSent
  BY <1>1, <1>3, HandlerProcessSent
<1>4. CASE StartWrite
  BY <1>1, <1>4, HandlerStartWrite
<1>5. CASE FrontCopy
  BY <1>1, <1>5, HandlerFrontCopy
<1>6. CASE RegSentMessage
  BY <1>1, <1>6, HandlerRegSent
<1>7. CASE BeginPass \/ ProcessArrived \/ EndWrite \/ ProcessErrors
  BY <1>1, <1>7, HandlerQuiet
     DEF BeginPass, ProcessArrived, HandlerEnds, EndWrite, ProcessErrors
<1>8. ASSUME EraseBuffer \/ \E i \in inflight : WriteSucceeded(i) \/ WriteFailed(i)
      PROVE  HandlerInv'
  BY <1>1, <1>8, HandlerQuiet DEF EraseBuffer, WriteSucceeded, WriteFailed
<1>9. CASE LoseLink \/ ReadFailed \/ UNCHANGED vars
  BY <1>1, <1>9, HandlerQuiet DEF LoseLink, ReadFailed
<1> QED
  BY <1>2, <1>3, <1>4, <1>5, <1>6, <1>7, <1>8, <1>9 DEF Next, PassStep, WriteHandler

LEMMA HandlerAccounted == HandlerInv => HandlersAccounted
  BY DEF HandlerInv, HandlersAccounted, Account

(* Whoever sends a message with a handler: it is called at most once and   *)
(* not before the session is told of the message, and when send() has      *)
(* returned it has been called or waits in the table, provided only that   *)
(* no other message got the same identifier.  Sent from inside the pass,   *)
(* it is called when the session is told; a caller outside the pass may    *)
(* have registered it too late, and then it waits for ever.                *)
THEOREM HandlersAccountedHolds == Spec => []HandlersAccounted
  BY HandlerInit, HandlerNext, HandlerAccounted, PTL DEF Spec

----------------------------------------------------------------------------
(* Order.  Callers outside the pass send nothing more urgent than anything *)
(* else: then what is in front of the queue while its text is fetched      *)
(* stays in front, and front_copy() and pop() speak of the same message.   *)
Calm == \A m, n \in Msgs : By[m] # Pass => Priority[m] <= Priority[n]

Sorted(q) == \A j, k \in DOMAIN q : j < k => Priority[q[j]] >= Priority[q[k]]

OrderInv ==
    /\ SendInv
    /\ Len(Pipeline) = Len(pushed)
    /\ \A m : Has(Pipeline, m) <=> Has(pushed, m)
    /\ \A j, k \in DOMAIN Pipeline : Pipeline[j] = Pipeline[k] => j = k
    /\ \A m, n \in Msgs :
          Priority[m] = Priority[n] /\ Before(pushed, m, n) => Before(Pipeline, m, n)
    /\ Sorted(queue)
    /\ stage = "pop" => front = Head(queue)

(* In a queue that is ordered, those ahead of a new message are those of   *)
(* its priority or a higher one.                                           *)
LEMMA AheadOfSorted ==
  ASSUME NEW q \in Seq(Msgs), NEW m \in Msgs, Sorted(q)
  PROVE  \A i \in DOMAIN q : i <= Ahead(q, m) <=> Priority[q[i]] >= Priority[m]
<1> DEFINE S == {i \in DOMAIN q : Priority[q[i]] >= Priority[m]}
           n == Ahead(q, m)
<1>1. /\ Len(q) \in Nat /\ DOMAIN q = 1..Len(q) /\ n \in Nat /\ n = Cardinality(S)
      /\ \A i \in DOMAIN q : Priority[q[i]] \in Nat
      /\ Priority[m] \in Nat
  <2>1. Len(q) \in Nat /\ DOMAIN q = 1..Len(q) /\ n \in 0..Len(q)
    BY AheadType, LenProperties
  <2>2. \A i \in DOMAIN q : q[i] \in Msgs
    BY Members
  <2> QED BY <2>1, <2>2 DEF Ahead
<1>2. \A i \in S, j \in DOMAIN q : j < i => j \in S
  BY <1>1 DEF Sorted
<1>3. S \subseteq DOMAIN q
  OBVIOUS
<1>4. \A k \in Nat : IsFiniteSet(1..k) /\ Cardinality(1..k) = k
  <2> SUFFICES ASSUME NEW k \in Nat PROVE IsFiniteSet(1..k) /\ Cardinality(1..k) = k
    OBVIOUS
  <2>1. 1 \in Int /\ k \in Int
    OBVIOUS
  <2>2. IsFiniteSet(1..k) /\ Cardinality(1..k) = IF 1 > k THEN 0 ELSE k - 1 + 1
    BY ONLY <2>1, FS_Interval
  <2> QED BY <2>2
<1>5. IsFiniteSet(S)
  BY <1>1, <1>3, <1>4, FS_Subset
<1> HIDE DEF S, n
<1>6. ASSUME NEW i \in S PROVE i <= n
  <2>1. i \in Nat /\ 1..i \subseteq S
    BY <1>1, <1>2, <1>3
  <2>2. Cardinality(1..i) <= Cardinality(S)
    BY <1>5, <2>1, FS_Subset
  <2> QED BY <1>1, <1>4, <2>1, <2>2
<1>7. ASSUME NEW i \in DOMAIN q, i \notin S PROVE ~(i <= n)
  <2>1. i - 1 \in Nat /\ S \subseteq 1..i - 1
    BY <1>1, <1>2, <1>3, <1>7
  <2>2. Cardinality(S) <= Cardinality(1..i - 1)
    BY <1>4, <2>1, FS_Subset
  <2> QED BY <1>1, <1>4, <2>1, <2>2
<1>8. \A i \in DOMAIN q : i <= n <=> i \in S
  BY <1>6, <1>7
<1> QED
  BY <1>8 DEF S, n

(* Inserting into what is still to be written is inserting into the whole. *)
LEMMA PipelineInsert ==
  ASSUME NEW w \in Seq(Msgs), NEW q \in Seq(Msgs), NEW n \in 0..Len(q), NEW m \in Msgs
  PROVE  /\ Len(w) + n \in 0..Len(w \o q)
         /\ w \o InsertAfter(q, n, m) = InsertAfter(w \o q, Len(w) + n, m)
<1> DEFINE r == InsertAfter(q, n, m)
           p == w \o q
           k == Len(w) + n
           a == Len(w)
           b == Len(q)
<1>1. a \in Nat /\ b \in Nat /\ n \in Nat /\ n <= b /\ k = a + n
  BY LenProperties
<1>2. /\ r \in Seq(Msgs) /\ Len(r) = b + 1
      /\ \A i \in 1..n : r[i] = q[i]
      /\ r[n + 1] = m
      /\ \A i \in (n + 1)..b : r[i + 1] = q[i]
  BY InsertAfterElements
<1>3. /\ p \in Seq(Msgs) /\ Len(p) = a + b
      /\ \A i \in 1..a + b : p[i] = IF i <= a THEN w[i] ELSE q[i - a]
  BY ConcatProperties
<1> HIDE DEF r
<1>4. /\ w \o r \in Seq(Msgs) /\ Len(w \o r) = Len(w) + Len(r)
      /\ \A i \in 1..Len(w) + Len(r) : (w \o r)[i] = IF i <= Len(w) THEN w[i] ELSE r[i - Len(w)]
  <2>1. w \in Seq(Msgs) /\ r \in Seq(Msgs)
    BY <1>2
  <2> QED BY ONLY <2>1, ConcatProperties
<1> HIDE DEF p
<1>5. k \in 0..Len(p)
  BY <1>1, <1>3
<1> DEFINE t == InsertAfter(p, k, m)
<1>6. /\ t \in Seq(Msgs) /\ Len(t) = a + b + 1
      /\ \A i \in 1..k : t[i] = p[i]
      /\ t[k + 1] = m
      /\ \A i \in (k + 1)..(a + b) : t[i + 1] = p[i]
  <2> HIDE DEF k
  <2>1. /\ t \in Seq(Msgs) /\ Len(t) = Len(p) + 1
        /\ \A i \in 1..k : t[i] = p[i]
        /\ t[k + 1] = m
        /\ \A i \in (k + 1)..Len(p) : t[i + 1] = p[i]
    <3>1. p \in Seq(Msgs)
      BY <1>3
    <3> QED BY <1>5, <3>1, InsertAfterElements
  <2> QED BY <1>3, <2>1
<1> DEFINE u == w \o r
<1>7. u \in Seq(Msgs) /\ Len(u) = a + b + 1
  BY <1>1, <1>2, <1>4
<1>8. \A i \in 1..a + b + 1 : u[i] = IF i <= a THEN w[i] ELSE r[i - a]
  BY <1>1, <1>2, <1>4
<1> HIDE DEF t, u, a, b, k
<1>9. ASSUME NEW i \in 1..a + b + 1 PROVE u[i] = t[i]
  <2>1. CASE i <= a
    <3>1. i \in 1..k /\ i \in 1..a + b
      BY <1>1, <2>1
    <3>2. t[i] = p[i] /\ p[i] = w[i] /\ u[i] = w[i]
      BY <1>3, <1>6, <1>8, <2>1, <3>1
    <3> QED BY <3>2
  <2>2. CASE i > a /\ i <= k
    <3>1. i \in 1..k /\ i \in 1..a + b /\ i - a \in 1..n /\ ~(i <= a)
      BY <1>1, <2>2
    <3>2. t[i] = p[i] /\ p[i] = q[i - a] /\ u[i] = r[i - a] /\ r[i - a] = q[i - a]
      BY <1>2, <1>3, <1>6, <1>8, <3>1
    <3> QED BY <3>2
  <2>3. CASE i = k + 1
    <3>1. ~(i <= a) /\ i - a = n + 1
      BY <1>1, <2>3
    <3> QED BY <1>2, <1>6, <1>8, <2>3, <3>1
  <2>4. CASE i > k + 1
    <3>1. /\ i - 1 \in (k + 1)..(a + b) /\ i - 1 \in 1..a + b /\ i - 1 + 1 = i
          /\ ~(i - 1 <= a) /\ ~(i <= a)
          /\ i - 1 - a \in (n + 1)..b /\ (i - 1 - a) + 1 = i - a
      BY <1>1, <2>4
    <3>2. t[i] = p[i - 1] /\ p[i - 1] = q[i - 1 - a]
      BY <1>3, <1>6, <3>1
    <3>3. r[i - a] = q[i - 1 - a]
      BY <1>2, <3>1
    <3> QED BY <1>8, <3>1, <3>2, <3>3
  <2> QED BY <1>1, <2>1, <2>2, <2>3, <2>4
<1>10. u = t
  <2>1. Len(u) = Len(t) /\ \A i \in 1..Len(u) : u[i] = t[i]
    BY <1>6, <1>7, <1>9
  <2> QED BY <1>6, <1>7, <2>1, SeqEqual
<1> QED
  BY <1>5, <1>10 DEF u, t, p, r, k, a, b

(* Where insertion moves a position to.                                    *)
Shift(n, i) == IF i <= n THEN i ELSE i + 1

LEMMA InsertShifts ==
  ASSUME NEW q \in Seq(Msgs), NEW n \in 0..Len(q), NEW m \in Msgs
  PROVE  LET r == InsertAfter(q, n, m) IN
         /\ n + 1 \in DOMAIN r /\ r[n + 1] = m
         /\ \A i \in DOMAIN q : Shift(n, i) \in DOMAIN r /\ r[Shift(n, i)] = q[i]
         /\ \A i \in DOMAIN r : i = n + 1 \/ \E k \in DOMAIN q : i = Shift(n, k)
         /\ \A i, j \in DOMAIN q : i < j => Shift(n, i) < Shift(n, j)
         /\ \A i \in DOMAIN q : IF i <= n THEN Shift(n, i) < n + 1 ELSE n + 1 < Shift(n, i)
<1> DEFINE r == InsertAfter(q, n, m)
           L == Len(q)
<1>1. L \in Nat /\ DOMAIN q = 1..L /\ n \in Nat /\ n <= L
  BY LenProperties
<1>2. /\ r \in Seq(Msgs) /\ Len(r) = L + 1
      /\ \A i \in 1..n : r[i] = q[i]
      /\ r[n + 1] = m
      /\ \A i \in (n + 1)..L : r[i + 1] = q[i]
  BY InsertAfterElements
<1>3. DOMAIN r = 1..L + 1
  BY <1>2, LenProperties
<1> HIDE DEF r, L
<1>4. ASSUME NEW i \in DOMAIN q
      PROVE  /\ Shift(n, i) \in DOMAIN r /\ r[Shift(n, i)] = q[i]
             /\ IF i <= n THEN Shift(n, i) < n + 1 ELSE n + 1 < Shift(n, i)
  <2>1. CASE i <= n
    <3>1. i \in 1..n /\ i \in 1..L + 1 /\ i < n + 1 /\ Shift(n, i) = i
      BY <1>1, <2>1 DEF Shift
    <3> QED BY <1>2, <1>3, <2>1, <3>1
  <2>2. CASE ~(i <= n)
    <3>1. i \in (n + 1)..L /\ i + 1 \in 1..L + 1 /\ n + 1 < i + 1 /\ Shift(n, i) = i + 1
      BY <1>1, <2>2 DEF Shift
    <3> QED BY <1>2, <1>3, <2>2, <3>1
  <2> QED BY <2>1, <2>2
<1>5. ASSUME NEW i \in DOMAIN r, i # n + 1 PROVE \E k \in DOMAIN q : i = Shift(n, k)
  <2>1. CASE i <= n
    BY <1>1, <1>3, <2>1 DEF Shift
  <2>2. CASE i > n
    <3>1. i - 1 \in DOMAIN q /\ ~(i - 1 <= n) /\ i = i - 1 + 1
      BY <1>1, <1>3, <1>5, <2>2
    <3> QED BY <3>1 DEF Shift
  <2> QED BY <1>1, <1>3, <2>1, <2>2
<1>6. \A i, j \in DOMAIN q : i < j => Shift(n, i) < Shift(n, j)
  BY <1>1 DEF Shift
<1>7. n + 1 \in DOMAIN r
  BY <1>1, <1>3
<1> QED
  BY <1>2, <1>4, <1>5, <1>6, <1>7 DEF r

LEMMA OrderInit == Init => OrderInv
<1> SUFFICES ASSUME Init PROVE OrderInv
  OBVIOUS
<1>1. pushed = <<>> /\ written = <<>> /\ queue = <<>> /\ stage = "idle"
  BY DEF Init
<1>2. Pipeline = <<>>
  BY <1>1, ConcatEmptySeq, EmptySeq DEF Pipeline
<1> QED
  BY <1>1, <1>2, SendInit DEF OrderInv, Has, Before, Sorted

LEMMA OrderPush ==
  ASSUME Calm, OrderInv, SendInv', NEW a \in Actors, Push(a)
  PROVE  OrderInv'
<1> DEFINE m == sending[a]
           n == Ahead(queue, m)
           k == Len(written) + n
           p == Pipeline
           r == InsertAfter(p, k, m)
<1>1. /\ spc[a] = "push" /\ m \in Msgs /\ By[m] = a
      /\ queue \in Seq(Msgs) /\ written \in Seq(Msgs) /\ pushed \in Seq(Msgs)
      /\ \A i \in DOMAIN pushed : pushed[i] # m
  BY DEF OrderInv, SendInv, Push, Typed, TypeOK
<1>2. n \in 0..Len(queue) /\ Inserted(queue, m) = InsertAfter(queue, n, m)
  BY <1>1, AheadType
<1>3. /\ queue' = InsertAfter(queue, n, m)
      /\ pushed' = Append(pushed, m)
      /\ UNCHANGED <<written, stage, front>>
  BY <1>2 DEF Push, writeVars
<1>4. p \in Seq(Msgs) /\ Len(p) = Len(written) + Len(queue)
      /\ \A i \in 1..Len(written) + Len(queue) :
            p[i] = IF i <= Len(written) THEN written[i] ELSE queue[i - Len(written)]
  BY <1>1, ConcatProperties DEF Pipeline
<1>5. k \in 0..Len(p) /\ Pipeline' = r
  <2>1. Pipeline' = written \o InsertAfter(queue, n, m)
    BY <1>3 DEF Pipeline
  <2> HIDE DEF m, n
  <2>2. /\ Len(written) + n \in 0..Len(written \o queue)
        /\ written \o InsertAfter(queue, n, m)
              = InsertAfter(written \o queue, Len(written) + n, m)
    BY <1>1, <1>2, PipelineInsert
  <2> QED BY <2>1, <2>2 DEF Pipeline
<1>6. DOMAIN p = 1..Len(p) /\ DOMAIN queue = 1..Len(queue) /\ Len(p) \in Nat
      /\ Len(queue) \in Nat /\ Len(written) \in Nat
  BY <1>1, <1>4, LenProperties
<1>7. \A i \in DOMAIN queue : i <= n <=> Priority[queue[i]] >= Priority[m]
  BY <1>1, AheadOfSorted DEF OrderInv
<1>8. /\ DOMAIN pushed' = DOMAIN pushed \cup {Len(pushed) + 1}
      /\ pushed'[Len(pushed) + 1] = m
      /\ \A i \in DOMAIN pushed : pushed'[i] = pushed[i]
      /\ Len(pushed') = Len(pushed) + 1
      /\ \A i \in DOMAIN pushed : i < Len(pushed) + 1
      /\ DOMAIN pushed \subseteq Nat /\ Len(pushed) \in Nat
  BY <1>1, <1>3, Appended, AppendProperties, LenProperties
<1>9. /\ k + 1 \in DOMAIN r /\ r[k + 1] = m
      /\ \A i \in DOMAIN p : Shift(k, i) \in DOMAIN r /\ r[Shift(k, i)] = p[i]
      /\ \A i \in DOMAIN r : i = k + 1 \/ \E j \in DOMAIN p : i = Shift(k, j)
      /\ \A i, j \in DOMAIN p : i < j => Shift(k, i) < Shift(k, j)
      /\ \A i \in DOMAIN p : IF i <= k THEN Shift(k, i) < k + 1 ELSE k + 1 < Shift(k, i)
  <2> HIDE DEF m, k, p
  <2> QED BY <1>1, <1>4, <1>5, InsertShifts
<1>10. Len(r) = Len(p) + 1
  <2> HIDE DEF m, k, p
  <2> QED BY <1>1, <1>4, <1>5, InsertAfterElements
<1>11. /\ n + 1 \in DOMAIN queue' /\ queue'[n + 1] = m
       /\ \A i \in DOMAIN queue : Shift(n, i) \in DOMAIN queue' /\ queue'[Shift(n, i)] = queue[i]
       /\ \A i \in DOMAIN queue' : i = n + 1 \/ \E j \in DOMAIN queue : i = Shift(n, j)
       /\ \A i, j \in DOMAIN queue : i < j => Shift(n, i) < Shift(n, j)
       /\ \A i \in DOMAIN queue :
             IF i <= n THEN Shift(n, i) < n + 1 ELSE n + 1 < Shift(n, i)
  <2> HIDE DEF m, n
  <2> QED BY <1>1, <1>2, <1>3, InsertShifts
<1>12. OrderInv /\ Calm /\ SendInv'
  OBVIOUS
<1>13. \A x : Has(pushed, x)' <=> x = m \/ Has(pushed, x)
  <2> HIDE DEF m
  <2> QED BY ONLY <1>8 DEF Has
<1>14. spc[Pass] # "idle" => stage # "pop"
  BY DEF OrderInv, SendInv
<1>15. \A i \in DOMAIN queue : Priority[queue[i]] \in Nat /\ queue[i] \in Msgs
  BY <1>1, Members
<1>16. Priority[m] \in Nat
  BY <1>1
<1>17. \A x : Has(p, x) <=> Has(pushed, x)
  BY DEF OrderInv
<1>18. \A i, j \in DOMAIN p : p[i] = p[j] => i = j
  BY DEF OrderInv
<1>19. \A i \in DOMAIN p : p[i] # m
  BY <1>1, <1>17 DEF Has
<1> HIDE DEF m, n, k, p, r
<1>20. \A x : Has(r, x) <=> x = m \/ Has(p, x)
  BY ONLY <1>9 DEF Has
<1>21. \A i, j \in DOMAIN r : r[i] = r[j] => i = j
  BY ONLY <1>9, <1>18, <1>19
<1>22. \A x, y : Before(p, x, y) => Before(r, x, y)
  BY ONLY <1>9 DEF Before
<1>23. ASSUME NEW x \in Msgs, NEW y \in Msgs, Priority[x] = Priority[y], Before(pushed', x, y)
       PROVE  Before(r, x, y)
  <2>1. PICK i, j \in DOMAIN pushed' : i < j /\ pushed'[i] = x /\ pushed'[j] = y
    BY <1>23 DEF Before
  <2>2. i \in DOMAIN pushed
    BY <1>8, <2>1
  <2>3. CASE j \in DOMAIN pushed
    <3>1. Before(pushed, x, y)
      BY <1>8, <2>1, <2>2, <2>3 DEF Before
    <3> QED BY <1>12, <1>22, <1>23, <3>1 DEF OrderInv, p
  <2>4. CASE j \notin DOMAIN pushed
    <3>1. y = m /\ Has(pushed, x)
      BY <1>8, <2>1, <2>2, <2>4 DEF Has
    <3>2. PICK l \in DOMAIN p : p[l] = x
      BY <1>17, <3>1 DEF Has
    <3>3. l <= k
      <4>1. CASE l <= Len(written)
        BY <1>2, <1>6, <4>1 DEF k
      <4>2. CASE ~(l <= Len(written))
        <5>1. l - Len(written) \in DOMAIN queue /\ queue[l - Len(written)] = x
          BY <1>4, <1>6, <3>2, <4>2
        <5>2. l - Len(written) <= n
          BY <1>7, <1>15, <1>23, <3>1, <5>1
        <5> QED BY <1>2, <1>6, <5>2 DEF k
      <4> QED BY <4>1, <4>2
    <3>4. Shift(k, l) < k + 1 /\ Shift(k, l) \in DOMAIN r /\ r[Shift(k, l)] = x
      BY <1>9, <3>2, <3>3
    <3> QED BY <1>9, <3>1, <3>4 DEF Before
  <2> QED BY <2>3, <2>4
<1>24. Sorted(queue')
  <2> SUFFICES ASSUME NEW i \in DOMAIN queue', NEW j \in DOMAIN queue', i < j
               PROVE  Priority[queue'[i]] >= Priority[queue'[j]]
    BY DEF Sorted
  <2>0. n \in Nat /\ DOMAIN queue \subseteq Nat
    BY <1>2, <1>6
  <2>1. CASE i = n + 1 /\ j = n + 1
    BY <2>0, <2>1
  <2>2. ASSUME i = n + 1, NEW l \in DOMAIN queue, j = Shift(n, l)
        PROVE  Priority[queue'[i]] >= Priority[queue'[j]]
    <3>1. ~(l <= n)
      BY <1>11, <2>0, <2>2 DEF Shift
    <3> QED BY <1>7, <1>11, <1>15, <1>16, <2>2, <3>1
  <2>3. ASSUME j = n + 1, NEW l \in DOMAIN queue, i = Shift(n, l)
        PROVE  Priority[queue'[i]] >= Priority[queue'[j]]
    <3>1. l <= n
      BY <1>11, <2>0, <2>3 DEF Shift
    <3> QED BY <1>7, <1>11, <2>3, <3>1
  <2>4. ASSUME NEW h \in DOMAIN queue, NEW l \in DOMAIN queue, i = Shift(n, h), j = Shift(n, l)
        PROVE  Priority[queue'[i]] >= Priority[queue'[j]]
    <3>1. h < l
      BY <2>0, <2>4 DEF Shift
    <3> QED BY <1>11, <1>12, <2>4, <3>1 DEF OrderInv, Sorted
  <2> QED BY <1>11, <2>1, <2>2, <2>3, <2>4
<1>25. stage' = "pop" => front' = Head(queue')
  <2> SUFFICES ASSUME stage = "pop" PROVE front = Head(queue')
    BY <1>3
  <2>1. a # Pass /\ front = Head(queue) /\ queue # <<>>
    BY <1>1, <1>12, <1>14 DEF OrderInv, SendInv, Typed
  <2>2. 1 \in DOMAIN queue /\ Head(queue) = queue[1]
    BY <1>1, <2>1
  <2>3. Priority[m] <= Priority[queue[1]]
    BY <1>1, <1>12, <1>15, <2>1, <2>2 DEF Calm
  <2>4. 1 <= n
    BY <1>7, <1>15, <1>16, <2>2, <2>3
  <2>5. Shift(n, 1) = 1
    BY <2>4 DEF Shift
  <2>6. queue'[1] = queue[1] /\ 1 \in DOMAIN queue'
    BY <1>11, <2>2, <2>5
  <2>7. queue' \in Seq(Msgs)
    BY <1>12 DEF SendInv, Typed, TypeOK
  <2>8. Head(queue') = queue'[1]
    BY <2>6, <2>7
  <2> QED BY <2>1, <2>2, <2>6, <2>8
<1>26. Len(Pipeline') = Len(pushed')
  <2>1. Len(p) = Len(pushed)
    BY <1>12 DEF OrderInv, p
  <2> QED BY <1>5, <1>8, <1>10, <2>1
<1> QED
  BY <1>5, <1>12, <1>13, <1>17, <1>20, <1>21, <1>23, <1>24, <1>25, <1>26 DEF OrderInv, Has

LEMMA OrderStartWrite ==
  ASSUME OrderInv, SendInv', StartWrite
  PROVE  OrderInv'
<1>1. /\ queue \in Seq(Msgs) /\ queue # <<>> /\ written \in Seq(Msgs)
      /\ front \in Msgs /\ front = Head(queue)
  BY DEF OrderInv, SendInv, StartWrite, Typed, TypeOK
<1>2. /\ queue' = Tail(queue) /\ written' = Append(written, front) /\ stage' = "write"
      /\ UNCHANGED pushed
  BY DEF StartWrite
<1>3. Tail(queue) \in Seq(Msgs) /\ <<front>> \in Seq(Msgs)
  BY <1>1, HeadTailProperties
<1>4. queue = <<front>> \o Tail(queue)
  BY <1>1, <1>3
<1>5. Append(written, front) = written \o <<front>>
  BY <1>1, AppendIsConcat
<1>6. (written \o <<front>>) \o Tail(queue) = written \o (<<front>> \o Tail(queue))
  BY <1>1, <1>3, ConcatAssociative
<1>7. Pipeline' = Pipeline
  BY <1>2, <1>4, <1>5, <1>6 DEF Pipeline
<1>8. Sorted(queue')
  <2>1. /\ Len(queue) \in Nat /\ DOMAIN queue = 1..Len(queue)
        /\ DOMAIN queue' = 1..Len(queue')
        /\ Len(queue') = Len(queue) - 1
        /\ \A i \in 1..Len(queue') : queue'[i] = queue[i + 1]
    BY <1>1, <1>2, <1>3, HeadTailProperties, LenProperties
  <2>2. \A i \in DOMAIN queue' : i + 1 \in DOMAIN queue
    BY <2>1
  <2>3. \A i, j \in DOMAIN queue' : i < j => i + 1 < j + 1
    BY <2>1
  <2> QED BY <2>1, <2>2, <2>3 DEF OrderInv, Sorted
<1> QED
  BY <1>2, <1>7, <1>8 DEF OrderInv, Has

LEMMA OrderQuiet ==
  ASSUME OrderInv, SendInv', UNCHANGED <<pushed, written, queue>>,
         stage' = "pop" => front' = Head(queue')
  PROVE  OrderInv'
<1>1. Pipeline' = Pipeline
  BY DEF Pipeline
<1> QED
  BY <1>1 DEF OrderInv, Has

LEMMA OrderNext == ASSUME Calm PROVE OrderInv /\ [Next]_vars => OrderInv'
<1> SUFFICES ASSUME OrderInv, [Next]_vars PROVE OrderInv'
  OBVIOUS
<1>1. SendInv'
  BY SendNext DEF OrderInv
<1>2. stage = "pop" => front = Head(queue)
  BY DEF OrderInv
<1> USE DEF vars, writeVars, doneVars, toldVars
<1>3. ASSUME NEW a \in Actors, SendStep(a) \/ \E m \in Msgs : Send(a, m) PROVE OrderInv'
  <2>1. CASE Push(a)
    BY <1>1, <2>1, OrderPush
  <2>2. CASE ~Push(a)
    <3>1. UNCHANGED <<pushed, written, queue, stage, front>>
      BY <1>3, <2>2 DEF SendStep, Send, ReadMid, RegisterHandler
    <3> QED BY <1>1, <1>2, <3>1, OrderQuiet
  <2> QED BY <2>1, <2>2
<1>4. CASE StartWrite
  BY <1>1, <1>4, OrderStartWrite
<1>5. CASE BeginPass \/ ProcessSent \/ ProcessArrived \/ FrontCopy \/ EndWrite \/ ProcessErrors
  BY <1>1, <1>5, OrderQuiet
     DEF BeginPass, ProcessSent, ProcessArrived, HandlerEnds, FrontCopy, EndWrite, ProcessErrors
<1>6. CASE WriteHandler
  BY <1>1, <1>2, <1>6, OrderQuiet
     DEF WriteHandler, WriteSucceeded, WriteFailed, RegSentMessage, EraseBuffer
<1>7. CASE LoseLink \/ ReadFailed \/ UNCHANGED vars
  BY <1>1, <1>2, <1>7, OrderQuiet DEF LoseLink, ReadFailed
<1> QED
  BY <1>3, <1>4, <1>5, <1>6, <1>7 DEF Next, PassStep

LEMMA OrderAlways == ASSUME Calm PROVE Spec => []OrderInv
<1>1. OrderInv /\ [Next]_vars => OrderInv'
  BY OrderNext
<1> QED
  BY <1>1, OrderInit, PTL DEF Spec

(* "Thread safe", as far as it goes: as long as callers outside the pass   *)
(* send nothing more urgent than anything else, any number of threads and  *)
(* the session's handlers may send at the same time, and nothing is lost   *)
(* or written twice.                                                       *)
THEOREM ExactlyOnceHolds == ASSUME Calm PROVE Spec => []ExactlyOnce
<1>1. OrderInv => ExactlyOnce
  BY DEF OrderInv, ExactlyOnce, Has
<1>2. Spec => []OrderInv
  BY OrderAlways
<1> QED
  BY <1>1, <1>2, PTL

(* Under the same condition messages of one priority are written in the    *)
(* order in which they were pushed, whatever others come in between.       *)
THEOREM PriorityFifoHolds == ASSUME Calm PROVE Spec => []PriorityFifo
<1>1. OrderInv => PriorityFifo
  <2> SUFFICES ASSUME OrderInv, NEW m \in Msgs, NEW n \in Msgs,
                      Before(Pipeline, m, n), Before(Pipeline, n, m)
               PROVE  FALSE
    BY DEF OrderInv, PriorityFifo
  <2>1. PICK i, j \in DOMAIN Pipeline : i < j /\ Pipeline[i] = m /\ Pipeline[j] = n
    BY DEF Before
  <2>2. PICK k, l \in DOMAIN Pipeline : k < l /\ Pipeline[k] = n /\ Pipeline[l] = m
    BY DEF Before
  <2>3. i = l /\ j = k
    BY <2>1, <2>2 DEF OrderInv
  <2>4. DOMAIN Pipeline \subseteq Nat
    <3>1. written \in Seq(Msgs) /\ queue \in Seq(Msgs)
      BY DEF OrderInv, SendInv, Typed, TypeOK
    <3>2. Pipeline \in Seq(Msgs)
      BY <3>1, ConcatProperties DEF Pipeline
    <3>3. DOMAIN Pipeline = 1..Len(Pipeline)
      BY <3>2, LenProperties
    <3> QED BY <3>3
  <2> QED BY <2>1, <2>2, <2>3, <2>4
<1>2. Spec => []OrderInv
  BY OrderAlways
<1> QED
  BY <1>1, <1>2, PTL
============================================================================
