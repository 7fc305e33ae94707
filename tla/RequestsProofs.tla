--------------------------- MODULE RequestsProofs ---------------------------
(***************************************************************************)
(* Proofs about requests, for any number of them and of threads, and for   *)
(* messages of any length.                                                 *)
(***************************************************************************)
EXTENDS Requests, TLAPS

USE IncomingAssumption, RequestsAssumption

(* Multiples of Pieces.                                                    *)
LEMMA NextMultiple ==
  ASSUME NEW n \in Nat
  PROVE  Pieces * (n + 1) = Pieces * n + Pieces /\ Pieces * n \in Nat
  OBVIOUS

LEMMA Below ==
  ASSUME NEW n \in Nat, NEW k \in Nat, Pieces * (n + 1) <= Pieces * k
  PROVE  n + 1 <= k
<1> SUFFICES ASSUME k <= n PROVE FALSE
  OBVIOUS
<1>1. Pieces * k <= Pieces * n
  <2>1. PICK d \in Nat : n = k + d
    <3>1. n - k \in Nat /\ n = k + (n - k)
      OBVIOUS
    <3> QED BY <3>1
  <2>2. Pieces * n = Pieces * k + Pieces * d
    BY <2>1
  <2>3. Pieces * d \in Nat /\ Pieces * k \in Nat /\ Pieces * n \in Nat
    BY <2>1
  <2> QED BY <2>2, <2>3
<1> QED
  BY <1>1, NextMultiple

LEMMA Replies ==
  ASSUME NEW m \in PeerMessage, m.kind \in {"reply", "wrong"}
  PROVE  m.rid \in Requests
  BY DEF PeerMessage

(* A whole message in the buffer is one the peer wrote.                    *)
LEMMA WholeMessage ==
  ASSUME TypeOK, Complete
  PROVE  decoded + 1 \in 1..Len(wire) /\ wire[decoded + 1] \in PeerMessage
<1>1. Len(wire) \in Nat /\ decoded \in Nat /\ wire \in Seq(PeerMessage)
  BY DEF TypeOK, IncomingType
<1>2. Pieces * (decoded + 1) <= Pieces * Len(wire)
  <2>1. received \in Nat /\ received <= Pieces * Len(wire)
    BY DEF TypeOK, IncomingType
  <2>2. Pieces * (decoded + 1) <= received
    BY <1>1, NextMultiple DEF Complete
  <2> QED BY <1>1, <2>1, <2>2, NextMultiple
<1>3. decoded + 1 <= Len(wire)
  BY <1>1, <1>2, Below
<1> QED
  BY <1>1, <1>3

----------------------------------------------------------------------------
(* Types.                                                                  *)

LEMMA InitType == Init => TypeOK
<1> SUFFICES ASSUME Init PROVE TypeOK
  OBVIOUS
<1>1. Pieces * decoded = 0 /\ Pieces * Len(wire) = 0
  BY DEF Init, IncomingInit
<1>2. IncomingType(PeerMessage)
  <2>1. <<>> \in Seq(PeerMessage)
    OBVIOUS
  <2>2. IncomingInit
    BY DEF Init
  <2> QED BY ONLY <2>1, <2>2 DEF IncomingInit, IncomingType
<1>3. replied \in [Requests -> Nat] /\ timedOut \in [Requests -> Nat]
  BY DEF Init
<1> QED
  BY <1>1, <1>2, <1>3 DEF Init, IncomingInit, TypeOK

LEMMA PeerType ==
  ASSUME TypeOK, NEW m \in PeerMessage, PeerWrites(m)
  PROVE  TypeOK'
<1>1. wire \in Seq(PeerMessage) /\ wire' = Append(wire, m)
  BY DEF TypeOK, IncomingType, PeerWrites, PeerSends
<1>2. wire' \in Seq(PeerMessage) /\ Len(wire') = Len(wire) + 1 /\ Len(wire) \in Nat
  BY <1>1
<1>3. Pieces * Len(wire') = Pieces * Len(wire) + Pieces /\ Pieces * Len(wire) \in Nat
  BY <1>2, NextMultiple
<1>4. received \in Nat /\ received <= Pieces * Len(wire')
  BY <1>3 DEF TypeOK, IncomingType
<1> QED
  BY <1>2, <1>4 DEF TypeOK, IncomingType, PeerWrites, PeerSends, sentVars, timeVars,
                    outcomeVars, passVars

LEMMA HandlerType ==
  ASSUME TypeOK, ReadHandler \/ EndReadHandler \/ ReadFailed \/ Lose
  PROVE  TypeOK'
<1> USE DEF TypeOK, IncomingType, sentVars, timeVars, outcomeVars, passVars
<1>1. CASE ReadHandler
  <2>1. Pieces * Len(wire) \in Nat /\ Pieces * decoded \in Nat
    BY NextMultiple
  <2>2. received' \in Nat /\ received < received' /\ received' <= Pieces * Len(wire)
    BY <1>1, <2>1 DEF ReadHandler, AppendData
  <2> QED BY <1>1, <2>1, <2>2 DEF ReadHandler, AppendData
<1>2. CASE EndReadHandler
  BY <1>2 DEF EndReadHandler, SetUpdated
<1>3. CASE ReadFailed
  BY <1>3 DEF ReadFailed, StopReading
<1>4. CASE Lose
  BY <1>4 DEF Lose, LoseLink
<1> QED
  BY <1>1, <1>2, <1>3, <1>4

LEMMA RequestType ==
  ASSUME TypeOK, NEW r \in Requests,
         \/ WriteHandler(r) \/ Elapse(r) \/ ProcessSent(r) \/ StartWrite(r) \/ Visit(r)
  PROVE  TypeOK'
<1> USE DEF TypeOK, IncomingType, incomingVars, sentVars, timeVars, outcomeVars,
            passVars, HandlerEnds
<1>1. CASE WriteHandler(r)
  BY <1>1 DEF WriteHandler, WriteCompleted, WriteFailed
<1>2. CASE Elapse(r)
  BY <1>2 DEF Elapse
<1>3. CASE ProcessSent(r)
  BY <1>3 DEF ProcessSent
<1>4. CASE StartWrite(r)
  BY <1>4 DEF StartWrite
<1>5. CASE VisitElapsed(r)
  <2>1. timedOut' \in [Requests -> Nat] /\ UNCHANGED replied
    BY <1>5 DEF VisitElapsed, TimeOut
  <2>2. timeouts' = timeouts \ {r} /\ elapsed' = elapsed \ {r} /\ at' \in Nat
    BY <1>5 DEF VisitElapsed, TimeOut, Unregister
  <2>3. stage' \in {"timeouts", "idle", "gone"} /\ UNCHANGED <<incomingVars, sentVars, failed, pool>>
    BY <1>5 DEF VisitElapsed, TimeOut
  <2> QED BY <2>1, <2>2, <2>3
<1>6. CASE VisitOther(r)
  BY <1>6 DEF VisitOther
<1> QED
  BY <1>1, <1>2, <1>3, <1>4, <1>5, <1>6 DEF Visit

LEMMA ArrivedType ==
  ASSUME TypeOK, ProcessArrived
  PROVE  TypeOK'
<1> DEFINE m == wire[decoded + 1]
<1>1. Complete /\ m \in PeerMessage
  BY WholeMessage DEF ProcessArrived, TakeMessage
<1>2. m.kind \in {"reply", "wrong"} => m.rid \in Requests
  BY <1>1, Replies
<1>3. IncomingType(PeerMessage)'
  BY DEF ProcessArrived, TakeMessage, TypeOK, IncomingType
<1>4. (Pieces * decoded)' <= received' /\ received' <= (Pieces * Len(wire))'
  BY <1>1, NextMultiple DEF ProcessArrived, TakeMessage, TypeOK, IncomingType, Complete
<1>5. /\ timeouts' \subseteq Requests /\ elapsed' \subseteq timeouts'
      /\ replied' \in [Requests -> Nat] /\ timedOut' \in [Requests -> Nat]
      /\ stage' \in {"arrived", "idle", "gone"}
  <2> HIDE DEF m
  <2>1. ProcessRequest(m) \/ Reject(m) \/ ProcessReply(m) \/ ThrowOut(m)
    BY DEF ProcessArrived, m
  <2>2. CASE ProcessRequest(m)
    BY <2>2 DEF ProcessRequest, HandlerEnds, outcomeVars, TypeOK
  <2>3. CASE Reject(m)
    BY <2>3 DEF Reject, outcomeVars, TypeOK
  <2>4. CASE ProcessReply(m)
    <3>1. PICK r \in Requests : r = m.rid
      BY <2>4, <1>2 DEF ProcessReply
    <3>2. replied' = [replied EXCEPT ![r] = @ + 1] /\ UNCHANGED timedOut
      BY <2>4, <3>1 DEF ProcessReply
    <3>3. timeouts' = timeouts \ {r} /\ elapsed' = elapsed \ {r}
      BY <2>4, <3>1 DEF ProcessReply, Unregister
    <3>4. stage' \in {"arrived", "idle", "gone"}
      BY <2>4 DEF ProcessReply, HandlerEnds
    <3> QED BY ONLY TypeOK, <3>1, <3>2, <3>3, <3>4 DEF TypeOK
  <2>5. CASE ThrowOut(m)
    BY <2>5 DEF ThrowOut, outcomeVars, TypeOK
  <2> QED BY <2>1, <2>2, <2>3, <2>4, <2>5
<1> QED
  BY <1>3, <1>4, <1>5 DEF ProcessArrived, TypeOK, sentVars

LEMMA QuietType ==
  ASSUME TypeOK,
         \/ BeginPass \/ EndSent \/ NothingWhole \/ Clear \/ EndArrived
         \/ EndWrite \/ EndTimeouts \/ ProcessErrors \/ UNCHANGED vars
  PROVE  TypeOK'
<1> USE DEF TypeOK, IncomingType, incomingVars, sentVars, timeVars, outcomeVars, passVars
<1>1. CASE BeginPass \/ EndSent \/ NothingWhole \/ EndArrived
  BY <1>1 DEF BeginPass, EndSent, NothingWhole, EndArrived
<1>2. CASE Clear
  BY <1>2 DEF Clear, ClearUpdated
<1>3. CASE EndWrite
  BY <1>3 DEF EndWrite
<1>4. CASE EndTimeouts
  <2>1. UNCHANGED <<incomingVars, sentVars, timeVars, outcomeVars, failed, pool>>
        /\ stage' = "errors"
    BY <1>4 DEF EndTimeouts
  <2> QED BY ONLY TypeOK, <2>1 DEF TypeOK, IncomingType, incomingVars, sentVars, timeVars,
          outcomeVars
<1>5. CASE ProcessErrors
  BY <1>5 DEF ProcessErrors
<1>6. CASE UNCHANGED vars
  BY <1>6 DEF vars
<1> QED
  BY <1>1, <1>2, <1>3, <1>4, <1>5, <1>6

LEMMA NextType == TypeOK /\ [Next]_vars => TypeOK'
<1> SUFFICES ASSUME TypeOK, [Next]_vars PROVE TypeOK'
  OBVIOUS
<1>1. CASE \E m \in PeerMessage : PeerWrites(m)
  BY <1>1, PeerType
<1>2. CASE ReadHandler \/ EndReadHandler \/ ReadFailed \/ Lose
  BY <1>2, HandlerType
<1>3. CASE \E r \in Requests : WriteHandler(r) \/ Elapse(r)
  BY <1>3, RequestType
<1>4. CASE PassStep
  BY <1>4, RequestType, ArrivedType, QuietType DEF PassStep
<1>5. CASE UNCHANGED vars
  BY <1>5, QuietType
<1> QED
  BY <1>1, <1>2, <1>3, <1>4, <1>5 DEF Next

(* The state keeps its type, and no message is handed over before all of   *)
(* it has been received.                                                   *)
THEOREM TypeCorrect == Spec => []TypeOK
  BY InitType, NextType, PTL DEF Spec

----------------------------------------------------------------------------
(* Outcomes.  A request is settled once or waits in exactly one place.     *)
Pending == unsent \cup writing \cup sentMessages \cup timeouts

PlaceInv ==
    /\ TypeOK
    /\ unsent \cap (writing \cup sentMessages \cup timeouts) = {}
    /\ writing \cap (sentMessages \cup timeouts) = {}
    /\ sentMessages \cap timeouts = {}
    /\ unwritten \cap Pending = {}
    /\ \A r \in Pending \cup unwritten : replied[r] = 0 /\ timedOut[r] = 0
    /\ \A r \in Requests \ (Pending \cup unwritten) : replied[r] + timedOut[r] = 1

LEMMA PlaceInit == Init => PlaceInv
  BY InitType DEF Init, PlaceInv, Pending

LEMMA PlaceRequest ==
  ASSUME PlaceInv, TypeOK', NEW r \in Requests,
         \/ WriteHandler(r) \/ Elapse(r) \/ ProcessSent(r) \/ StartWrite(r) \/ Visit(r)
  PROVE  PlaceInv'
<1> USE DEF PlaceInv, Pending, incomingVars, sentVars, timeVars, outcomeVars, passVars
<1>1. CASE WriteHandler(r)
  BY <1>1 DEF WriteHandler, WriteCompleted, WriteFailed
<1>2. CASE Elapse(r)
  BY <1>2 DEF Elapse
<1>3. CASE ProcessSent(r)
  BY <1>3 DEF ProcessSent
<1>4. CASE StartWrite(r)
  BY <1>4 DEF StartWrite
<1>5. CASE VisitElapsed(r)
  BY <1>5, SMTT(20) DEF VisitElapsed, NextEntry, TimeOut, Unregister, TypeOK
<1>6. CASE VisitOther(r)
  BY <1>6 DEF VisitOther
<1> QED
  BY <1>1, <1>2, <1>3, <1>4, <1>5, <1>6 DEF Visit

LEMMA PlaceArrived ==
  ASSUME PlaceInv, TypeOK', ProcessArrived
  PROVE  PlaceInv'
<1> DEFINE m == wire[decoded + 1]
<1>1. Complete /\ m \in PeerMessage
  BY WholeMessage DEF ProcessArrived, TakeMessage, PlaceInv
<1>2. m.kind \in {"reply", "wrong"} => m.rid \in Requests
  BY <1>1, Replies
<1>3. /\ UNCHANGED sentVars
      /\ ProcessRequest(m) \/ Reject(m) \/ ProcessReply(m) \/ ThrowOut(m)
  BY DEF ProcessArrived
<1> HIDE DEF m
<1>4. CASE timeouts' = timeouts /\ replied' = replied /\ timedOut' = timedOut
  BY <1>3, <1>4 DEF PlaceInv, Pending, sentVars
<1>5. CASE ProcessReply(m)
  <2>1. PICK r \in timeouts : r = m.rid
    BY <1>5 DEF ProcessReply
  <2>2. /\ replied' = [replied EXCEPT ![r] = @ + 1] /\ timedOut' = timedOut
        /\ timeouts' = timeouts \ {r}
    BY <1>5, <2>1 DEF ProcessReply, Unregister
  <2> QED
    BY ONLY PlaceInv, TypeOK', <1>3, <2>1, <2>2 DEF PlaceInv, Pending, sentVars, TypeOK
<1> QED
  BY <1>3, <1>4, <1>5 DEF ProcessRequest, Reject, ThrowOut, outcomeVars

LEMMA PlaceQuiet ==
  ASSUME PlaceInv, TypeOK',
         UNCHANGED <<sentVars, timeouts, replied, timedOut>>
  PROVE  PlaceInv'
  BY DEF PlaceInv, Pending, sentVars

LEMMA PlaceNext == PlaceInv /\ [Next]_vars => PlaceInv'
<1> SUFFICES ASSUME PlaceInv, [Next]_vars PROVE PlaceInv'
  OBVIOUS
<1> TypeOK'
  BY NextType DEF PlaceInv
<1> USE DEF sentVars, timeVars, outcomeVars, passVars
<1>1. CASE (\E m \in PeerMessage : PeerWrites(m)) \/ ReadHandler \/ EndReadHandler
           \/ ReadFailed \/ Lose
  BY <1>1, PlaceQuiet DEF PeerWrites, ReadHandler, EndReadHandler, ReadFailed, Lose
<1>2. CASE \E r \in Requests : \/ WriteHandler(r) \/ Elapse(r) \/ ProcessSent(r)
                               \/ StartWrite(r) \/ Visit(r)
  BY <1>2, PlaceRequest
<1>3. CASE ProcessArrived
  BY <1>3, PlaceArrived
<1>4. CASE \/ BeginPass \/ EndSent \/ NothingWhole \/ Clear \/ EndArrived
           \/ EndWrite \/ EndTimeouts \/ ProcessErrors
  BY <1>4, PlaceQuiet DEF BeginPass, EndSent, NothingWhole, Clear, EndArrived, EndWrite,
     EndTimeouts, ProcessErrors
<1>5. CASE UNCHANGED vars
  BY <1>5, PlaceQuiet DEF vars
<1> QED
  BY <1>1, <1>2, <1>3, <1>4, <1>5 DEF Next, PassStep

LEMMA PlaceAlways == Spec => []PlaceInv
  BY PlaceInit, PlaceNext, PTL DEF Spec

(* The session gets the reply or the timeout of each request, never both   *)
(* and neither twice, though its handlers throw and replies come late,     *)
(* early or repeatedly.                                                    *)
THEOREM OneOutcomeHolds == Spec => []OneOutcome
<1>1. PlaceInv => OneOutcome
  BY DEF PlaceInv, OneOutcome, Pending
<1> QED
  BY <1>1, PlaceAlways, PTL

(* No request is forgotten before it is settled: not by a handler that     *)
(* throws while the list of sent messages is walked, nor by a disallowed   *)
(* reply.                                                                  *)
THEOREM TrackedHolds == Spec => []Tracked
<1>1. PlaceInv => Tracked
  <2> SUFFICES ASSUME PlaceInv, NEW r \in Requests, r \notin Pending \cup unwritten
               PROVE  Settled(r)
    BY DEF Tracked, Pending
  <2>1. replied[r] + timedOut[r] = 1
    BY DEF PlaceInv
  <2> QED BY <2>1 DEF Settled
<1> QED
  BY <1>1, PlaceAlways, PTL
=============================================================================
