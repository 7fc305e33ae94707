---------------------------- MODULE SessionProofs ----------------------------
(***************************************************************************)
(* Proofs about the handlers of an extended session, for any number of     *)
(* threads, handlers and messages.                                         *)
(***************************************************************************)
EXTENDS ExtendedSession, SequenceTheorems, TLAPS

(* Inside process_received().                                              *)
MessageStage == {"get_any", "exact", "any", "reply"}

(* A message is in hand where one is processed.                            *)
Typed == TypeOK /\ (at \in MessageStage => handled > 0)

LEMMA TailType ==
  ASSUME NEW S, NEW s \in Seq(S), s # <<>>
  PROVE  Head(s) \in S /\ Tail(s) \in Seq(S)
  OBVIOUS

LEMMA OpKinds ==
  ASSUME NEW o \in Op
  PROVE  /\ "slot" \in DOMAIN o => o.slot \in Slots /\ o.handler \in Handlers \cup {NoHandler}
         /\ "mid" \in DOMAIN o => o \in [mid : Mids, handler : Handlers]
  BY DEF Op

LEMMA PlanType ==
  ASSUME Typed
  PROVE  /\ plan.arrives \in Seq(Names) /\ plan.table \in Table
         /\ plan.script \in [Users \cup {Pass} -> Seq(Op)]
         /\ plan.replies \in [Mids -> Nat] /\ plan.timeouts \in Nat
  BY SessionAssumption DEF Typed, TypeOK, Plan

(* The name of the message in hand.                                        *)
LEMMA NameType ==
  ASSUME Typed, at \in MessageStage
  PROVE  Name \in Slots /\ table[Name] \in Handlers \cup {NoHandler}
<1>1. plan.arrives \in Seq(Names) /\ handled \in 1..Len(plan.arrives)
  BY PlanType DEF Typed, TypeOK
<1>2. Name \in Names
  BY <1>1 DEF Name
<1> QED
  BY <1>2 DEF Typed, TypeOK, Table, Slots

(* Setting a handler keeps the types of what it changes.                   *)
LEMMA SetHandlerType ==
  ASSUME Typed, NEW t \in Users \cup {Pass}, SetHandler(t)
  PROVE  table' \in Table /\ todo' \in [Users \cup {Pass} -> Seq(Op)]
<1>1. todo[t] \in Seq(Op) /\ todo[t] # <<>>
  BY DEF Typed, TypeOK, SetHandler
<1>2. Head(todo[t]) \in Op /\ Tail(todo[t]) \in Seq(Op)
  BY <1>1, TailType
<1>3. Head(todo[t]).slot \in Slots /\ Head(todo[t]).handler \in Handlers \cup {NoHandler}
  BY <1>2, OpKinds DEF SetHandler
<1> QED
  BY <1>2, <1>3 DEF Typed, TypeOK, Table, SetHandler

LEMMA CallHandlerType ==
  ASSUME Typed, NEW h, CallHandler(h)
  PROVE  table' \in Table /\ todo' \in [Users \cup {Pass} -> Seq(Op)]
<1>1. CASE UNCHANGED tableVars
  BY <1>1 DEF Typed, TypeOK, tableVars
<1>2. CASE SetHandler(Pass)
  BY <1>2, SetHandlerType
<1> QED
  BY <1>1, <1>2 DEF CallHandler

LEMMA InitTyped == Init => Typed
<1> SUFFICES ASSUME Init PROVE Typed
  OBVIOUS
<1>1. /\ plan.table \in Table /\ plan.script \in [Users \cup {Pass} -> Seq(Op)]
      /\ plan.arrives \in Seq(Names) /\ plan.timeouts \in Nat
  BY SessionAssumption DEF Init, Plan
<1> QED
  BY <1>1 DEF Init, Typed, TypeOK, MessageStage

LEMMA EnvironmentTyped ==
  ASSUME Typed, UserStep \/ UserRegisters \/ Written \/ Arrives \/ TimePasses
  PROVE  Typed'
<1> USE DEF outVars, inVars, passVars, arrivalVars, tableVars
<1>1. ASSUME NEW u \in Users, UserSets(u) PROVE Typed'
  <2>1. table' \in Table /\ todo' \in [Users \cup {Pass} -> Seq(Op)]
    BY <1>1, SetHandlerType DEF UserSets
  <2>2. kept' \subseteq Handlers
    BY <1>1 DEF UserSets, Typed, TypeOK
  <2> QED
    BY <1>1, <2>1, <2>2 DEF UserSets, Typed, TypeOK
<1>2. ASSUME NEW u \in Users, UserSends(u) PROVE Typed'
  <2>1. todo[u] \in Seq(Op) /\ todo[u] # <<>>
    BY <1>2 DEF Typed, TypeOK, UserSends
  <2>2. Head(todo[u]) \in Op /\ Tail(todo[u]) \in Seq(Op)
    BY <2>1, TailType
  <2>3. Head(todo[u]) \in [mid : Mids, handler : Handlers]
    BY <1>2, <2>2, OpKinds DEF UserSends
  <2>4. Head(todo[u]).mid \in Mids
    BY <2>3
  <2>5. /\ queue' \subseteq Mids
        /\ registering' \subseteq [mid : Mids, handler : Handlers]
        /\ todo' \in [Users \cup {Pass} -> Seq(Op)]
    BY <1>2, <2>2, <2>3, <2>4 DEF UserSends, Typed, TypeOK
  <2> QED
    BY <1>2, <2>5 DEF UserSends, Typed, TypeOK
<1>3. CASE UserRegisters
  BY <1>3 DEF UserRegisters, Typed, TypeOK
<1>4. CASE Written
  <2>1. PICK m \in queue : queue' = queue \ {m} /\ sentMessages' = Append(sentMessages, m)
    BY <1>4 DEF Written
  <2>2. sentMessages' \in Seq(Mids)
    BY <2>1, AppendProperties DEF Typed, TypeOK
  <2> QED
    BY <1>4, <2>1, <2>2 DEF Written, Typed, TypeOK
<1>5. CASE Arrives
  <2>1. Len(plan.arrives) \in Nat
    BY PlanType
  <2> QED
    BY <1>5, <2>1 DEF Arrives, Typed, TypeOK
<1>6. CASE TimePasses
  BY <1>6, PlanType DEF TimePasses, Typed, TypeOK
<1> QED
  BY <1>1, <1>2, <1>3, <1>4, <1>5, <1>6 DEF UserStep

(* The calls of the pass.                                                  *)
LEMMA CallsTyped ==
  ASSUME Typed,
         \/ CallMapped \/ CallSent \/ CallExact \/ CallAny
         \/ CallTimeout \/ CallAfterProcessed \/ CallError
  PROVE  Typed'
<1> USE DEF outVars, inVars, passVars, arrivalVars
<1>1. table' \in Table /\ todo' \in [Users \cup {Pass} -> Seq(Op)]
  BY CallHandlerType DEF CallMapped, CallSent, CallExact, CallAny, CallTimeout,
                         CallAfterProcessed, CallError
<1>2. \A h : Thrown(h) \subseteq {"error", "gone"}
  BY DEF Thrown
<1>3. CASE CallMapped
  BY <1>1, <1>2, <1>3 DEF CallMapped, Typed, TypeOK, MessageStage, SentStage
<1>4. CASE CallSent
  BY <1>1, <1>2, <1>4 DEF CallSent, Typed, TypeOK, MessageStage, SentStage
<1>5. CASE CallExact
  <2>1. table[Name] \in Handlers \cup {NoHandler}
    BY <1>5, NameType DEF CallExact, MessageStage
  <2> QED
    BY <1>1, <1>2, <1>5, <2>1 DEF CallExact, Typed, TypeOK, MessageStage, SentStage
<1>6. CASE CallAny
  BY <1>1, <1>2, <1>6 DEF CallAny, Typed, TypeOK, MessageStage, SentStage
<1>7. CASE CallTimeout
  BY <1>1, <1>2, <1>7 DEF CallTimeout, Typed, TypeOK, MessageStage, SentStage
<1>8. CASE CallAfterProcessed
  BY <1>1, <1>2, <1>8 DEF CallAfterProcessed, Typed, TypeOK, MessageStage, SentStage
<1>9. CASE CallError
  BY <1>1, <1>2, <1>9 DEF CallError, Typed, TypeOK, MessageStage, SentStage
<1> QED
  BY <1>3, <1>4, <1>5, <1>6, <1>7, <1>8, <1>9

(* The other steps of the pass.                                            *)
LEMMA StagesTyped ==
  ASSUME Typed,
         \/ BeginPass \/ TakeSent \/ Unregister \/ EndSent \/ TakeMessage \/ GetAny
         \/ SendReply \/ EndArrived \/ EndTimeouts
  PROVE  Typed'
<1> USE DEF outVars, inVars, passVars, arrivalVars, tableVars
<1>1. CASE BeginPass \/ EndSent \/ EndArrived \/ EndTimeouts
  BY <1>1 DEF BeginPass, EndSent, EndArrived, EndTimeouts, Typed, TypeOK, MessageStage,
              SentStage
<1>2. CASE TakeSent
  <2>1. Head(sentMessages) \in Mids /\ Tail(sentMessages) \in Seq(Mids)
    BY <1>2, TailType DEF TakeSent, Typed, TypeOK
  <2> QED
    BY <1>2, <2>1 DEF TakeSent, Typed, TypeOK, MessageStage, SentStage
<1>3. CASE Unregister
  BY <1>3 DEF Unregister, Typed, TypeOK, MessageStage, SentStage
<1>4. CASE TakeMessage
  <2>1. plan.arrives \in Seq(Names) /\ handled + 1 \in 1..Len(plan.arrives)
    BY <1>4, PlanType DEF TakeMessage, Typed, TypeOK
  <2>2. plan.arrives[handled + 1] \in Slots /\ "any" \in Slots
    BY <2>1 DEF Slots
  <2>3. kept' \subseteq Handlers
    BY <1>4, <2>2 DEF TakeMessage, Typed, TypeOK, Table
  <2> QED
    BY <1>4, <2>1, <2>3 DEF TakeMessage, Typed, TypeOK, MessageStage, SentStage
<1>5. CASE GetAny
  BY <1>5 DEF GetAny, Typed, TypeOK, MessageStage, SentStage, Table, Slots
<1>6. CASE SendReply
  BY <1>6 DEF SendReply, Typed, TypeOK, MessageStage, SentStage
<1> QED
  BY <1>1, <1>2, <1>3, <1>4, <1>5, <1>6

LEMMA NextTyped == Typed /\ [Next]_vars => Typed'
<1>1. ASSUME Typed, UNCHANGED vars PROVE Typed'
  BY <1>1 DEF vars, tableVars, outVars, inVars, passVars, arrivalVars, Typed, TypeOK
<1>2. ASSUME Typed, PassStep PROVE Typed'
  BY <1>2, CallsTyped, StagesTyped DEF PassStep
<1> QED
  BY <1>1, <1>2, EnvironmentTyped DEF Next

(* The state of the session is well typed, and the pass never processes a  *)
(* message that it has not decoded.                                        *)
THEOREM TypeCorrect == Spec => []TypeOK
<1>1. Typed => TypeOK
  BY DEF Typed
<1> QED
  BY <1>1, InitTyped, NextTyped, PTL DEF Spec

----------------------------------------------------------------------------
(* Handlers of arrived messages.                                           *)

(* A handler that was kept is, until it is called, in the table under the  *)
(* name or in the copy, or still in both places.                           *)
KeptInv ==
    /\ at = "get_any" => kept \subseteq Subscribed(table)
    /\ at = "exact" => \A h \in kept : h = table[Name] \/ h = anyHandler
    /\ at = "any" => \A h \in kept : h \in called \/ h = anyHandler
    /\ NotMissed

LEMMA KeptEnvironment ==
  ASSUME Typed, KeptInv, UserStep \/ UserRegisters \/ Written \/ Arrives \/ TimePasses
  PROVE  KeptInv'
<1> USE DEF outVars, inVars, passVars, arrivalVars, tableVars
<1>1. ASSUME NEW u \in Users, UserSets(u) PROVE KeptInv'
  <2>1. UNCHANGED <<plan, inVars, at, anyHandler, called>> /\ Name' = Name
    BY <1>1 DEF UserSets, Name
  <2>2. CASE at \in {"get_any", "exact"}
    <3>1. kept' = {h \in kept \cap Subscribed(table') : table[Name] = h => table'[Name] = h}
      BY <1>1, <2>2 DEF UserSets
    <3>2. Subscribed(table') = Subscribed(table)'
      BY <2>1 DEF Subscribed
    <3> QED
      BY <2>1, <2>2, <3>1, <3>2 DEF KeptInv, NotMissed
  <2>3. CASE at \notin {"get_any", "exact"}
    BY <1>1, <2>1, <2>3 DEF UserSets, KeptInv, NotMissed
  <2> QED
    BY <2>2, <2>3
<1>2. ASSUME NEW u \in Users, UserSends(u) PROVE KeptInv'
  BY <1>2 DEF UserSends, KeptInv, NotMissed, Subscribed, Name
<1>3. CASE UserRegisters
  BY <1>3 DEF UserRegisters, KeptInv, NotMissed, Subscribed, Name
<1>4. CASE Written
  BY <1>4 DEF Written, KeptInv, NotMissed, Subscribed, Name
<1>5. CASE Arrives
  BY <1>5 DEF Arrives, KeptInv, NotMissed, Subscribed, Name
<1>6. CASE TimePasses
  BY <1>6 DEF TimePasses, KeptInv, NotMissed, Subscribed, Name
<1> QED
  BY <1>1, <1>2, <1>3, <1>4, <1>5, <1>6 DEF UserStep

LEMMA KeptPass ==
  ASSUME Typed, KeptInv, PassStep
  PROVE  KeptInv'
<1> USE DEF outVars, inVars, passVars, arrivalVars, tableVars
<1>1. CASE TakeMessage
  <2>1. /\ at' = "get_any" /\ UNCHANGED <<plan, table>> /\ handled' = handled + 1
        /\ kept' = {table[plan.arrives[handled + 1]], table["any"]} \ {NoHandler}
    BY <1>1 DEF TakeMessage
  <2>2. Name' = plan.arrives[handled + 1]
    BY <2>1 DEF Name
  <2> QED
    BY <2>1, <2>2 DEF KeptInv, NotMissed, Subscribed
<1>2. CASE GetAny
  BY <1>2 DEF GetAny, KeptInv, NotMissed, Subscribed, Name
<1>3. CASE CallExact
  <2>1. /\ at = "exact" /\ UNCHANGED <<anyHandler, kept>>
        /\ called' = called \cup ({table[Name]} \ {NoHandler})
        /\ at' \in {"any", "error", "gone"}
    BY <1>3 DEF CallExact, Thrown
  <2>2. NoHandler \notin kept
    BY SessionAssumption DEF Typed, TypeOK
  <2> QED
    BY <2>1, <2>2 DEF KeptInv, NotMissed
<1>4. CASE CallAny
  <2>1. /\ at = "any" /\ UNCHANGED kept
        /\ called' = called \cup ({anyHandler} \ {NoHandler})
        /\ at' \in {"reply", "error", "gone"}
    BY <1>4 DEF CallAny, Thrown
  <2>2. NoHandler \notin kept
    BY SessionAssumption DEF Typed, TypeOK
  <2> QED
    BY <2>1, <2>2 DEF KeptInv, NotMissed
<1>5. CASE ~(TakeMessage \/ GetAny \/ CallExact \/ CallAny)
  <2>1. at' \notin MessageStage
    BY <1>5 DEF PassStep, BeginPass, TakeSent, CallMapped, CallSent, Unregister, EndSent,
                SendReply, EndArrived, CallTimeout, EndTimeouts, CallAfterProcessed,
                CallError, Thrown, MessageStage, Typed, TypeOK
  <2> QED
    BY <2>1 DEF KeptInv, NotMissed, MessageStage
<1> QED
  BY <1>1, <1>2, <1>3, <1>4, <1>5

(* A handler that stays subscribed, or is moved to the message's name, is  *)
(* called for every message, whatever other threads set or clear.          *)
THEOREM SubscribersHear == Spec => []NotMissed
<1>1. Init => KeptInv
  BY DEF Init, KeptInv, NotMissed
<1>2. ASSUME Typed, KeptInv, UNCHANGED vars PROVE KeptInv'
  BY <1>2 DEF vars, tableVars, outVars, inVars, passVars, arrivalVars, KeptInv, NotMissed,
              Subscribed, Name
<1>3. Typed /\ KeptInv /\ [Next]_vars => KeptInv'
  BY <1>2, KeptEnvironment, KeptPass DEF Next
<1>4. KeptInv => NotMissed
  BY DEF KeptInv
<1> QED
  BY <1>1, <1>3, <1>4, InitTyped, NextTyped, PTL DEF Spec

----------------------------------------------------------------------------
(* Handlers of sent messages.                                              *)

(* A message sent by a thread outside the pass.                            *)
Outside(m) ==
    \E u \in Users : \E i \in DOMAIN plan.script[u] :
        "mid" \in DOMAIN plan.script[u][i] /\ plan.script[u][i].mid = m

(* The pass will not send it any more.                                     *)
Replied(m) ==
    plan.replies[m] < handled \/ (plan.replies[m] = handled /\ at \notin MessageStage)

Settled(m) == Outside(m) \/ Replied(m)

Scripts ==
    /\ \A u \in Users : \A i \in DOMAIN todo[u] :
          "mid" \in DOMAIN todo[u][i] => Outside(todo[u][i].mid)
    /\ \A r \in registering : Outside(r.mid)

(* What was written and not yet taken.                                     *)
Unsaid == {m \in Mids : \E i \in DOMAIN sentMessages : sentMessages[i] = m}

SentInv ==
    /\ Scripts
    /\ \A m \in queue \cup told \cup Unsaid : Settled(m)
    /\ Unregistered

LEMMA TailSettled ==
  ASSUME NEW S, NEW s \in Seq(S), s # <<>>
  PROVE  /\ 1 \in DOMAIN s /\ Head(s) = s[1]
         /\ \A i \in DOMAIN Tail(s) : i + 1 \in DOMAIN s /\ Tail(s)[i] = s[i + 1]
  OBVIOUS

LEMMA OutsideSame == plan' = plan => \A m : Outside(m)' = Outside(m)
  BY DEF Outside

LEMMA UnregisteredAs ==
  Unregistered <=> \A m \in told : sentHandlers[m] = NoHandler \/ Outside(m)
                      \/ (m = mid /\ at \in {"mapped", "default", "unregister"})
  BY DEF Unregistered, Outside

LEMMA SentInit == Init => SentInv
<1> SUFFICES ASSUME Init PROVE SentInv
  OBVIOUS
<1>1. todo = plan.script
  BY DEF Init
<1>2. Scripts
  BY <1>1 DEF Init, Scripts, Outside
<1> QED
  BY <1>2 DEF Init, SentInv, Unregistered, Unsaid

(* A step that sends nothing and forgets nothing.                          *)
LEMMA SentFrame ==
  ASSUME Typed, SentInv,
         UNCHANGED <<plan, sentHandlers, registering, handled, mid>>,
         queue' \subseteq queue, told' = told, Unsaid' \subseteq Unsaid \cup queue,
         \A u \in Users : \A i \in DOMAIN todo'[u] :
            \E j \in DOMAIN todo[u] : todo'[u][i] = todo[u][j],
         at' \in MessageStage => at \in MessageStage,
         at \in {"mapped", "default", "unregister"} =>
            at' \in {"mapped", "default", "unregister"}
  PROVE  SentInv'
<1>1. \A m : Settled(m) => Settled(m)'
  BY DEF Settled, Replied, Outside
<1>2. Scripts'
  <2>1. \A u \in Users : \A i \in DOMAIN todo'[u] :
           "mid" \in DOMAIN todo'[u][i] => Outside(todo'[u][i].mid)
    BY DEF SentInv, Scripts
  <2> QED
    BY <2>1, OutsideSame DEF SentInv, Scripts
<1>3. \A m \in queue' \cup told' \cup Unsaid' : Settled(m)'
  BY <1>1 DEF SentInv
<1>4. Unregistered'
  BY UnregisteredAs, OutsideSame DEF SentInv, Unregistered
<1> QED
  BY <1>2, <1>3, <1>4 DEF SentInv

(* What a thread still has to do shrinks.                                  *)
LEMMA Shrinks ==
  ASSUME Typed, NEW t \in Users \cup {Pass}, todo[t] # <<>>,
         todo' = [todo EXCEPT ![t] = Tail(@)]
  PROVE  \A u \in Users : \A i \in DOMAIN todo'[u] :
            \E j \in DOMAIN todo[u] : todo'[u][i] = todo[u][j]
<1>1. todo \in [Users \cup {Pass} -> Seq(Op)]
  BY DEF Typed, TypeOK
<1>2. ASSUME NEW i \in DOMAIN Tail(todo[t])
      PROVE  \E j \in DOMAIN todo[t] : Tail(todo[t])[i] = todo[t][j]
  BY <1>1, TailSettled
<1> QED
  BY <1>1, <1>2

LEMMA CallShrinks ==
  ASSUME Typed, NEW h, CallHandler(h)
  PROVE  \A u \in Users : \A i \in DOMAIN todo'[u] :
            \E j \in DOMAIN todo[u] : todo'[u][i] = todo[u][j]
  BY Shrinks DEF CallHandler, SetHandler, tableVars

LEMMA SentEnvironment ==
  ASSUME Typed, SentInv, UserStep \/ UserRegisters \/ Written \/ Arrives \/ TimePasses
  PROVE  SentInv'
<1> USE DEF outVars, inVars, passVars, arrivalVars, tableVars
<1>1. ASSUME NEW u \in Users, UserSets(u) PROVE SentInv'
  <2>1. \A v \in Users : \A i \in DOMAIN todo'[v] :
            \E j \in DOMAIN todo[v] : todo'[v][i] = todo[v][j]
    BY <1>1, Shrinks DEF UserSets, SetHandler
  <2> QED
    BY <1>1, <2>1, SentFrame DEF UserSets, Unsaid
<1>2. ASSUME NEW u \in Users, UserSends(u) PROVE SentInv'
  <2>1. todo[u] \in Seq(Op) /\ todo[u] # <<>>
    BY <1>2 DEF UserSends, Typed, TypeOK
  <2>2. 1 \in DOMAIN todo[u] /\ Head(todo[u]) = todo[u][1]
    BY <2>1, TailSettled
  <2>3. Outside(Head(todo[u]).mid)
    BY <1>2, <2>2 DEF UserSends, SentInv, Scripts
  <2>4. \A v \in Users : \A i \in DOMAIN todo'[v] :
            \E j \in DOMAIN todo[v] : todo'[v][i] = todo[v][j]
    BY <1>2, Shrinks DEF UserSends
  <2>5. \A m : Outside(m)' = Outside(m) /\ Settled(m)' = Settled(m)
    BY <1>2, OutsideSame DEF UserSends, Settled, Replied, Outside
  <2>6. Scripts'
    BY <1>2, <2>3, <2>4, <2>5 DEF UserSends, SentInv, Scripts
  <2>7. \A m \in queue' \cup told' \cup Unsaid' : Settled(m)'
    BY <1>2, <2>3, <2>5 DEF UserSends, SentInv, Settled, Unsaid
  <2>8. Unregistered'
    BY <1>2 DEF UserSends, SentInv, Unregistered
  <2> QED
    BY <1>2, <2>5, <2>6, <2>7, <2>8 DEF UserSends, SentInv
<1>3. CASE UserRegisters
  <2>1. PICK r \in registering :
           /\ sentHandlers' = [sentHandlers EXCEPT ![r.mid] = r.handler]
           /\ registering' = registering \ {r}
    BY <1>3 DEF UserRegisters
  <2>2. Outside(r.mid)
    BY DEF SentInv, Scripts
  <2>3. \A m : Outside(m)' = Outside(m) /\ Settled(m)' = Settled(m)
    BY <1>3, OutsideSame DEF UserRegisters, Settled, Replied, Outside
  <2>4. \A m \in Mids : m # r.mid => sentHandlers'[m] = sentHandlers[m]
    BY <2>1 DEF Typed, TypeOK
  <2>5. Unregistered'
    <3>1. UNCHANGED <<plan, told, at, mid>>
      BY <1>3 DEF UserRegisters
    <3>2. \A m \in told : \/ sentHandlers'[m] = NoHandler \/ Outside(m)
                          \/ m = mid /\ at \in {"mapped", "default", "unregister"}
      BY <2>2, <2>4, UnregisteredAs DEF SentInv, Typed, TypeOK
    <3> QED
      BY <3>1, <3>2 DEF Unregistered, Outside
  <2>6. Scripts'
    BY <1>3, <2>1, <2>3 DEF UserRegisters, SentInv, Scripts
  <2> QED
    BY <1>3, <2>3, <2>5, <2>6 DEF UserRegisters, SentInv, Unsaid
<1>4. CASE Written
  <2>1. PICK m \in queue : queue' = queue \ {m} /\ sentMessages' = Append(sentMessages, m)
    BY <1>4 DEF Written
  <2>2. Unsaid' \subseteq Unsaid \cup queue
    BY <2>1 DEF Typed, TypeOK, Unsaid
  <2> QED
    BY <1>4, <2>1, <2>2, SentFrame DEF Written
<1>5. CASE Arrives
  BY <1>5, SentFrame DEF Arrives, Unsaid
<1>6. CASE TimePasses
  BY <1>6, SentFrame DEF TimePasses, Unsaid
<1> QED
  BY <1>1, <1>2, <1>3, <1>4, <1>5, <1>6 DEF UserStep

LEMMA SentPass ==
  ASSUME Typed, SentInv, PassStep
  PROVE  SentInv'
<1> USE DEF outVars, inVars, passVars, arrivalVars, tableVars
<1>1. CASE CallMapped \/ CallSent \/ CallExact \/ CallAny \/ CallTimeout
             \/ CallAfterProcessed \/ CallError
  <2>1. \A u \in Users : \A i \in DOMAIN todo'[u] :
            \E j \in DOMAIN todo[u] : todo'[u][i] = todo[u][j]
    BY <1>1, CallShrinks DEF CallMapped, CallSent, CallExact, CallAny, CallTimeout,
                             CallAfterProcessed, CallError
  <2>2. \A h : Thrown(h) \subseteq {"error", "gone"}
    BY DEF Thrown
  <2>3. /\ UNCHANGED <<plan, sentHandlers, registering, queue, sentMessages, handled, mid, told>>
        /\ at' \in MessageStage => at \in MessageStage
        /\ at \in {"mapped", "default", "unregister"} =>
              at' \in {"mapped", "default", "unregister"}
    BY <1>1, <2>2 DEF CallMapped, CallSent, CallExact, CallAny, CallTimeout,
                      CallAfterProcessed, CallError, MessageStage
  <2> QED
    BY <2>1, <2>3, SentFrame DEF Unsaid
<1>2. CASE BeginPass \/ EndSent \/ EndArrived \/ EndTimeouts \/ GetAny
  BY <1>2, SentFrame DEF BeginPass, EndSent, EndArrived, EndTimeouts, GetAny, MessageStage, Unsaid
<1>3. CASE TakeSent
  <2>1. /\ at = "sent" /\ at' = "mapped" /\ sentMessages # <<>>
        /\ mid' = Head(sentMessages) /\ sentMessages' = Tail(sentMessages)
        /\ told' = told \cup {Head(sentMessages)}
        /\ UNCHANGED <<plan, todo, sentHandlers, registering, queue, handled>>
    BY <1>3 DEF TakeSent
  <2>2. \A m : Outside(m)' = Outside(m) /\ Settled(m)' = Settled(m)
    BY <2>1, OutsideSame DEF Settled, Replied, MessageStage
  <2>3. /\ 1 \in DOMAIN sentMessages /\ Head(sentMessages) = sentMessages[1]
        /\ \A i \in DOMAIN Tail(sentMessages) :
              i + 1 \in DOMAIN sentMessages /\ Tail(sentMessages)[i] = sentMessages[i + 1]
    BY <2>1, TailSettled DEF Typed, TypeOK
  <2>4. Scripts'
    BY <2>1, <2>2 DEF SentInv, Scripts
  <2>5. told' \cup Unsaid' \subseteq told \cup Unsaid
    BY <2>1, <2>3 DEF Unsaid, Typed, TypeOK
  <2>6. \A m \in queue' \cup told' \cup Unsaid' : Settled(m)'
    BY <2>1, <2>2, <2>5 DEF SentInv
  <2>7. Unregistered'
    BY <2>1 DEF SentInv, Unregistered
  <2> QED
    BY <2>4, <2>6, <2>7 DEF SentInv
<1>4. CASE Unregister
  <2>1. /\ at = "unregister" /\ at' = then
        /\ sentHandlers' = [sentHandlers EXCEPT ![mid] = NoHandler]
        /\ UNCHANGED <<plan, todo, registering, queue, sentMessages, handled, mid, told>>
    BY <1>4 DEF Unregister
  <2>2. then \in {"sent", "error", "gone"} /\ mid \in Mids
    BY DEF Typed, TypeOK
  <2>3. \A m : Outside(m)' = Outside(m) /\ Settled(m)' = Settled(m)
    BY <2>1, <2>2, OutsideSame DEF Settled, Replied, MessageStage
  <2>4. \A m \in Mids : sentHandlers'[m] = IF m = mid THEN NoHandler ELSE sentHandlers[m]
    BY <2>1 DEF Typed, TypeOK
  <2>5. Unregistered'
    BY <2>1, <2>4 DEF SentInv, Unregistered, Typed, TypeOK
  <2> QED
    BY <2>1, <2>3, <2>5 DEF SentInv, Scripts, Unsaid
<1>5. CASE TakeMessage
  <2>1. /\ at = "arrived" /\ at' = "get_any" /\ handled' = handled + 1
        /\ UNCHANGED <<plan, todo, sentHandlers, registering, queue, sentMessages, mid, told>>
    BY <1>5 DEF TakeMessage
  <2>2. \A m \in Mids : plan.replies[m] \in Nat
    BY PlanType
  <2>3. \A m \in Mids : Settled(m) => Settled(m)'
    BY <2>1, <2>2, OutsideSame DEF Settled, Replied, MessageStage, Typed, TypeOK
  <2>4. queue \cup told \cup Unsaid \subseteq Mids
    BY DEF Typed, TypeOK, Unsaid
  <2>5. Unsaid' = Unsaid
    BY <2>1 DEF Unsaid
  <2>6. Unregistered'
    BY <2>1 DEF SentInv, Unregistered
  <2>7. Scripts'
    BY <2>1, OutsideSame DEF SentInv, Scripts
  <2> QED
    BY <2>1, <2>3, <2>4, <2>5, <2>6, <2>7 DEF SentInv
<1>6. CASE SendReply
  <2> DEFINE replies == {m \in Mids : plan.replies[m] = handled /\ called # {}}
  <2>1. /\ at = "reply" /\ at' = "arrived" /\ queue' = queue \cup replies
        /\ UNCHANGED <<plan, todo, registering, sentMessages, handled, mid, told>>
    BY <1>6 DEF SendReply
  <2>2. \A m \in Mids : m \notin replies => sentHandlers'[m] = sentHandlers[m]
    BY <1>6 DEF SendReply
  <2>3. \A m : Settled(m) => Settled(m)'
    BY <2>1, OutsideSame DEF Settled, Replied, MessageStage
  <2>4. \A m \in replies : Settled(m)'
    BY <2>1 DEF Settled, Replied, MessageStage
  <2>5. \A m \in told \cap replies : Outside(m)
    <3>1. \A m \in replies : ~Replied(m)
      BY <2>1 DEF Replied, MessageStage, Typed, TypeOK
    <3> QED
      BY <3>1 DEF SentInv, Settled
  <2>6. Unregistered'
    <3>1. \A m \in told : sentHandlers'[m] = NoHandler \/ Outside(m)
      BY <2>1, <2>2, <2>5, UnregisteredAs DEF SentInv, Typed, TypeOK
    <3>2. plan' = plan /\ told' = told
      BY <2>1
    <3> QED
      BY <3>1, <3>2 DEF Unregistered, Outside
  <2>7. Scripts'
    BY <2>1, OutsideSame DEF SentInv, Scripts
  <2> QED
    BY <2>1, <2>3, <2>4, <2>6, <2>7 DEF SentInv, Unsaid
<1> QED
  BY <1>1, <1>2, <1>3, <1>4, <1>5, <1>6 DEF PassStep

(* No sent handler outlives its message, whatever handlers throw and       *)
(* however many messages are answered.                                     *)
THEOREM HandlersForgotten == Spec => []Unregistered
<1>1. ASSUME Typed, SentInv, UNCHANGED vars PROVE SentInv'
  <2>1. \A u \in Users : \A i \in DOMAIN todo'[u] :
            \E j \in DOMAIN todo[u] : todo'[u][i] = todo[u][j]
    BY <1>1 DEF vars, tableVars
  <2> QED
    BY <1>1, <2>1, SentFrame DEF vars, tableVars, outVars, inVars, passVars, Unsaid
<1>2. Typed /\ SentInv /\ [Next]_vars => SentInv'
  BY <1>1, SentEnvironment, SentPass DEF Next
<1>3. SentInv => Unregistered
  BY DEF SentInv
<1> QED
  BY <1>2, <1>3, SentInit, InitTyped, NextTyped, PTL DEF Spec
=============================================================================
