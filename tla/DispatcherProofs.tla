-------------------------- MODULE DispatcherProofs --------------------------
(***************************************************************************)
(* Proofs about the dispatcher for any number of communicators, threads    *)
(* and outside callers: the state keeps its type, every communicator has   *)
(* at most one owner, none comes back after its removal, and each session  *)
(* is told of its end once.                                                *)
(***************************************************************************)
EXTENDS DispatcherRefinement, FiniteSetTheorems, TLAPS

USE CommsAssumption, DispatcherAssumption

(* A thread names a communicator exactly while it works on one.            *)
Working == ProcessPCs \cup {"mark", "disconnected", "call_disconnected"}

CurOK == \A t \in Threads :
            IF pc[t] \in Working THEN cur[t] \in Comms ELSE cur[t] = NoComm

(* A completed read leaves room for what it read.                          *)
RoomOK == \A c \in Comms : read[c] = "data" => inbox[c] < MaxIn

Typed == TypeOK /\ CurOK /\ RoomOK

LEMMA InitType == Init => Typed
  BY DEF Init, Typed, TypeOK, CurOK, RoomOK, Working, ContainerInit, Actors, PCs, ProcessPCs

(* What a pass over a communicator does to its queues keeps their types.   *)
LEMMA ArrivedType ==
  ASSUME TypeOK, NEW c \in Comms, Arrived(c)
  PROVE  inbox' \in [Comms -> 0..MaxIn] /\ \A d \in Comms : inbox'[d] <= inbox[d]
  BY DEF TypeOK, Arrived

LEMMA QueuesType ==
  ASSUME TypeOK, NEW c \in Comms, Queues(c)
  PROVE  /\ inbox' \in [Comms -> 0..MaxIn]
         /\ \A d \in Comms : inbox'[d] <= inbox[d]
         /\ outbox' \subseteq Comms
         /\ writing' \subseteq Comms
<1>1. inbox' \in [Comms -> 0..MaxIn] /\ \A d \in Comms : inbox'[d] <= inbox[d]
  BY ArrivedType DEF Queues, TypeOK
<1>2. PICK queued \in {outbox, outbox \cup ({c} \cap Replying)} :
         /\ outbox' \in {queued, queued \ {c}}
         /\ writing' = writing \cup ({c} \cap queued)
  BY DEF Queues
<1>3. queued \subseteq Comms
  BY DEF TypeOK
<1> QED
  BY <1>1, <1>2, <1>3 DEF TypeOK

(* The steps a thread takes on its own keep the types.                     *)
LEMMA WorkType ==
  ASSUME Typed, NEW t \in Threads, Work(t)
  PROVE  Typed'
<1> USE DEF Actors, PCs, ProcessPCs, container, commState, Goto, Leave, Typed, Working
<1>1. CASE TakeClient(t)
  BY <1>1 DEF TypeOK, CurOK, RoomOK, TakeClient, TakeOut
<1>2. CASE NoneLeft(t)
  BY <1>2 DEF TypeOK, CurOK, RoomOK, NoneLeft
<1>3. CASE GiveBack(t)
  BY <1>3 DEF TypeOK, CurOK, RoomOK, GiveBack, GetBack
<1>4. CASE ProcessConnect(t)
  BY <1>4, ZenonT(30) DEF TypeOK, CurOK, RoomOK, ProcessConnect
<1>5. CASE ProcessQueues(t)
  <2>1. cur[t] \in Comms
    BY <1>5 DEF CurOK, ProcessQueues, InProcess
  <2>2. /\ inbox' \in [Comms -> 0..MaxIn]
        /\ \A d \in Comms : inbox'[d] <= inbox[d]
        /\ outbox' \subseteq Comms
        /\ writing' \subseteq Comms
    BY <1>5, <2>1, QueuesType DEF ProcessQueues
  <2> QED
    BY <1>5, <2>1, <2>2 DEF TypeOK, CurOK, RoomOK, ProcessQueues
<1>6. CASE HandlerThrows(t)
  <2>1. cur[t] \in Comms
    BY <1>6 DEF TypeOK, HandlerThrows
  <2>2. /\ inbox' \in [Comms -> 0..MaxIn]
        /\ \A d \in Comms : inbox'[d] <= inbox[d]
        /\ outbox' \subseteq Comms
        /\ writing' \subseteq Comms
    <3>1. CASE UNCHANGED <<inbox, outbox, writing>>
      BY <3>1 DEF TypeOK
    <3>2. CASE /\ Arrived(cur[t])
               /\ outbox' \in {outbox, outbox \cup ({cur[t]} \cap Replying)}
               /\ UNCHANGED writing
      BY <2>1, <3>2, ArrivedType DEF TypeOK
    <3>3. CASE Queues(cur[t])
      BY <2>1, <3>3, QueuesType
    <3> QED
      BY <1>6, <3>1, <3>2, <3>3 DEF HandlerThrows
  <2>3. CASE Leave(t, "take_out")
    BY <1>6, <2>2, <2>3 DEF TypeOK, CurOK, RoomOK, HandlerThrows
  <2>4. CASE Goto(t, "disconnected") /\ UNCHANGED cur
    BY <1>6, <2>1, <2>2, <2>4 DEF TypeOK, CurOK, RoomOK, HandlerThrows
  <2> QED
    BY <1>6, <2>3, <2>4 DEF HandlerThrows
<1>7. CASE ChannelError(t)
  BY <1>7 DEF TypeOK, CurOK, RoomOK, ChannelError
<1>8. CASE EndProcess(t)
  BY <1>8 DEF TypeOK, CurOK, RoomOK, EndProcess
<1>9. CASE AfterProcessedThrows(t)
  BY <1>9 DEF TypeOK, CurOK, RoomOK, AfterProcessedThrows
<1>10. CASE RemoveClient(t)
  <2>1. clients' \subseteq Comms /\ excluded' \subseteq Comms
    BY <1>10 DEF TypeOK, RemoveClient, Erase
  <2>2. CASE Goto(t, "call_disconnected") /\ UNCHANGED cur
    BY <1>10, <2>1, <2>2 DEF TypeOK, CurOK, RoomOK, RemoveClient
  <2>3. CASE Leave(t, "take_out")
    BY <1>10, <2>1, <2>3 DEF TypeOK, CurOK, RoomOK, RemoveClient
  <2> QED
    BY <1>10, <2>2, <2>3 DEF RemoveClient
<1>11. CASE CallDisconnected(t)
  <2>1. cur[t] \in Comms
    BY <1>11 DEF CurOK, CallDisconnected
  <2>2. told' \in [Comms -> Nat]
    <3>1. told' \in {told, [told EXCEPT ![cur[t]] = @ + 1]}
      BY <1>11 DEF TypeOK, CallDisconnected
    <3> QED
      BY <2>1, <3>1 DEF TypeOK
  <2>3. closed' \subseteq Comms
    BY <1>11, <2>1 DEF TypeOK, CallDisconnected
  <2> QED
    BY <1>11, <2>2, <2>3 DEF TypeOK, CurOK, RoomOK, CallDisconnected
<1>12. CASE MarkConnected(t)
  <2>1. cur[t] \in Comms
    BY <1>12 DEF CurOK, MarkConnected
  <2> QED
    BY <1>12, <2>1 DEF TypeOK, CurOK, RoomOK, MarkConnected
<1> QED
  BY <1>1, <1>2, <1>3, <1>4, <1>5, <1>6, <1>7, <1>8, <1>9, <1>10, <1>11, <1>12
  DEF Work

(* So do the kicks, the handlers the io_service dispatches, the calls from *)
(* outside and the completion of a read.                                   *)
LEMMA KickType ==
  ASSUME Typed, NEW a \in Actors, Kick(a)
  PROVE  Typed'
<1> USE DEF Actors, PCs, ProcessPCs, container, commState, Goto, Resume, Working
<1>1. CASE CanKick(a)
  BY <1>1 DEF Typed, TypeOK, CurOK, RoomOK, CanKick
<1>2. CASE PostKick(a)
  BY <1>2 DEF Typed, TypeOK, CurOK, RoomOK, PostKick
<1> QED
  BY <1>1, <1>2 DEF Kick

LEMMA DispatchType ==
  ASSUME Typed, NEW t \in Threads, Dispatch(t)
  PROVE  Typed'
<1> USE DEF Actors, PCs, ProcessPCs, container, commState, Goto, Typed, Working
<1>1. CASE TimerHandler(t)
  BY <1>1 DEF TypeOK, CurOK, RoomOK, TimerHandler
<1>2. CASE KickHandler(t)
  BY <1>2 DEF TypeOK, CurOK, RoomOK, KickHandler
<1>3. ASSUME NEW c \in Comms, AcceptHandler(t, c)
      PROVE  Typed'
  BY <1>3 DEF TypeOK, CurOK, RoomOK, AcceptHandler, Insert
<1>4. ASSUME NEW c \in Comms, ReadHandler(t, c)
      PROVE  Typed'
  BY <1>4 DEF TypeOK, CurOK, RoomOK, ReadHandler
<1>5. ASSUME NEW c \in Comms, WriteHandler(t, c)
      PROVE  Typed'
  BY <1>5 DEF TypeOK, CurOK, RoomOK, WriteHandler
<1> QED
  BY <1>1, <1>2, <1>3, <1>4, <1>5 DEF Dispatch

LEMMA CallType ==
  ASSUME Typed, NEW u \in Users, Call(u)
  PROVE  Typed'
<1> USE DEF Actors, PCs, ProcessPCs, container, commState, Goto, Typed, Working,
            Contents
<1>1. ASSUME NEW c \in Comms, SendOne(u, c)
      PROVE  Typed'
  BY <1>1 DEF TypeOK, CurOK, RoomOK, SendOne
<1>2. ASSUME NEW c \in Comms, DisconnectOne(u, c)
      PROVE  Typed'
  BY <1>2 DEF TypeOK, CurOK, RoomOK, DisconnectOne, Disconnect
<1>3. CASE DisconnectAll(u)
  BY <1>3 DEF TypeOK, CurOK, RoomOK, DisconnectAll, Disconnect
<1> QED
  BY <1>1, <1>2, <1>3 DEF Call

LEMMA CompleteReadType ==
  ASSUME Typed, NEW c \in Comms, CompleteRead(c)
  PROVE  Typed'
  BY DEF Typed, TypeOK, CurOK, RoomOK, CompleteRead, container

LEMMA NextType ==
  ASSUME Typed, [Next]_vars
  PROVE  Typed'
<1>1. CASE Next
  BY <1>1, WorkType, KickType, DispatchType, CallType, CompleteReadType DEF Next
<1>2. CASE UNCHANGED vars
  BY <1>2 DEF vars, commState, Typed, TypeOK, CurOK, RoomOK
<1> QED
  BY <1>1, <1>2

(* The state keeps its type.                                               *)
THEOREM TypeCorrect == Spec => []TypeOK
<1>1. Typed => TypeOK
  BY DEF Typed
<1> QED
  BY <1>1, InitType, NextType, PTL DEF Spec

----------------------------------------------------------------------------
(* Ownership is inductive together with what a thread holds where: the     *)
(* communicator it processes is still excluded, the one it says farewell   *)
(* to is not, and none of them waits for its connection.                   *)
InHand(t) ==
    /\ pc[t] \in ProcessPCs \cup {"disconnected"} => cur[t] \in taken[t] \cap excluded
    /\ pc[t] = "call_disconnected" => cur[t] \in taken[t] \ excluded

Unborn == \A t \in Threads : pending \cap (Contents \cup taken[t]) = {}

OwnedInv == Typed /\ Ownership /\ Unborn /\ \A t \in Threads : InHand(t)

LEMMA InitOwned == Init => OwnedInv
<1> SUFFICES ASSUME Init
             PROVE  OwnedInv
  OBVIOUS
<1>1. Typed
  BY InitType
<1> QED
  BY <1>1 DEF Init, OwnedInv, Ownership, Unborn, InHand, ContainerInit, Contents,
              Actors, ProcessPCs

(* A step that moves one actor and leaves the container, the vectors and   *)
(* the connections alone is harmless if it is harmless for that actor.     *)
LEMMA QuietStep ==
  ASSUME OwnedInv, NEW a \in Actors, NEW label,
         UNCHANGED <<clients, excluded, pending, taken>>,
         Goto(a, label),
         \/ label \notin ProcessPCs \cup {"disconnected", "call_disconnected"}
         \/ /\ label \in ProcessPCs \cup {"disconnected"}
            /\ pc[a] \in ProcessPCs \cup {"disconnected"}
            /\ cur'[a] = cur[a],
         \A b \in Actors \ {a} : cur'[b] = cur[b]
  PROVE  Ownership' /\ Unborn' /\ \A t \in Threads : InHand(t)'
<1>1. Ownership' /\ Unborn'
  BY DEF OwnedInv, Ownership, Unborn, Contents
<1>2. ASSUME NEW t \in Threads
      PROVE  InHand(t)'
  <2>1. CASE t = a
    BY <2>1 DEF OwnedInv, InHand, Goto, Typed, TypeOK, Actors, ProcessPCs
  <2>2. CASE t # a
    BY <2>2 DEF OwnedInv, InHand, Goto, Typed, TypeOK, Actors
  <2> QED
    BY <2>1, <2>2
<1> QED
  BY <1>1, <1>2

LEMMA WorkOwned ==
  ASSUME OwnedInv, NEW t \in Threads, Work(t)
  PROVE  Ownership' /\ Unborn' /\ \A s \in Threads : InHand(s)'
<1> USE DEF Actors, ProcessPCs, container, commState, Leave
<1>0. /\ cur \in [Actors -> Comms \cup {NoComm}]
      /\ taken \in [Actors -> SUBSET Comms]
      /\ pc \in [Actors -> PCs]
      /\ t \in Actors
  BY DEF OwnedInv, Typed, TypeOK
<1>1. CASE TakeClient(t)
  <2>1. PICK c \in clients : TakeOut(c) /\ cur' = [cur EXCEPT ![t] = c]
                             /\ taken' = [taken EXCEPT ![t] = @ \cup {c}]
    BY <1>1 DEF TakeClient
  <2>2. pc' = [pc EXCEPT ![t] = "mt_process"] /\ UNCHANGED pending
    BY <1>1 DEF TakeClient, Goto
  <2>3. Ownership'
    BY <1>0, <2>1 DEF OwnedInv, Ownership, TakeOut
  <2>4. Unborn'
    BY <1>0, <2>1, <2>2 DEF OwnedInv, Unborn, TakeOut, Contents
  <2>5. \A s \in Threads : InHand(s)'
    BY <1>0, <2>1, <2>2 DEF OwnedInv, Ownership, InHand, TakeOut
  <2> QED
    BY <2>3, <2>4, <2>5
<1>2. CASE NoneLeft(t)
  BY <1>0, <1>2, QuietStep DEF NoneLeft
<1>3. CASE GiveBack(t)
  <2>1. PICK c \in taken[t] : GetBack(c) /\ taken' = [taken EXCEPT ![t] = @ \ {c}]
    BY <1>3 DEF GiveBack
  <2>2. /\ pc[t] = "get_back"
        /\ pc' \in {[pc EXCEPT ![t] = "idle"], [pc EXCEPT ![t] = "get_back"]}
        /\ UNCHANGED <<pending, cur>>
    BY <1>3 DEF GiveBack, Goto
  <2>3. Ownership'
    BY <1>0, <2>1 DEF OwnedInv, Ownership, GetBack
  <2>4. Unborn'
    BY <1>0, <2>1, <2>2 DEF OwnedInv, Unborn, GetBack, Contents
  <2>5. \A s \in Threads : InHand(s)'
    BY <1>0, <2>1, <2>2 DEF OwnedInv, Ownership, InHand, GetBack
  <2> QED
    BY <2>3, <2>4, <2>5
<1>4. CASE ProcessConnect(t)
  BY <1>0, <1>4, QuietStep DEF ProcessConnect
<1>5. CASE ProcessQueues(t)
  BY <1>0, <1>5, QuietStep DEF ProcessQueues, InProcess
<1>6. CASE HandlerThrows(t)
  BY <1>0, <1>6, QuietStep DEF HandlerThrows, InProcess
<1>7. CASE ChannelError(t)
  BY <1>0, <1>7, QuietStep DEF ChannelError
<1>8. CASE EndProcess(t)
  BY <1>0, <1>8, QuietStep DEF EndProcess
<1>9. CASE AfterProcessedThrows(t)
  BY <1>0, <1>9, QuietStep DEF AfterProcessedThrows
<1>10. CASE RemoveClient(t)
  <2> DEFINE c == cur[t]
  <2>1. c \in taken[t] /\ c \in excluded
    BY <1>10 DEF RemoveClient, OwnedInv, InHand
  <2>2. /\ Erase(c)
        /\ pc' = [pc EXCEPT ![t] = "call_disconnected"]
        /\ UNCHANGED <<pending, taken, cur>>
    BY <1>10, <2>1 DEF RemoveClient, Contents, Goto
  <2>3. Ownership'
    BY <2>1, <2>2 DEF OwnedInv, Ownership, Erase
  <2>4. Unborn'
    BY <2>2 DEF OwnedInv, Unborn, Erase, Contents
  <2>5. \A s \in Threads : InHand(s)'
    BY <1>0, <2>1, <2>2 DEF OwnedInv, Ownership, InHand, Erase
  <2> QED
    BY <2>3, <2>4, <2>5
<1>11. CASE CallDisconnected(t)
  BY <1>0, <1>11, QuietStep DEF CallDisconnected
<1>12. CASE MarkConnected(t)
  BY <1>0, <1>12, QuietStep DEF MarkConnected
<1> QED
  BY <1>1, <1>2, <1>3, <1>4, <1>5, <1>6, <1>7, <1>8, <1>9, <1>10, <1>11, <1>12
  DEF Work

LEMMA KickOwned ==
  ASSUME OwnedInv, NEW a \in Actors, Kick(a)
  PROVE  Ownership' /\ Unborn' /\ \A s \in Threads : InHand(s)'
<1> USE DEF ProcessPCs, container, commState
<1>1. CASE CanKick(a)
  BY <1>1, QuietStep DEF CanKick, Resume
<1>2. CASE PostKick(a)
  BY <1>2, QuietStep DEF PostKick, Resume
<1> QED
  BY <1>1, <1>2 DEF Kick

LEMMA DispatchOwned ==
  ASSUME OwnedInv, NEW t \in Threads, Dispatch(t)
  PROVE  Ownership' /\ Unborn' /\ \A s \in Threads : InHand(s)'
<1> USE DEF Actors, ProcessPCs, container, commState
<1>1. CASE TimerHandler(t)
  BY <1>1, QuietStep DEF TimerHandler
<1>2. CASE KickHandler(t)
  BY <1>2, QuietStep DEF KickHandler
<1>3. ASSUME NEW c \in Comms, AcceptHandler(t, c)
      PROVE  Ownership' /\ Unborn' /\ \A s \in Threads : InHand(s)'
  <2>1. /\ c \in pending
        /\ pending' = pending \ {c}
        /\ clients' = clients \cup ({c} \ excluded)
        /\ UNCHANGED <<excluded, taken>>
        /\ pc' = [pc EXCEPT ![t] = "mark"]
        /\ cur' = [cur EXCEPT ![t] = c]
    BY <1>3 DEF AcceptHandler, Insert, Goto
  <2>2. Ownership'
    BY <2>1 DEF OwnedInv, Ownership, Unborn, Contents
  <2>3. Unborn'
    BY <2>1 DEF OwnedInv, Unborn, Contents
  <2>4. \A s \in Threads : InHand(s)'
    BY <2>1 DEF OwnedInv, InHand, Typed, TypeOK
  <2> QED
    BY <2>2, <2>3, <2>4
<1>4. ASSUME NEW c \in Comms, ReadHandler(t, c)
      PROVE  Ownership' /\ Unborn' /\ \A s \in Threads : InHand(s)'
  BY <1>4, QuietStep DEF ReadHandler
<1>5. ASSUME NEW c \in Comms, WriteHandler(t, c)
      PROVE  Ownership' /\ Unborn' /\ \A s \in Threads : InHand(s)'
  <2>1. CASE UNCHANGED pc
    BY <1>5, <2>1 DEF WriteHandler, OwnedInv, Ownership, Unborn, InHand, Contents
  <2>2. CASE Goto(t, "can_kick")
    BY <1>5, <2>2, QuietStep DEF WriteHandler
  <2> QED
    BY <1>5, <2>1, <2>2 DEF WriteHandler
<1> QED
  BY <1>1, <1>2, <1>3, <1>4, <1>5 DEF Dispatch

LEMMA CallOwned ==
  ASSUME OwnedInv, NEW u \in Users, Call(u)
  PROVE  Ownership' /\ Unborn' /\ \A s \in Threads : InHand(s)'
<1> USE DEF Actors, ProcessPCs, container, commState
<1>1. ASSUME NEW c \in Comms, SendOne(u, c)
      PROVE  Ownership' /\ Unborn' /\ \A s \in Threads : InHand(s)'
  BY <1>1, QuietStep DEF SendOne
<1>2. ASSUME NEW S, Disconnect(u, S)
      PROVE  Ownership' /\ Unborn' /\ \A s \in Threads : InHand(s)'
  BY <1>2, QuietStep DEF Disconnect
<1> QED
  BY <1>1, <1>2 DEF Call, DisconnectOne, DisconnectAll

LEMMA NextOwned ==
  ASSUME OwnedInv, [Next]_vars
  PROVE  OwnedInv'
<1>1. Typed'
  BY NextType DEF OwnedInv
<1>2. Ownership' /\ Unborn' /\ \A s \in Threads : InHand(s)'
  <2>1. ASSUME NEW c \in Comms, CompleteRead(c)
        PROVE  Ownership' /\ Unborn' /\ \A s \in Threads : InHand(s)'
    BY <2>1 DEF CompleteRead, container, OwnedInv, Ownership, Unborn, InHand, Contents
  <2>2. CASE UNCHANGED vars
    BY <2>2 DEF vars, OwnedInv, Ownership, Unborn, InHand, Contents
  <2> QED
    BY <2>1, <2>2, WorkOwned, KickOwned, DispatchOwned, CallOwned DEF Next
<1> QED
  BY <1>1, <1>2 DEF OwnedInv

LEMMA AlwaysOwned == Spec => []OwnedInv
  BY InitOwned, NextOwned, PTL DEF Spec

(* Ownership: no communicator has two owners or is stranded.               *)
THEOREM OwnershipHolds == Spec => []Ownership
<1>1. OwnedInv => Ownership
  BY DEF OwnedInv
<1> QED
  BY <1>1, AlwaysOwned, PTL

(* "Each instance of the unicomm::communicator is only occupied by only    *)
(* one thread at a time", for any number of threads: two threads working   *)
(* on one communicator would both have it in their vectors.                *)
THEOREM ExclusiveProcessingHolds == Spec => []ExclusiveProcessing
<1>1. OwnedInv => ExclusiveProcessing
  <2> SUFFICES ASSUME OwnedInv, NEW t1 \in Threads, NEW t2 \in Threads, t1 # t2,
                      cur[t1] = cur[t2], cur[t1] # NoComm,
                      pc[t1] # "mark", pc[t2] # "mark"
               PROVE  FALSE
    BY DEF ExclusiveProcessing
  <2>1. pc[t1] \in Working /\ pc[t2] \in Working
    BY DEF OwnedInv, Typed, CurOK
  <2>2. cur[t1] \in taken[t1] /\ cur[t2] \in taken[t2]
    BY <2>1 DEF OwnedInv, InHand, Working
  <2> QED
    BY <2>2 DEF OwnedInv, Ownership
<1> QED
  BY <1>1, AlwaysOwned, PTL

(* A removed communicator stays removed: what enters the container was     *)
(* pending, and what goes back into the primary collection is excluded.    *)
THEOREM NoResurrectionHolds == Spec => NoResurrection
<1> DEFINE Stays == \A c \in Comms : c \notin Contents \cup pending => c \notin Contents'
<1>1. [Next]_vars => [Stays]_vars
  <2> SUFFICES ASSUME [Next]_vars
               PROVE  Contents' \subseteq Contents \cup pending
    BY DEF Contents
  <2> USE DEF Contents, container, commState
  <2>1. ASSUME NEW t \in Threads, Work(t)
        PROVE  Contents' \subseteq Contents \cup pending
    BY <2>1 DEF Work, TakeClient, TakeOut, NoneLeft, GiveBack, GetBack, ProcessConnect,
       ProcessQueues, HandlerThrows, ChannelError, EndProcess, AfterProcessedThrows,
       RemoveClient, Erase, CallDisconnected, MarkConnected
  <2>2. ASSUME NEW t \in Threads, Dispatch(t)
        PROVE  Contents' \subseteq Contents \cup pending
    BY <2>2 DEF Dispatch, TimerHandler, KickHandler, AcceptHandler, Insert,
       ReadHandler, WriteHandler
  <2>3. ASSUME NEW a \in Actors, Kick(a)
        PROVE  Contents' \subseteq Contents \cup pending
    BY <2>3 DEF Kick, CanKick, PostKick
  <2>4. ASSUME NEW u \in Users, Call(u)
        PROVE  Contents' \subseteq Contents \cup pending
    BY <2>4 DEF Call, SendOne, DisconnectOne, DisconnectAll, Disconnect
  <2>5. ASSUME NEW c \in Comms, CompleteRead(c)
        PROVE  Contents' \subseteq Contents \cup pending
    BY <2>5 DEF CompleteRead
  <2>6. CASE UNCHANGED vars
    BY <2>6 DEF vars
  <2> QED
    BY <2>1, <2>2, <2>3, <2>4, <2>5, <2>6 DEF Next
<1> QED
  BY <1>1, PTL DEF Spec, NoResurrection

----------------------------------------------------------------------------
(* ReadArmed is inductive over OwnedInv.  A step disturbs it at most at    *)
(* the communicator its thread works on, and only when that was about to   *)
(* be connected or removed, or when reads and errors change.               *)
LEMMA QuietArmed ==
  ASSUME TypeOK, ReadArmed, NEW a \in Actors, NEW label, Goto(a, label),
         pc[a] \notin {"mark", "disconnected"},
         \A b \in Actors \ {a} : cur'[b] = cur[b],
         UNCHANGED <<justConnected, read, failed>>,
         Contents' \subseteq Contents
  PROVE  ReadArmed'
<1> SUFFICES ASSUME NEW c \in Contents,
                    c \notin justConnected, read[c] = "none", "read" \notin failed[c]
             PROVE  \E t \in Threads : cur'[t] = c /\ pc'[t] \in {"mark", "disconnected"}
  BY DEF ReadArmed
<1>1. PICK t \in Threads : cur[t] = c /\ pc[t] \in {"mark", "disconnected"}
  BY DEF ReadArmed
<1> QED
  BY <1>1 DEF Goto, TypeOK, Actors

LEMMA WorkReadArmed ==
  ASSUME OwnedInv, ReadArmed, NEW t \in Threads, Work(t)
  PROVE  ReadArmed'
<1> USE DEF Actors, container, commState, Goto, Leave, Contents
<1>0. /\ cur \in [Actors -> Comms \cup {NoComm}]
      /\ pc \in [Actors -> PCs]
      /\ read \in [Comms -> {"none", "pending", "data", "error"}]
      /\ failed \in [Comms -> SUBSET {"read", "write"}]
      /\ clients \subseteq Comms /\ excluded \subseteq Comms
  BY DEF OwnedInv, Typed, TypeOK
<1>1. CASE TakeClient(t)
  BY <1>0, <1>1, QuietArmed DEF TakeClient, TakeOut, OwnedInv, Typed
<1>2. CASE NoneLeft(t)
  BY <1>0, <1>2 DEF ReadArmed, NoneLeft
<1>3. CASE GiveBack(t)
  BY <1>0, <1>3, QuietArmed DEF GiveBack, GetBack, OwnedInv, Typed
<1>4. CASE ProcessConnect(t)
  BY <1>0, <1>4 DEF ReadArmed, ProcessConnect
<1>5. CASE ProcessQueues(t)
  BY <1>0, <1>5 DEF ReadArmed, ProcessQueues, InProcess
<1>6. CASE HandlerThrows(t)
  BY <1>0, <1>6 DEF ReadArmed, HandlerThrows, InProcess
<1>7. CASE ChannelError(t)
  BY <1>0, <1>7 DEF ReadArmed, ChannelError
<1>8. CASE EndProcess(t)
  BY <1>0, <1>8 DEF ReadArmed, EndProcess
<1>9. CASE AfterProcessedThrows(t)
  BY <1>0, <1>9 DEF ReadArmed, AfterProcessedThrows
<1>10. CASE RemoveClient(t)
  BY <1>0, <1>10 DEF ReadArmed, RemoveClient, Erase
<1>11. CASE CallDisconnected(t)
  BY <1>0, <1>11 DEF ReadArmed, CallDisconnected
<1>12. CASE MarkConnected(t)
  BY <1>0, <1>12 DEF ReadArmed, MarkConnected
<1> QED
  BY <1>1, <1>2, <1>3, <1>4, <1>5, <1>6, <1>7, <1>8, <1>9, <1>10, <1>11, <1>12
  DEF Work

LEMMA NextReadArmed ==
  ASSUME OwnedInv, ReadArmed, [Next]_vars
  PROVE  ReadArmed'
<1> USE DEF Actors, container, commState, Goto, Contents
<1>0. /\ cur \in [Actors -> Comms \cup {NoComm}]
      /\ pc \in [Actors -> PCs]
      /\ read \in [Comms -> {"none", "pending", "data", "error"}]
      /\ failed \in [Comms -> SUBSET {"read", "write"}]
      /\ clients \subseteq Comms /\ excluded \subseteq Comms
  BY DEF OwnedInv, Typed, TypeOK
<1>1. ASSUME NEW a \in Actors, Kick(a)
      PROVE  ReadArmed'
  BY <1>0, <1>1, QuietArmed DEF Kick, CanKick, PostKick, Resume, OwnedInv, Typed
<1>2. ASSUME NEW t \in Threads, Dispatch(t)
      PROVE  ReadArmed'
  <2>1. CASE TimerHandler(t) \/ KickHandler(t)
    BY <1>0, <2>1, QuietArmed DEF TimerHandler, KickHandler, OwnedInv, Typed
  <2>2. ASSUME NEW c \in Comms, AcceptHandler(t, c)
        PROVE  ReadArmed'
    BY <1>0, <2>2 DEF ReadArmed, AcceptHandler, Insert
  <2>3. ASSUME NEW c \in Comms, ReadHandler(t, c)
        PROVE  ReadArmed'
    BY <1>0, <2>3 DEF ReadArmed, ReadHandler
  <2>4. ASSUME NEW c \in Comms, WriteHandler(t, c)
        PROVE  ReadArmed'
    BY <1>0, <2>4 DEF ReadArmed, WriteHandler
  <2> QED
    BY <1>2, <2>1, <2>2, <2>3, <2>4 DEF Dispatch
<1>3. ASSUME NEW u \in Users, Call(u)
      PROVE  ReadArmed'
  BY <1>0, <1>3, QuietArmed DEF Call, SendOne, DisconnectOne, DisconnectAll,
     Disconnect, OwnedInv, Typed
<1>4. ASSUME NEW c \in Comms, CompleteRead(c)
      PROVE  ReadArmed'
  BY <1>0, <1>4 DEF ReadArmed, CompleteRead
<1>5. CASE UNCHANGED vars
  BY <1>5 DEF ReadArmed, vars
<1> QED
  BY <1>1, <1>2, <1>3, <1>4, <1>5, WorkReadArmed DEF Next

(* The loss of a connection never goes unnoticed for want of a read.       *)
THEOREM ReadArmedHolds == Spec => []ReadArmed
<1>1. Init => ReadArmed
  BY DEF Init, ContainerInit, ReadArmed, Contents
<1>2. OwnedInv /\ ReadArmed /\ [Next]_vars => ReadArmed'
  BY NextReadArmed
<1> QED
  BY <1>1, <1>2, AlwaysOwned, PTL DEF Spec

----------------------------------------------------------------------------
(* ToldOnce is inductive over OwnedInv: only the thread that holds a       *)
(* communicator creates its session, removes it and calls its disconnected *)
(* handler.                                                                *)
Departs(c) == \E t \in Threads : cur[t] = c /\ pc[t] = "call_disconnected"

LEMMA QuietTold ==
  ASSUME TypeOK, ToldOnce, NEW a \in Actors, NEW label, Goto(a, label),
         label # "call_disconnected", pc[a] # "call_disconnected",
         \A b \in Actors \ {a} : cur'[b] = cur[b],
         UNCHANGED <<told, sessions>>,
         (Contents \cup pending)' = Contents \cup pending
  PROVE  ToldOnce'
<1>1. ASSUME NEW c \in Comms
      PROVE  Departs(c)' <=> Departs(c)
  BY DEF Departs, Goto, TypeOK, Actors
<1> QED
  BY <1>1 DEF ToldOnce, Departs

LEMMA WorkTold ==
  ASSUME OwnedInv, ToldOnce, NEW t \in Threads, Work(t)
  PROVE  ToldOnce'
<1> USE DEF Actors, ProcessPCs, container, commState, Leave, Contents
<1>0. /\ TypeOK
      /\ cur \in [Actors -> Comms \cup {NoComm}]
      /\ pc \in [Actors -> PCs]
      /\ told \in [Comms -> Nat]
      /\ clients \subseteq Comms /\ excluded \subseteq Comms
  BY DEF OwnedInv, Typed, TypeOK
<1>1. CASE TakeClient(t)
  BY <1>0, <1>1, QuietTold DEF TakeClient, TakeOut
<1>2. CASE NoneLeft(t)
  BY <1>0, <1>2, QuietTold DEF NoneLeft
<1>3. CASE GiveBack(t)
  BY <1>0, <1>3, QuietTold DEF GiveBack, GetBack
<1>4. CASE ProcessConnect(t)
  <2>1. cur[t] \in excluded
    BY <1>4 DEF ProcessConnect, OwnedInv, InHand
  <2>2. /\ UNCHANGED <<clients, excluded, pending, told>>
        /\ sessions' \in {sessions, sessions \cup {cur[t]}}
    BY <1>4 DEF ProcessConnect
  <2>3. ASSUME NEW c \in Comms
        PROVE  Departs(c)' <=> Departs(c)
    BY <1>0, <1>4 DEF ProcessConnect, Departs, Goto
  <2> QED
    BY <2>1, <2>2, <2>3 DEF ToldOnce, Departs
<1>5. CASE ProcessQueues(t)
  BY <1>0, <1>5, QuietTold DEF ProcessQueues, InProcess
<1>6. CASE HandlerThrows(t)
  BY <1>0, <1>6, QuietTold DEF HandlerThrows, InProcess
<1>7. CASE ChannelError(t)
  BY <1>0, <1>7, QuietTold DEF ChannelError
<1>8. CASE EndProcess(t)
  BY <1>0, <1>8, QuietTold DEF EndProcess
<1>9. CASE AfterProcessedThrows(t)
  BY <1>0, <1>9, QuietTold DEF AfterProcessedThrows
<1>10. CASE RemoveClient(t)
  <2>1. cur[t] \in Contents
    BY <1>10 DEF RemoveClient, OwnedInv, InHand
  <2>2. /\ UNCHANGED <<pending, told, sessions, cur>>
        /\ clients' = clients \ {cur[t]} /\ excluded' = excluded \ {cur[t]}
        /\ pc' = [pc EXCEPT ![t] = "call_disconnected"]
        /\ pc[t] = "disconnected"
    BY <1>10, <2>1 DEF RemoveClient, Erase, Goto
  <2>3. ASSUME NEW c \in Comms
        PROVE  Departs(c)' <=> Departs(c) \/ c = cur[t]
    BY <1>0, <2>2 DEF Departs
  <2> QED
    BY <2>1, <2>2, <2>3 DEF ToldOnce, Departs
<1>11. CASE CallDisconnected(t)
  <2>0. PICK d \in Comms : d = cur[t]
    BY <1>11 DEF CallDisconnected, OwnedInv, Typed, CurOK, Working
  <2>1. /\ pc[t] = "call_disconnected"
        /\ UNCHANGED <<clients, excluded, pending, sessions>>
        /\ pc' = [pc EXCEPT ![t] = "take_out"] /\ cur' = [cur EXCEPT ![t] = NoComm]
        /\ told' = [told EXCEPT ![d] = IF d \in sessions THEN @ + 1 ELSE @]
    BY <1>11, <2>0 DEF CallDisconnected, Goto
  <2>2. d \in taken[t]
    BY <2>0, <2>1 DEF OwnedInv, InHand
  <2>3. d \notin Contents \cup pending
    BY <2>0, <2>1, <2>2 DEF OwnedInv, InHand, Ownership, Unborn
  <2>4. ~ Departs(d)'
    <3> SUFFICES ASSUME NEW s \in Threads, cur'[s] = d, pc'[s] = "call_disconnected"
                 PROVE  FALSE
      BY DEF Departs
    <3>1. s # t /\ cur[s] = d /\ pc[s] = "call_disconnected"
      BY <1>0, <2>1
    <3>2. d \in taken[s]
      BY <3>1 DEF OwnedInv, InHand
    <3> QED
      BY <2>2, <3>1, <3>2 DEF OwnedInv, Ownership
  <2>5. ASSUME NEW c \in Comms, c # d
        PROVE  Departs(c)' <=> Departs(c)
    BY <1>0, <2>0, <2>1, <2>5 DEF Departs
  <2>6. told[d] = 0
    BY <2>0, <2>1 DEF ToldOnce
  <2>7. told'[d] = IF d \in sessions THEN 1 ELSE 0
    BY <1>0, <2>1, <2>6
  <2>8. ASSUME NEW c \in Comms, c # d
        PROVE  told'[c] = told[c]
    BY <1>0, <2>1, <2>8
  <2> QED
    BY <2>1, <2>3, <2>4, <2>5, <2>7, <2>8 DEF ToldOnce, Departs
<1>12. CASE MarkConnected(t)
  BY <1>0, <1>12, QuietTold DEF MarkConnected
<1> QED
  BY <1>1, <1>2, <1>3, <1>4, <1>5, <1>6, <1>7, <1>8, <1>9, <1>10, <1>11, <1>12
  DEF Work

LEMMA NextTold ==
  ASSUME OwnedInv, ToldOnce, [Next]_vars
  PROVE  ToldOnce'
<1> USE DEF Actors, container, commState, Contents
<1>0. TypeOK
  BY DEF OwnedInv, Typed
<1>1. ASSUME NEW a \in Actors, Kick(a)
      PROVE  ToldOnce'
  BY <1>0, <1>1, QuietTold DEF Kick, CanKick, PostKick, Resume
<1>2. ASSUME NEW t \in Threads, Dispatch(t)
      PROVE  ToldOnce'
  <2>1. CASE TimerHandler(t) \/ KickHandler(t)
    BY <1>0, <2>1, QuietTold DEF TimerHandler, KickHandler
  <2>2. ASSUME NEW c \in Comms, AcceptHandler(t, c)
        PROVE  ToldOnce'
    BY <1>0, <2>2, QuietTold DEF AcceptHandler, Insert
  <2>3. ASSUME NEW c \in Comms, ReadHandler(t, c)
        PROVE  ToldOnce'
    BY <1>0, <2>3, QuietTold DEF ReadHandler
  <2>4. ASSUME NEW c \in Comms, WriteHandler(t, c)
        PROVE  ToldOnce'
    BY <1>0, <2>4, QuietTold DEF WriteHandler, ToldOnce
  <2> QED
    BY <1>2, <2>1, <2>2, <2>3, <2>4 DEF Dispatch
<1>3. ASSUME NEW u \in Users, Call(u)
      PROVE  ToldOnce'
  BY <1>0, <1>3, QuietTold DEF Call, SendOne, DisconnectOne, DisconnectAll, Disconnect
<1>4. ASSUME NEW c \in Comms, CompleteRead(c)
      PROVE  ToldOnce'
  BY <1>4 DEF CompleteRead, ToldOnce
<1>5. CASE UNCHANGED vars
  BY <1>5 DEF ToldOnce, vars
<1> QED
  BY <1>1, <1>2, <1>3, <1>4, <1>5, WorkTold DEF Next

(* The disconnected handler is called once per session, for any number of  *)
(* threads.                                                                *)
THEOREM ToldOnceHolds == Spec => []ToldOnce
<1>1. Init => ToldOnce
  BY DEF Init, ToldOnce
<1>2. OwnedInv /\ ToldOnce /\ [Next]_vars => ToldOnce'
  BY NextTold
<1> QED
  BY <1>1, <1>2, AlwaysOwned, PTL DEF Spec

----------------------------------------------------------------------------
(* KickBound: an actor past the test of can_kick() counts as a kick that   *)
(* is already posted.                                                      *)
Posting == {a \in Actors : pc[a] = "post"}

KickInv == kicks + Cardinality(Posting) < RunCount + Cardinality(Actors)

LEMMA ActorsFinite ==
  /\ IsFiniteSet(Actors)
  /\ Cardinality(Actors) \in Nat \ {0}
  /\ RunCount \in Nat
<1>1. IsFiniteSet(Actors)
  BY FS_Union DEF Actors
<1>2. Actors # {}
  BY DEF Actors
<1> QED
  BY <1>1, <1>2, FS_CardinalityType, FS_EmptySet DEF RunCount

LEMMA PostingFinite == IsFiniteSet(Posting) /\ Cardinality(Posting) \in Nat
                       /\ Cardinality(Posting) <= Cardinality(Actors)
<1>1. Posting \subseteq Actors
  BY DEF Posting
<1> QED
  BY <1>1, ActorsFinite, FS_Subset, FS_CardinalityType

(* A step that neither starts nor ends a post and adds no kick keeps it.   *)
LEMMA QuietKick ==
  ASSUME TypeOK, KickInv, NEW a \in Actors, NEW label, Goto(a, label),
         label # "post", pc[a] # "post", kicks' \in Nat, kicks' <= kicks
  PROVE  KickInv'
<1>1. Posting' = Posting
  BY DEF Posting, Goto, TypeOK
<1> QED
  BY <1>1, ActorsFinite, PostingFinite DEF KickInv, TypeOK, RunCount

LEMMA KickKick ==
  ASSUME TypeOK, KickInv, NEW a \in Actors, Kick(a)
  PROVE  KickInv'
<1> USE ActorsFinite, PostingFinite DEF Resume, Goto, RunCount
<1>1. CASE CanKick(a) /\ pc'[a] = "post"
  <2>1. Posting' \subseteq Actors
    BY DEF Posting
  <2>2. Cardinality(Posting') <= Cardinality(Actors) /\ Cardinality(Posting') \in Nat
    BY <2>1, FS_Subset, FS_CardinalityType
  <2>3. kicks < RunCount /\ kicks' = kicks
    BY <1>1 DEF CanKick, TypeOK
  <2>4. Cardinality(Posting)' = Cardinality(Posting')
    OBVIOUS
  <2> QED
    BY <2>2, <2>3, <2>4 DEF KickInv, TypeOK
<1>2. CASE CanKick(a) /\ pc'[a] # "post"
  BY <1>2, QuietKick DEF CanKick, TypeOK
<1>3. CASE PostKick(a)
  <2>1. Posting' = Posting \ {a} /\ a \in Posting
    BY <1>3 DEF PostKick, Posting, TypeOK
  <2>2. Cardinality(Posting') = Cardinality(Posting) - 1
    BY <2>1, FS_RemoveElement
  <2>3. kicks' = kicks + 1
    BY <1>3 DEF PostKick
  <2> QED
    BY <2>2, <2>3 DEF KickInv, TypeOK
<1> QED
  BY <1>1, <1>2, <1>3 DEF Kick

LEMMA NextKick ==
  ASSUME OwnedInv, KickInv, [Next]_vars
  PROVE  KickInv'
<1> USE DEF Actors, container, commState, Leave
<1>0. TypeOK /\ kicks \in Nat
  BY DEF OwnedInv, Typed, TypeOK
<1>1. ASSUME NEW t \in Threads, Work(t)
      PROVE  KickInv'
  BY <1>0, <1>1, QuietKick DEF Work, TakeClient, NoneLeft, GiveBack, ProcessConnect,
     ProcessQueues, InProcess, HandlerThrows, ChannelError, EndProcess,
     AfterProcessedThrows, RemoveClient, CallDisconnected, MarkConnected
<1>2. ASSUME NEW t \in Threads, Dispatch(t)
      PROVE  KickInv'
  <2>1. ASSUME NEW c \in Comms, WriteHandler(t, c), UNCHANGED pc
        PROVE  KickInv'
    BY <2>1 DEF WriteHandler, KickInv, Posting, RunCount
  <2> QED
    BY <1>0, <1>2, <2>1, QuietKick DEF Dispatch, TimerHandler, KickHandler,
       AcceptHandler, ReadHandler, WriteHandler
<1>3. ASSUME NEW u \in Users, Call(u)
      PROVE  KickInv'
  BY <1>0, <1>3, QuietKick DEF Call, SendOne, DisconnectOne, DisconnectAll, Disconnect
<1>4. ASSUME NEW c \in Comms, CompleteRead(c)
      PROVE  KickInv'
  BY <1>4 DEF CompleteRead, KickInv, Posting, RunCount
<1>5. CASE UNCHANGED vars
  BY <1>5 DEF vars, KickInv, Posting, RunCount
<1> QED
  BY <1>0, <1>1, <1>2, <1>3, <1>4, <1>5, KickKick DEF Next

(* The kick count stays below the run count plus the number of actors.     *)
THEOREM KickBoundHolds == Spec => []KickBound
<1>1. Init => KickInv
  <2> SUFFICES ASSUME Init
               PROVE  KickInv
    OBVIOUS
  <2>1. Posting = {} /\ kicks = 0
    BY DEF Init, Posting
  <2> QED
    BY <2>1, ActorsFinite, FS_EmptySet DEF KickInv
<1>2. OwnedInv /\ KickInv /\ [Next]_vars => KickInv'
  BY NextKick
<1>3. OwnedInv /\ KickInv => KickBound
  BY ActorsFinite, PostingFinite DEF KickInv, KickBound, OwnedInv, Typed, TypeOK
<1> QED
  BY <1>1, <1>2, <1>3, AlwaysOwned, PTL DEF Spec

----------------------------------------------------------------------------
(* The dispatcher implements ConnLifecycle: the invariant that makes it so *)
(* is OwnedInv.                                                            *)

LEMMA InitLifecycle ==
  ASSUME NEW c \in Comms, Init
  PROVE  Lifecycle(c)!Init
  BY DEF Lifecycle!Init, Init, ContainerInit, Actors, Stage, Holders, Departing

(* One step seen from one communicator.                                    *)
LifeStep(c) == UNCHANGED <<Stage(c), Holders(c)>> \/ Lifecycle(c)!Next

(* A step that touches neither the container nor the vectors nor a thread  *)
(* about to say farewell is invisible.                                     *)
LEMMA QuietLife ==
  ASSUME TypeOK, NEW c \in Comms, NEW a \in Actors, NEW label, Goto(a, label),
         label # "call_disconnected", pc[a] # "call_disconnected",
         \A b \in Actors \ {a} : cur'[b] = cur[b],
         UNCHANGED <<clients, excluded, pending, taken>>
  PROVE  LifeStep(c)
<1>1. \A t \in Threads : Departing(t, c)' <=> Departing(t, c)
  BY DEF Departing, Goto, TypeOK, Actors
<1> QED
  BY <1>1 DEF LifeStep, Stage, Holders

(* Who holds an excluded communicator, and who is saying farewell to one   *)
(* that has left, is the thread that has it in its vector.                 *)
LEMMA SoleHolder ==
  ASSUME OwnedInv, NEW c \in Comms, NEW t \in Threads, c \in taken[t],
         c \in excluded \/ Departing(t, c)
  PROVE  Holders(c) = {t}
<1>1. \A s \in Threads : Departing(s, c) => c \in taken[s] \ excluded
  BY DEF Departing, OwnedInv, InHand
<1>2. \A s \in Threads : c \in taken[s] => s = t
  BY DEF OwnedInv, Ownership
<1>3. \A s \in Threads : (IF c \in excluded THEN c \in taken[s] ELSE Departing(s, c)) <=> s = t
  BY <1>1, <1>2
<1> QED
  BY <1>3 DEF Holders

LEMMA WorkLife ==
  ASSUME OwnedInv, OwnedInv', NEW c \in Comms, NEW t \in Threads, Work(t)
  PROVE  LifeStep(c)
<1> USE DEF Actors, ProcessPCs, container, commState, Leave
<1>0. /\ TypeOK
      /\ cur \in [Actors -> Comms \cup {NoComm}]
      /\ taken \in [Actors -> SUBSET Comms]
      /\ pc \in [Actors -> PCs]
      /\ t \in Actors
  BY DEF OwnedInv, Typed, TypeOK
<1>1. CASE TakeClient(t)
  <2>1. PICK d \in clients : TakeOut(d) /\ cur' = [cur EXCEPT ![t] = d]
                             /\ taken' = [taken EXCEPT ![t] = @ \cup {d}]
    BY <1>1 DEF TakeClient
  <2>2. pc' = [pc EXCEPT ![t] = "mt_process"] /\ pc[t] = "take_out" /\ UNCHANGED pending
    BY <1>1 DEF TakeClient, Goto
  <2>3. \A s \in Threads : Departing(s, c)' <=> Departing(s, c)
    BY <1>0, <2>1, <2>2 DEF Departing
  <2>4. CASE c = d
    <3>1. Stage(c) = "listed" /\ Stage(c)' = "held"
      BY <2>1, <2>2, <2>4 DEF Stage, TakeOut, OwnedInv, Ownership, Unborn, Contents
    <3>2. Holders(c)' = {t}
      <4>1. c \in taken'[t] /\ c \in excluded'
        BY <1>0, <2>1, <2>4 DEF TakeOut
      <4>2. \A s \in Threads : c \in taken'[s] => s = t
        BY <4>1 DEF OwnedInv, Ownership
      <4> QED
        BY <4>1, <4>2 DEF Holders
    <3> QED
      BY <3>1, <3>2 DEF LifeStep, Lifecycle!Next, Lifecycle!Acquire
  <2>5. CASE c # d
    BY <1>0, <2>1, <2>2, <2>3, <2>5 DEF LifeStep, Stage, Holders, TakeOut
  <2> QED
    BY <2>4, <2>5
<1>2. CASE NoneLeft(t)
  BY <1>0, <1>2, QuietLife DEF NoneLeft
<1>3. CASE GiveBack(t)
  <2>1. PICK d \in taken[t] : GetBack(d) /\ taken' = [taken EXCEPT ![t] = @ \ {d}]
    BY <1>3 DEF GiveBack
  <2>2. /\ pc[t] = "get_back"
        /\ pc' \in {[pc EXCEPT ![t] = "idle"], [pc EXCEPT ![t] = "get_back"]}
        /\ UNCHANGED <<pending, cur>>
    BY <1>3 DEF GiveBack, Goto
  <2>3. \A s \in Threads : Departing(s, c)' <=> Departing(s, c)
    BY <1>0, <2>2 DEF Departing
  <2>4. CASE c = d /\ d \in excluded
    <3>1. Stage(c) = "held" /\ Stage(c)' = "listed"
      BY <2>1, <2>2, <2>4 DEF Stage, GetBack, OwnedInv, Ownership, Unborn, Contents
    <3>2. Holders(c) = {t}
      BY <2>1, <2>4, SoleHolder
    <3>3. Holders(c)' = {}
      <4>1. c \notin excluded'
        BY <2>1, <2>4 DEF GetBack
      <4>2. \A s \in Threads : ~ Departing(s, c)
        <5>1. \A s \in Threads : Departing(s, c) => c \notin excluded
          BY DEF Departing, OwnedInv, InHand
        <5> QED
          BY <2>4, <5>1
      <4> QED
        BY <2>3, <4>1, <4>2 DEF Holders
    <3> QED
      BY <3>1, <3>2, <3>3 DEF LifeStep, Lifecycle!Next, Lifecycle!Release
  <2>5. CASE c # d \/ d \notin excluded
    <3>1. c \in clients' <=> c \in clients
      BY <2>1, <2>5 DEF GetBack
    <3>2. c \in excluded' <=> c \in excluded
      BY <2>1, <2>5 DEF GetBack
    <3>3. c \in excluded => \A s \in Threads : c \in taken'[s] <=> c \in taken[s]
      BY <1>0, <2>1, <2>5
    <3> QED
      BY <2>2, <2>3, <3>1, <3>2, <3>3 DEF LifeStep, Stage, Holders
  <2> QED
    BY <2>4, <2>5
<1>4. CASE ProcessConnect(t)
  BY <1>0, <1>4, QuietLife DEF ProcessConnect
<1>5. CASE ProcessQueues(t)
  BY <1>0, <1>5, QuietLife DEF ProcessQueues, InProcess
<1>6. CASE HandlerThrows(t)
  BY <1>0, <1>6, QuietLife DEF HandlerThrows, InProcess
<1>7. CASE ChannelError(t)
  BY <1>0, <1>7, QuietLife DEF ChannelError
<1>8. CASE EndProcess(t)
  BY <1>0, <1>8, QuietLife DEF EndProcess
<1>9. CASE AfterProcessedThrows(t)
  BY <1>0, <1>9, QuietLife DEF AfterProcessedThrows
<1>10. CASE RemoveClient(t)
  <2>0. PICK d \in Comms : d = cur[t]
    BY <1>10 DEF RemoveClient, OwnedInv, Typed, CurOK, Working
  <2>1. d \in taken[t] /\ d \in excluded /\ pc[t] = "disconnected"
    BY <1>10, <2>0 DEF RemoveClient, OwnedInv, InHand
  <2>2. /\ clients' = clients \ {d} /\ excluded' = excluded \ {d}
        /\ pc' = [pc EXCEPT ![t] = "call_disconnected"]
        /\ UNCHANGED <<pending, taken, cur>>
    BY <1>10, <2>0, <2>1 DEF RemoveClient, Erase, Contents, Goto
  <2>3. CASE c = d
    <3>1. Departing(t, c)'
      BY <1>0, <2>0, <2>2, <2>3 DEF Departing
    <3>2. Stage(c) = "held" /\ Stage(c)' = "removed"
      BY <2>1, <2>2, <2>3, <3>1 DEF Stage, OwnedInv, Ownership, Unborn, Contents
    <3>3. Holders(c) = {t}
      BY <2>1, <2>3, SoleHolder
    <3>4. Holders(c)' = {t}
      <4>1. \A s \in Threads : Departing(s, c)' => c \in taken'[s]
        BY DEF Departing, OwnedInv, InHand
      <4>2. \A s \in Threads : c \in taken'[s] => s = t
        BY <2>1, <2>2, <2>3 DEF OwnedInv, Ownership
      <4> QED
        BY <2>2, <2>3, <3>1, <4>1, <4>2 DEF Holders
    <3> QED
      BY <3>2, <3>3, <3>4 DEF LifeStep, Lifecycle!Next, Lifecycle!Remove
  <2>4. CASE c # d
    <3>1. \A s \in Threads : Departing(s, c)' <=> Departing(s, c)
      BY <1>0, <2>0, <2>2, <2>4 DEF Departing
    <3> QED
      BY <2>2, <2>4, <3>1 DEF LifeStep, Stage, Holders
  <2> QED
    BY <2>3, <2>4
<1>11. CASE CallDisconnected(t)
  <2>0. PICK d \in Comms : d = cur[t]
    BY <1>11 DEF CallDisconnected, OwnedInv, Typed, CurOK, Working
  <2>1. /\ pc[t] = "call_disconnected"
        /\ UNCHANGED <<clients, excluded, pending, taken>>
        /\ pc' = [pc EXCEPT ![t] = "take_out"] /\ cur' = [cur EXCEPT ![t] = NoComm]
    BY <1>11 DEF CallDisconnected, Goto
  <2>2. d \in taken[t] /\ d \notin excluded
    BY <2>0, <2>1 DEF OwnedInv, InHand
  <2>3. CASE c = d
    <3>1. Departing(t, c)
      BY <2>0, <2>1, <2>3 DEF Departing
    <3>2. Holders(c) = {t}
      BY <2>2, <2>3, <3>1, SoleHolder
    <3>3. \A s \in Threads : ~ Departing(s, c)'
      <4>1. \A s \in Threads : s # t /\ Departing(s, c)' => Departing(s, c)
        BY <1>0, <2>1 DEF Departing
      <4>2. \A s \in Threads : Departing(s, c) => s = t
        BY <2>2, <2>3, <3>2 DEF Holders
      <4>3. ~ Departing(t, c)'
        BY <1>0, <2>1 DEF Departing
      <4> QED
        BY <4>1, <4>2, <4>3
    <3>4. Stage(c) = "removed" /\ Stage(c)' = "gone"
      BY <2>1, <2>2, <2>3, <3>1, <3>3
      DEF Stage, OwnedInv, Ownership, Unborn, Contents
    <3>5. Holders(c)' = {}
      BY <2>1, <2>2, <2>3, <3>3 DEF Holders
    <3> QED
      BY <3>2, <3>4, <3>5 DEF LifeStep, Lifecycle!Next, Lifecycle!Farewell
  <2>4. CASE c # d
    <3>1. \A s \in Threads : Departing(s, c)' <=> Departing(s, c)
      BY <1>0, <2>0, <2>1, <2>4 DEF Departing
    <3> QED
      BY <2>1, <3>1 DEF LifeStep, Stage, Holders
  <2> QED
    BY <2>3, <2>4
<1>12. CASE MarkConnected(t)
  BY <1>0, <1>12, QuietLife DEF MarkConnected
<1> QED
  BY <1>1, <1>2, <1>3, <1>4, <1>5, <1>6, <1>7, <1>8, <1>9, <1>10, <1>11, <1>12
  DEF Work

LEMMA NextLife ==
  ASSUME OwnedInv, OwnedInv', NEW c \in Comms, [Next]_vars
  PROVE  LifeStep(c)
<1> USE DEF Actors, container, commState
<1>0. TypeOK
  BY DEF OwnedInv, Typed
<1>1. ASSUME NEW a \in Actors, Kick(a)
      PROVE  LifeStep(c)
  BY <1>0, <1>1, QuietLife DEF Kick, CanKick, PostKick, Resume
<1>2. ASSUME NEW t \in Threads, Dispatch(t)
      PROVE  LifeStep(c)
  <2>1. CASE TimerHandler(t) \/ KickHandler(t)
    BY <1>0, <2>1, QuietLife DEF TimerHandler, KickHandler
  <2>2. ASSUME NEW d \in Comms, AcceptHandler(t, d)
        PROVE  LifeStep(c)
    <3>1. /\ d \in pending /\ pending' = pending \ {d}
          /\ clients' = clients \cup ({d} \ excluded)
          /\ UNCHANGED <<excluded, taken>>
          /\ pc[t] = "idle" /\ pc' = [pc EXCEPT ![t] = "mark"]
          /\ cur' = [cur EXCEPT ![t] = d]
      BY <2>2 DEF AcceptHandler, Insert, Goto
    <3>2. \A s \in Threads : Departing(s, c)' <=> Departing(s, c)
      BY <1>0, <3>1 DEF Departing, TypeOK
    <3>3. CASE c = d
      <4>1. \A s \in Threads : Departing(s, c) => c \in taken[s]
        BY DEF Departing, OwnedInv, InHand
      <4>2. c \notin excluded /\ \A s \in Threads : c \notin taken[s]
        BY <3>1, <3>3 DEF OwnedInv, Unborn, Contents
      <4>3. UNCHANGED Holders(c)
        BY <3>1, <3>2, <4>2 DEF Holders
      <4>4. Stage(c) = "absent" /\ Stage(c)' = "listed"
        BY <3>1, <3>3, <4>2 DEF Stage
      <4> QED
        BY <4>3, <4>4 DEF LifeStep, Lifecycle!Next, Lifecycle!Enter
    <3>4. CASE c # d
      BY <3>1, <3>2, <3>4 DEF LifeStep, Stage, Holders
    <3> QED
      BY <3>3, <3>4
  <2>3. ASSUME NEW d \in Comms, ReadHandler(t, d)
        PROVE  LifeStep(c)
    BY <1>0, <2>3, QuietLife DEF ReadHandler
  <2>4. ASSUME NEW d \in Comms, WriteHandler(t, d)
        PROVE  LifeStep(c)
    BY <1>0, <2>4, QuietLife DEF WriteHandler, LifeStep, Stage, Holders, Departing
  <2> QED
    BY <1>2, <2>1, <2>2, <2>3, <2>4 DEF Dispatch
<1>3. ASSUME NEW u \in Users, Call(u)
      PROVE  LifeStep(c)
  BY <1>0, <1>3, QuietLife DEF Call, SendOne, DisconnectOne, DisconnectAll, Disconnect
<1>4. ASSUME NEW d \in Comms, CompleteRead(d)
      PROVE  LifeStep(c)
  BY <1>4 DEF CompleteRead, LifeStep, Stage, Holders, Departing
<1>5. CASE UNCHANGED vars
  BY <1>5 DEF vars, LifeStep, Stage, Holders, Departing
<1> QED
  BY <1>1, <1>2, <1>3, <1>4, <1>5, WorkLife DEF Next

(* Every behaviour of the dispatcher is one of ConnLifecycle for each of   *)
(* its communicators.                                                      *)
THEOREM DispatcherImplementsLifecycle == Spec => ImplementsLifecycle
<1>1. Init => \A c \in Comms : Lifecycle(c)!Init
  BY InitLifecycle
<1>2. OwnedInv /\ OwnedInv' /\ [Next]_vars =>
        [\A c \in Comms : UNCHANGED <<Stage(c), Holders(c)>> \/ Lifecycle(c)!Next]_vars
  BY NextLife DEF LifeStep
<1> QED
  BY <1>1, <1>2, AlwaysOwned, PTL DEF Spec, ImplementsLifecycle
============================================================================
