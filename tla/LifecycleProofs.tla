-------------------------- MODULE LifecycleProofs --------------------------
(***************************************************************************)
(* Proofs about the life of a dispatcher, for any threads, communicators   *)
(* and plans: the io_service outlives the threads that run it, a server    *)
(* keeps exactly one accept, a session is told or dropped by stop(), and   *)
(* connect errors are reported.                                            *)
(***************************************************************************)
EXTENDS Lifecycle, FiniteSetTheorems, TLAPS

USE LifecycleAssumption

----------------------------------------------------------------------------
(* Types.  The run count is what Counted says; a kick handler that is      *)
(* posted is counted.                                                      *)

Inside == {t \in Threads : tpc[t] # "out"}

Counted == runCount = Cardinality(Inside)

Typed == TypeOK /\ kicks <= kickCount

LEMMA InsideFinite == IsFiniteSet(Inside) /\ Cardinality(Inside) \in Nat
  BY FS_Subset, FS_CardinalityType DEF Inside

LEMMA InitTyped == Init => Typed /\ Counted
<1> SUFFICES ASSUME Init PROVE Typed /\ Counted
  OBVIOUS
<1>1. Inside = {}
  BY DEF Init, Inside
<1>2. Counted
  BY <1>1, FS_EmptySet DEF Init, Counted
<1>3. acceptor \in {"none", "closed", "open"}
  BY DEF Init
<1>4. Typed
  <2>1. working \in BOOLEAN /\ plan \in Plans
    BY DEF Init
  <2>2. /\ tpc \in [Threads -> HandlerPCs \cup {"out", "loop", "run"}]
        /\ tcur \in [Threads -> Comms \cup {NoComm}]
        /\ told \in [Comms -> Nat] /\ reported \in [Comms -> Nat]
        /\ errors \in Seq(Comms)
    BY DEF Init
  <2> QED
    BY <1>3, <2>1, <2>2 DEF Init, Typed, TypeOK
<1> QED
  BY <1>2, <1>4

(* A thread that goes from one place inside run() to another.              *)
LEMMA StayInside ==
  ASSUME TypeOK, NEW t \in Threads, NEW label, tpc[t] # "out", label # "out",
         Goto(t, label)
  PROVE  Inside' = Inside
  BY DEF TypeOK, Goto, Inside

LEMMA CountedStep ==
  ASSUME Typed, Counted, Next
  PROVE  Counted'
<1> USE DEF poolVars, Counted
<1>1. CASE tpc' = tpc /\ runCount' = runCount
  BY <1>1 DEF Inside
<1>2. ASSUME NEW t \in Threads, NEW label \in HandlerPCs \cup {"loop", "run"},
             tpc[t] # "out", Goto(t, label), runCount' = runCount
      PROVE  Counted'
  BY <1>2, StayInside DEF HandlerPCs, Typed
<1>3. ASSUME NEW t \in Threads, EnterRun(t)
      PROVE  Counted'
  <2>1. Inside' = Inside \cup {t} /\ t \notin Inside
    BY <1>3 DEF EnterRun, Goto, Inside, Typed, TypeOK
  <2> QED
    BY <1>3, <2>1, InsideFinite, FS_AddElement DEF EnterRun
<1>4. ASSUME NEW t \in Threads, LeaveRun(t)
      PROVE  Counted'
  <2>1. Inside' = Inside \ {t} /\ t \in Inside
    BY <1>4 DEF LeaveRun, Goto, Inside, Typed, TypeOK
  <2> QED
    BY <1>4, <2>1, InsideFinite, FS_RemoveElement DEF LeaveRun
<1>5. ASSUME NEW t \in Threads, Work(t), ~LeaveRun(t)
      PROVE  Counted'
  <2> USE DEF HandlerPCs
  <2>1. CASE RunService(t)
    BY <1>2, <2>1 DEF RunService
  <2>2. CASE ServiceReturns(t)
    BY <1>2, <2>2 DEF ServiceReturns
  <2>3. CASE StartAccept(t)
    BY <1>2, <2>3 DEF StartAccept
  <2>4. CASE TakeError(t)
    BY <1>2, <2>4 DEF TakeError
  <2>5. CASE ReportError(t)
    BY <1>2, <2>5 DEF ReportError
  <2>6. CASE NoErrors(t)
    BY <1>2, <2>6 DEF NoErrors
  <2>7. ASSUME NEW c \in Comms, ServeFresh(t, c)
        PROVE  Counted'
    BY <1>1, <2>7 DEF ServeFresh
  <2>8. ASSUME NEW c \in Comms, RemoveFailed(t, c)
        PROVE  Counted'
    BY <1>2, <2>8 DEF RemoveFailed
  <2>9. CASE CallDisconnected(t)
    BY <1>2, <2>9 DEF CallDisconnected
  <2>10. CASE EndWalk(t)
    BY <1>2, <2>10 DEF EndWalk
  <2> QED
    BY <1>5, <2>1, <2>2, <2>3, <2>4, <2>5, <2>6, <2>7, <2>8, <2>9, <2>10 DEF Work
<1>6. ASSUME NEW t \in Threads, Dispatch(t)
      PROVE  Counted'
  <2> USE DEF HandlerPCs, Ready
  <2>1. CASE TimerHandler(t)
    BY <1>1, <2>1 DEF TimerHandler
  <2>2. CASE KickHandler(t)
    BY <1>2, <2>2 DEF KickHandler
  <2>3. CASE AcceptFailed(t)
    BY <1>1, <2>3 DEF AcceptFailed
  <2>4. ASSUME NEW c \in Comms,
               ReadFailed(t, c) \/ Connected(t, c) \/ ConnectFailed(t, c)
        PROVE  Counted'
    BY <1>1, <2>4 DEF ReadFailed, Connected, ConnectFailed
  <2>5. ASSUME NEW c \in Comms, AcceptHandler(t, c)
        PROVE  Counted'
    BY <1>2, <2>5 DEF AcceptHandler
  <2> QED
    BY <1>6, <2>1, <2>2, <2>3, <2>4, <2>5 DEF Dispatch
<1>7. CASE Peers \/ Control
  <2>1. tpc' = tpc /\ runCount' = runCount
    BY <1>7 DEF Peers, PeerConnects, PeerLeaves, Control, Start, Connect, Stop, Stopping,
       CloseAcceptor, DestroyAcceptor, DisconnectAll, WaitClients, StopService, Finalize,
       Finalized, GiveUp, Reset
  <2> QED
    BY <1>1, <2>1
<1> QED
  BY <1>3, <1>4, <1>5, <1>6, <1>7 DEF Next

LEMMA KickTyped ==
  ASSUME Typed, Kick
  PROVE  kickCount' \in Nat /\ kicks' \in Nat /\ kicks' <= kickCount'
  BY DEF Typed, TypeOK, Kick

LEMMA WorkTyped ==
  ASSUME Typed, Counted, NEW t \in Threads, Work(t)
  PROVE  Typed'
<1> USE DEF Typed, TypeOK, HandlerPCs, Goto, poolVars, acceptVars, connVars, errorVars
<1>1. CASE RunService(t)
  BY <1>1 DEF RunService
<1>2. CASE LeaveRun(t)
  <2>1. runCount' \in Nat
    <3>1. t \in Inside /\ Cardinality(Inside \ {t}) = runCount - 1
      BY <1>2, InsideFinite, FS_RemoveElement DEF LeaveRun, Counted, Inside
    <3>2. Cardinality(Inside \ {t}) \in Nat
      BY InsideFinite, FS_RemoveElement, FS_CardinalityType
    <3> QED
      BY <1>2, <3>1, <3>2 DEF LeaveRun
  <2> QED
    BY <1>2, <2>1 DEF LeaveRun
<1>3. CASE ServiceReturns(t)
  BY <1>3 DEF ServiceReturns
<1>4. CASE StartAccept(t)
  BY <1>4 DEF StartAccept
<1>5. CASE TakeError(t)
  BY <1>5 DEF TakeError
<1>6. CASE ReportError(t)
  <2>1. errors' \in Seq(Comms) /\ broken' \in {"no", "acceptor", "errors"}
    <3>1. CASE errors = <<>>
      BY <1>6, <3>1 DEF ReportError
    <3>2. CASE errors # <<>>
      <4>1. errors' = Tail(errors) /\ broken' = broken
        BY <1>6, <3>2 DEF ReportError
      <4> QED
        BY <3>2, <4>1
    <3> QED
      BY <3>1, <3>2
  <2>2. reported' \in [Comms -> Nat]
    <3>1. reported' = [reported EXCEPT ![tcur[t]] = @ + 1]
      BY <1>6 DEF ReportError
    <3>2. CASE tcur[t] \in Comms
      BY <3>1, <3>2
    <3>3. CASE tcur[t] \notin Comms
      BY <3>1, <3>3
    <3> QED
      BY <3>2, <3>3
  <2>3. tpc' \in [Threads -> HandlerPCs \cup {"out", "loop", "run"}]
    BY <1>6 DEF ReportError
  <2>4. tcur' \in [Threads -> Comms \cup {NoComm}]
    BY <1>6 DEF ReportError
  <2> QED
    BY <1>6, <2>1, <2>2, <2>3, <2>4 DEF ReportError
<1>7. CASE NoErrors(t)
  BY <1>7 DEF NoErrors
<1>8. ASSUME NEW c \in Comms, ServeFresh(t, c)
      PROVE  Typed'
  BY <1>8 DEF ServeFresh
<1>9. ASSUME NEW c \in Comms, RemoveFailed(t, c)
      PROVE  Typed'
  BY <1>9 DEF RemoveFailed
<1>10. CASE CallDisconnected(t)
  <2>1. told' \in [Comms -> Nat]
    <3>1. told' = [told EXCEPT ![tcur[t]] = IF tcur[t] \in sessions THEN @ + 1 ELSE @]
      BY <1>10 DEF CallDisconnected
    <3>2. CASE tcur[t] \in Comms
      BY <3>1, <3>2
    <3>3. CASE tcur[t] \notin Comms
      BY <3>1, <3>3
    <3> QED
      BY <3>2, <3>3
  <2> QED
    BY <1>10, <2>1 DEF CallDisconnected
<1>11. CASE EndWalk(t)
  BY <1>11 DEF EndWalk
<1> QED
  BY <1>1, <1>2, <1>3, <1>4, <1>5, <1>6, <1>7, <1>8, <1>9, <1>10, <1>11 DEF Work

LEMMA DispatchTyped ==
  ASSUME Typed, NEW t \in Threads, Dispatch(t)
  PROVE  Typed'
<1> USE DEF Typed, TypeOK, HandlerPCs, Goto, Ready, poolVars, acceptVars, connVars, errorVars
<1>1. CASE TimerHandler(t)
  BY <1>1, KickTyped DEF TimerHandler
<1>2. CASE KickHandler(t)
  BY <1>2 DEF KickHandler
<1>3. CASE AcceptFailed(t)
  BY <1>3 DEF AcceptFailed
<1>4. ASSUME NEW c \in Comms, ReadFailed(t, c)
      PROVE  Typed'
  BY <1>4, KickTyped DEF ReadFailed
<1>5. ASSUME NEW c \in Comms, AcceptHandler(t, c)
      PROVE  Typed'
  BY <1>5, KickTyped DEF AcceptHandler
<1>6. ASSUME NEW c \in Comms, Connected(t, c)
      PROVE  Typed'
  BY <1>6, KickTyped DEF Connected
<1>7. ASSUME NEW c \in Comms, ConnectFailed(t, c)
      PROVE  Typed'
  <2>1. errors' \in Seq(Comms)
    BY <1>7 DEF ConnectFailed
  <2> QED
    BY <1>7, <2>1, KickTyped DEF ConnectFailed
<1> QED
  BY <1>1, <1>2, <1>3, <1>4, <1>5, <1>6, <1>7 DEF Dispatch

LEMMA ControlTyped ==
  ASSUME Typed, Peers \/ Control
  PROVE  Typed'
<1> USE DEF Typed, TypeOK, poolVars, acceptVars, connVars, errorVars
<1>1. CASE Peers
  <2>1. CASE PeerConnects
    BY <2>1 DEF PeerConnects
  <2>2. ASSUME NEW c \in Comms, PeerLeaves(c)
        PROVE  Typed'
    BY <2>2 DEF PeerLeaves
  <2> QED
    BY <1>1, <2>1, <2>2 DEF Peers
<1>2. CASE Start \/ (\E c \in Comms : Connect(c)) \/ Stop
  <2>1. CASE Start
    BY <2>1 DEF Start
  <2>2. ASSUME NEW c \in Comms, Connect(c)
        PROVE  Typed'
    BY <2>2 DEF Connect
  <2>3. CASE Stop
    BY <2>3 DEF Stop
  <2> QED
    BY <1>2, <2>1, <2>2, <2>3
<1>3. CASE Stopping
  <2>1. CASE CloseAcceptor \/ DestroyAcceptor
    BY <2>1 DEF CloseAcceptor, DestroyAcceptor, Aborted
  <2>2. CASE DisconnectAll
    BY <2>2 DEF DisconnectAll, Listed
  <2>3. CASE WaitClients
    BY <2>3 DEF WaitClients
  <2>5. CASE StopService \/ GiveUp
    BY <2>5, ZenonT(30) DEF StopService, GiveUp
  <2>4. CASE Finalize
    BY <2>4 DEF Finalize, Finalized
  <2> QED
    BY <1>3, <2>1, <2>2, <2>3, <2>4, <2>5 DEF Stopping
<1>4. CASE Reset
  BY <1>4 DEF Reset
<1> QED
  BY <1>1, <1>2, <1>3, <1>4 DEF Control, Next

LEMMA EnterTyped ==
  ASSUME Typed, NEW t \in Threads, EnterRun(t)
  PROVE  Typed'
  BY DEF Typed, TypeOK, EnterRun, Goto, acceptVars, connVars, errorVars

LEMMA TypedStep ==
  ASSUME Typed, Counted, [Next]_vars
  PROVE  Typed' /\ Counted'
<1>1. CASE Next
  BY <1>1, CountedStep, WorkTyped, DispatchTyped, ControlTyped, EnterTyped DEF Next
<1>2. CASE UNCHANGED vars
  BY <1>2 DEF vars, poolVars, acceptVars, connVars, errorVars, Typed, TypeOK, Counted, Inside
<1> QED
  BY <1>1, <1>2

----------------------------------------------------------------------------
(* The io_service is gone only while everything is stopped, and then no    *)
(* thread is inside it.                                                    *)

Phases ==
    /\ working <=> ctl \in {"constructed", "up"}
    /\ service = "none" <=> ctl = "stopped"
    /\ service = "none" => \A t \in Threads : tpc[t] \in {"out", "loop"}

(* A run count of zero means that every thread is out.                     *)
LEMMA NobodyInside ==
  ASSUME Counted, runCount = 0
  PROVE  \A t \in Threads : tpc[t] = "out"
<1>1. Inside = {}
  BY InsideFinite, FS_EmptySet DEF Counted
<1> QED
  BY <1>1 DEF Inside

LEMMA PhasesStep ==
  ASSUME Typed, Counted, Phases, [Next]_vars
  PROVE  Phases'
<1> USE DEF Phases, Typed, TypeOK, Goto, Ready
<1>1. ASSUME NEW t \in Threads, EnterRun(t) \/ Dispatch(t)
      PROVE  Phases'
  <2>1. UNCHANGED <<working, ctl, service>>
    <3>1. CASE EnterRun(t) \/ TimerHandler(t) \/ KickHandler(t) \/ AcceptFailed(t)
      BY <3>1 DEF EnterRun, TimerHandler, KickHandler, AcceptFailed, poolVars
    <3>2. ASSUME NEW c \in Comms, \/ ReadFailed(t, c) \/ AcceptHandler(t, c)
                                  \/ Connected(t, c) \/ ConnectFailed(t, c)
          PROVE  UNCHANGED <<working, ctl, service>>
      BY <3>2 DEF ReadFailed, AcceptHandler, Connected, ConnectFailed
    <3> QED
      BY <1>1, <3>1, <3>2 DEF Dispatch
  <2>2. CASE service # "none"
    BY <2>1, <2>2
  <2>3. CASE EnterRun(t)
    BY <2>1, <2>3 DEF EnterRun
  <2>4. CASE Dispatch(t)
    <3>1. service # "none"
      BY <2>4 DEF Dispatch, TimerHandler, KickHandler, AcceptFailed, ReadFailed,
         AcceptHandler, Connected, ConnectFailed
    <3> QED
      BY <2>2, <3>1
  <2> QED
    BY <1>1, <2>3, <2>4
<1>2. ASSUME NEW t \in Threads, Work(t)
      PROVE  Phases'
  <2>1. UNCHANGED <<working, ctl, service>>
    BY <1>2 DEF Work, RunService, LeaveRun, ServiceReturns, StartAccept, TakeError, ReportError,
       NoErrors, ServeFresh, RemoveFailed, CallDisconnected, EndWalk, poolVars
  <2>2. CASE service # "none"
    BY <2>1, <2>2
  <2>3. CASE service = "none"
    <3>1. LeaveRun(t)
      BY <1>2, <2>3 DEF Work, RunService, ServiceReturns, StartAccept, TakeError, ReportError,
         NoErrors, ServeFresh, RemoveFailed, CallDisconnected, EndWalk
    <3> QED
      BY <2>1, <3>1 DEF LeaveRun
  <2> QED
    BY <2>2, <2>3
<1>3. CASE Peers
  BY <1>3 DEF Peers, PeerConnects, PeerLeaves, poolVars
<1>4. CASE Start \/ (\E c \in Comms : Connect(c)) \/ Stop \/ Reset
  BY <1>4 DEF Start, Connect, Stop, Reset, poolVars
<1>5. CASE Stopping
  <2>1. CASE Finalize
    BY <2>1, NobodyInside DEF Finalize, Finalized
  <2>2. CASE ~Finalize
    BY <1>5, <2>2 DEF Stopping, CloseAcceptor, DestroyAcceptor, DisconnectAll, WaitClients,
       StopService, GiveUp
  <2> QED
    BY <2>1, <2>2
<1>6. CASE UNCHANGED vars
  BY <1>6 DEF vars, poolVars
<1> QED
  BY <1>1, <1>2, <1>3, <1>4, <1>5, <1>6 DEF Next, Control

Inv == Typed /\ Counted /\ Phases

LEMMA InitInv == Init => Inv
  BY InitTyped DEF Init, Inv, Phases

LEMMA InvStep == Inv /\ [Next]_vars => Inv'
  BY TypedStep, PhasesStep DEF Inv

LEMMA Invariance == Spec => []Inv
  BY InitInv, InvStep, PTL DEF Spec

(* The state keeps its type: neither count goes below zero.                *)
THEOREM TypeCorrect == Spec => []TypeOK
<1>1. Inv => TypeOK
  BY DEF Inv, Typed
<1> QED
  BY <1>1, Invariance, PTL

(* finalize() destroys the io_service only when no thread is inside run(). *)
THEOREM ServiceOutlivesThreads == Spec => []ServiceAlive
<1>1. Inv => ServiceAlive
  BY DEF Inv, Phases, ServiceAlive, HandlerPCs, Counted, Inside
<1> QED
  BY <1>1, Invariance, PTL

----------------------------------------------------------------------------
(* The accept of a server.                                                 *)

Accepted == {t \in Threads : tpc[t] = "accepted"}

OneAcceptor ==
    plan.role = "server" =>
        /\ ctl \in {"constructed", "stopped"} => accepting = "none"
        /\ ctl = "constructed" => acceptor = "closed" /\ Accepted = {}
        /\ ctl = "up" =>
              /\ acceptor = "open"
              /\ accepting = "none" => \E t \in Threads : Accepted = {t}
              /\ accepting # "none" => Accepted = {}

(* A step that leaves the acceptor and the threads in that handler alone.  *)
LEMMA AcceptUntouched ==
  ASSUME OneAcceptor, Accepted' = Accepted, UNCHANGED <<plan, ctl, acceptor, accepting>>
  PROVE  OneAcceptor'
  BY DEF OneAcceptor

LEMMA OneAcceptorStep ==
  ASSUME Inv, OneAcceptor, [Next]_vars
  PROVE  OneAcceptor'
<1> USE DEF Inv, Typed, TypeOK, Goto, poolVars, acceptVars
<1>1. ASSUME NEW t \in Threads, StartAccept(t)
      PROVE  OneAcceptor'
  <2>1. Accepted' = Accepted \ {t} /\ t \in Accepted
    BY <1>1 DEF StartAccept, Accepted
  <2>2. ctl # "constructed" \/ plan.role # "server"
    BY <2>1 DEF OneAcceptor
  <2>3. ctl # "stopped"
    BY <2>1 DEF Phases, Accepted
  <2>4. UNCHANGED <<plan, ctl>>
    BY <1>1 DEF StartAccept
  <2>5. CASE ctl = "up" /\ plan.role = "server"
    <3>1. accepting = "none" /\ acceptor = "open" /\ Accepted = {t}
      BY <2>1, <2>5 DEF OneAcceptor
    <3>2. acceptor' = "open" /\ accepting' = "pending"
      BY <1>1, <3>1 DEF StartAccept
    <3> QED
      BY <2>1, <2>4, <2>5, <3>1, <3>2 DEF OneAcceptor
  <2> QED
    BY <2>2, <2>3, <2>4, <2>5 DEF OneAcceptor
<1>2. ASSUME NEW t \in Threads, Work(t), ~StartAccept(t)
      PROVE  OneAcceptor'
  <2>1. UNCHANGED <<plan, ctl, acceptor, accepting>>
    BY <1>2 DEF Work, RunService, LeaveRun, ServiceReturns, TakeError, ReportError,
       NoErrors, ServeFresh, RemoveFailed, CallDisconnected, EndWalk
  <2>2. Accepted' = Accepted
    BY <1>2 DEF Work, RunService, LeaveRun, ServiceReturns, TakeError, ReportError,
       NoErrors, ServeFresh, RemoveFailed, CallDisconnected, EndWalk, Accepted
  <2> QED
    BY <2>1, <2>2, AcceptUntouched
<1>3. ASSUME NEW t \in Threads, NEW c \in Comms, AcceptHandler(t, c)
      PROVE  OneAcceptor'
  <2>1. Accepted' = Accepted \cup {t}
    BY <1>3 DEF AcceptHandler, Accepted
  <2>2. accepting = "done" /\ accepting' = "none" /\ UNCHANGED <<plan, ctl, acceptor>>
    BY <1>3 DEF AcceptHandler
  <2> QED
    BY <2>1, <2>2 DEF OneAcceptor
<1>4. ASSUME NEW t \in Threads, AcceptFailed(t)
      PROVE  OneAcceptor'
  BY <1>4 DEF AcceptFailed, OneAcceptor, Accepted
<1>5. ASSUME NEW t \in Threads,
             \/ EnterRun(t) \/ TimerHandler(t) \/ KickHandler(t)
             \/ \E c \in Comms : ReadFailed(t, c) \/ Connected(t, c) \/ ConnectFailed(t, c)
      PROVE  OneAcceptor'
  <2>1. UNCHANGED <<plan, ctl, acceptor, accepting>>
    BY <1>5 DEF EnterRun, TimerHandler, KickHandler, ReadFailed, Connected, ConnectFailed
  <2>2. Accepted' = Accepted
    BY <1>5 DEF EnterRun, TimerHandler, KickHandler, ReadFailed, Connected, ConnectFailed,
       Ready, Accepted
  <2> QED
    BY <2>1, <2>2, AcceptUntouched
<1>6. CASE Peers \/ \E c \in Comms : Connect(c)
  <2>1. Accepted' = Accepted /\ UNCHANGED <<plan, ctl, acceptor>>
    BY <1>6 DEF Peers, PeerConnects, PeerLeaves, Connect, Accepted
  <2>2. CASE PeerConnects
    <3>1. accepting = "pending" /\ accepting' \in {"done", "error"}
      BY <2>2 DEF PeerConnects
    <3> QED
      BY <2>1, <3>1 DEF OneAcceptor
  <2>3. CASE ~PeerConnects
    <3>1. accepting' = accepting
      BY <1>6, <2>3 DEF Peers, PeerLeaves, Connect
    <3> QED
      BY <2>1, <3>1, AcceptUntouched
  <2> QED
    BY <2>2, <2>3
<1>7. CASE Start
  BY <1>7 DEF Start, OneAcceptor, Accepted
<1>8. CASE Stop \/ Stopping
  BY <1>8 DEF Stop, Stopping, CloseAcceptor, DestroyAcceptor, DisconnectAll, WaitClients,
     StopService, Finalize, Finalized, GiveUp, OneAcceptor
<1>9. CASE Reset
  <2>1. ctl = "stopped" /\ ctl' = "constructed" /\ UNCHANGED <<plan, accepting>>
    BY <1>9 DEF Reset
  <2>2. Accepted' = {}
    BY <1>9 DEF Reset, Accepted
  <2>3. plan.role = "server" => acceptor' = "closed"
    BY <1>9 DEF Reset
  <2> QED
    BY <2>1, <2>2, <2>3 DEF OneAcceptor
<1>10. CASE UNCHANGED vars
  BY <1>10 DEF vars, OneAcceptor, Accepted
<1> QED
  BY <1>1, <1>2, <1>3, <1>4, <1>5, <1>6, <1>7, <1>8, <1>9, <1>10 DEF Next, Control, Dispatch

(* A server that met no error of accept goes on accepting, one connection  *)
(* at a time.                                                              *)
THEOREM AcceptsOneAtATime == Spec => []OneAccept
<1>1. Init => OneAcceptor
  BY DEF Init, OneAcceptor, Accepted
<1>2. Inv /\ OneAcceptor /\ [Next]_vars => OneAcceptor'
  BY OneAcceptorStep
<1>3. OneAcceptor => OneAccept
  BY FS_Singleton DEF OneAcceptor, OneAccept, Accepted
<1> QED
  BY <1>1, <1>2, <1>3, Invariance, PTL DEF Spec

----------------------------------------------------------------------------
(* What becomes of the clients, those included that are there when stop()  *)
(* is called.                                                              *)

(* Threads about to call a disconnected handler, one for each communicator *)
(* that was erased and not told yet.                                       *)
Farewells ==
    /\ \A t \in Threads : tpc[t] = "farewell" =>
          tcur[t] \in Comms /\ conn[tcur[t]] = "removed"
    /\ \A t, u \in Threads :
          tpc[t] = "farewell" /\ tpc[u] = "farewell" /\ tcur[t] = tcur[u] => t = u
    /\ \A c \in Comms : conn[c] = "removed" =>
          \E t \in Threads : tpc[t] = "farewell" /\ tcur[t] = c

ToldRight ==
    \A c \in Comms :
        told[c] = IF conn[c] = "gone" /\ c \in sessions THEN 1 ELSE 0

(* When stop() has finalized nobody is connected, half-way or not.         *)
Halted == ctl = "stopped" =>
    \A c \in Comms : conn[c] \in {"none", "gone", "dropped", "refused", "forgotten"}

(* Errors that wait to be reported are of refused connections.             *)
ErrorsRefused == \A i \in DOMAIN errors : conn[errors[i]] = "refused"

Tells == Farewells /\ ToldRight /\ Halted /\ ErrorsRefused

(* A step that changes the life of no communicator.                        *)
LEMMA LivesUntouched ==
  ASSUME Inv, Tells,
         UNCHANGED <<conn, closed, sessions, told, errors, ctl>>,
         \A t \in Threads : tpc'[t] = "farewell" <=> tpc[t] = "farewell",
         \A t \in Threads : tpc[t] = "farewell" => tcur'[t] = tcur[t]
  PROVE  Tells'
<1>1. Farewells'
  BY DEF Tells, Farewells
<1>2. ToldRight' /\ Halted' /\ ErrorsRefused'
  BY DEF Tells, ToldRight, Halted, ErrorsRefused, Listed
<1> QED
  BY <1>1, <1>2 DEF Tells

(* A step that takes one communicator on, neither removing it nor telling. *)
LEMMA LifeGoesOn ==
  ASSUME Inv, Tells, NEW c \in Comms, NEW state,
         conn' = [conn EXCEPT ![c] = state],
         conn[c] \in {"none", "wired", "fresh", "up", "lost"},
         state \in {"wired", "fresh", "up", "lost", "failed", "refused"},
         ctl # "stopped",
         sessions' \in {sessions, sessions \cup {c}},
         UNCHANGED <<closed, told, ctl>>,
         \/ errors' = errors
         \/ errors' = Append(errors, c) /\ state = "refused",
         \A t \in Threads : tpc'[t] = "farewell" <=> tpc[t] = "farewell",
         \A t \in Threads : tpc[t] = "farewell" => tcur'[t] = tcur[t]
  PROVE  Tells'
<1> USE DEF Inv, Typed, TypeOK
<1>1. Farewells'
  <2>1. \A t \in Threads : tpc[t] = "farewell" =>
           tcur'[t] = tcur[t] /\ tcur[t] # c /\ conn'[tcur[t]] = "removed" /\ tcur[t] \in Comms
    BY DEF Tells, Farewells
  <2>2. \A d \in Comms : conn'[d] = "removed" => conn[d] = "removed"
    OBVIOUS
  <2>3. \A d \in Comms : conn'[d] = "removed" =>
           \E t \in Threads : tpc'[t] = "farewell" /\ tcur'[t] = d
    <3> TAKE d \in Comms
    <3> HAVE conn'[d] = "removed"
    <3>1. PICK t \in Threads : tpc[t] = "farewell" /\ tcur[t] = d
      BY <2>2 DEF Tells, Farewells
    <3> QED
      BY <2>1, <3>1
  <2>4. \A t, u \in Threads :
           tpc'[t] = "farewell" /\ tpc'[u] = "farewell" /\ tcur'[t] = tcur'[u] => t = u
    BY <2>1 DEF Tells, Farewells
  <2> QED
    BY <2>1, <2>3, <2>4 DEF Farewells
<1>2. ToldRight'
  BY DEF Tells, ToldRight
<1>3. Halted'
  BY DEF Halted
<1>4. ErrorsRefused'
  <2>1. \A i \in DOMAIN errors : conn'[errors[i]] = "refused"
    BY DEF Tells, ErrorsRefused
  <2>2. CASE errors' = errors
    BY <2>1, <2>2 DEF ErrorsRefused
  <2>3. CASE errors' = Append(errors, c) /\ state = "refused"
    BY <2>1, <2>3 DEF ErrorsRefused
  <2> QED
    BY <2>2, <2>3
<1> QED
  BY <1>1, <1>2, <1>3, <1>4 DEF Tells

LEMMA WorkTells ==
  ASSUME Inv, Tells, NEW t \in Threads, Work(t)
  PROVE  Tells'
<1> USE DEF Inv, Typed, TypeOK, Goto, poolVars, connVars, errorVars
<1>1. CASE \/ RunService(t) \/ LeaveRun(t) \/ ServiceReturns(t) \/ StartAccept(t)
           \/ TakeError(t) \/ NoErrors(t) \/ EndWalk(t)
  <2>1. UNCHANGED <<conn, closed, sessions, told, errors, ctl>>
    BY <1>1 DEF RunService, LeaveRun, ServiceReturns, StartAccept, TakeError, NoErrors, EndWalk
  <2>2. \A u \in Threads : tpc'[u] = "farewell" <=> tpc[u] = "farewell"
    BY <1>1 DEF RunService, LeaveRun, ServiceReturns, StartAccept, TakeError, NoErrors, EndWalk
  <2>3. \A u \in Threads : tpc[u] = "farewell" => tcur'[u] = tcur[u]
    BY <1>1 DEF RunService, LeaveRun, ServiceReturns, StartAccept, TakeError, NoErrors, EndWalk
  <2> QED
    BY <2>1, <2>2, <2>3, LivesUntouched
<1>2. CASE ReportError(t)
  <2>1. UNCHANGED <<conn, closed, sessions, told, ctl>>
    BY <1>2 DEF ReportError
  <2>2. /\ \A u \in Threads : tpc'[u] = "farewell" <=> tpc[u] = "farewell"
        /\ \A u \in Threads : tpc[u] = "farewell" => tcur'[u] = tcur[u]
    BY <1>2 DEF ReportError
  <2>3. Farewells'
    <3>1. \A c \in Comms : conn[c] = "removed" =>
             \E u \in Threads : tpc'[u] = "farewell" /\ tcur'[u] = c
      <4> TAKE c \in Comms
      <4> HAVE conn[c] = "removed"
      <4>1. PICK u \in Threads : tpc[u] = "farewell" /\ tcur[u] = c
        BY DEF Tells, Farewells
      <4>2. tpc'[u] = "farewell" /\ tcur'[u] = c
        BY <2>2, <4>1
      <4> QED
        BY <4>2
    <3>2. \A u \in Threads : tpc'[u] = "farewell" =>
             tcur'[u] \in Comms /\ conn[tcur'[u]] = "removed"
      BY <2>2 DEF Tells, Farewells
    <3>3. \A u, w \in Threads :
             tpc'[u] = "farewell" /\ tpc'[w] = "farewell" /\ tcur'[u] = tcur'[w] => u = w
      BY <2>2 DEF Tells, Farewells
    <3> QED
      BY <2>1, <3>1, <3>2, <3>3 DEF Farewells
  <2>4. ToldRight' /\ Halted'
    BY <2>1 DEF Tells, ToldRight, Halted, Listed
  <2>5. ErrorsRefused'
    <3>1. CASE errors' = errors
      BY <2>1, <3>1 DEF Tells, ErrorsRefused
    <3>2. CASE errors # <<>> /\ errors' = Tail(errors)
      BY <2>1, <3>2 DEF Tells, ErrorsRefused
    <3> QED
      BY <1>2, <3>1, <3>2 DEF ReportError
  <2> QED
    BY <2>3, <2>4, <2>5 DEF Tells
<1>3. ASSUME NEW c \in Comms, ServeFresh(t, c)
      PROVE  Tells'
  <2>1. ctl # "stopped"
    BY <1>3 DEF ServeFresh, Tells, Halted
  <2>2. \E state \in {"up", "lost"} : conn' = [conn EXCEPT ![c] = state]
    BY <1>3 DEF ServeFresh
  <2> QED
    BY <1>3, <2>1, <2>2, LifeGoesOn DEF ServeFresh
<1>4. ASSUME NEW c \in Comms, RemoveFailed(t, c)
      PROVE  Tells'
  <2> USE DEF RemoveFailed
  <2>1. conn[c] = "failed" /\ conn' = [conn EXCEPT ![c] = "removed"]
    BY <1>4
  <2>2. tpc[t] = "walk" /\ tpc' = [tpc EXCEPT ![t] = "farewell"] /\ tcur' = [tcur EXCEPT ![t] = c]
    BY <1>4
  <2>3. UNCHANGED <<closed, sessions, told, errors, ctl>>
    BY <1>4
  <2>4. Farewells'
    <3>1. \A u \in Threads : tpc'[u] = "farewell" =>
             \/ u = t /\ tcur'[u] = c
             \/ u # t /\ tpc[u] = "farewell" /\ tcur'[u] = tcur[u] /\ tcur[u] # c
      BY <2>1, <2>2 DEF Tells, Farewells
    <3>2. \A d \in Comms : conn'[d] = "removed" =>
             \/ d = c
             \/ \E u \in Threads : u # t /\ tpc[u] = "farewell" /\ tcur[u] = d
      BY <2>1, <2>2 DEF Tells, Farewells
    <3> QED
      BY <2>1, <2>2, <3>1, <3>2 DEF Tells, Farewells
  <2>5. ToldRight'
    BY <2>1, <2>3 DEF Tells, ToldRight
  <2>6. Halted'
    BY <2>1, <2>3 DEF Tells, Halted
  <2>7. ErrorsRefused'
    BY <2>1, <2>3 DEF Tells, ErrorsRefused
  <2> QED
    BY <2>4, <2>5, <2>6, <2>7 DEF Tells
<1>5. CASE CallDisconnected(t)
  <2> USE DEF CallDisconnected
  <2> DEFINE c == tcur[t]
  <2>1. c \in Comms /\ conn[c] = "removed" /\ conn' = [conn EXCEPT ![c] = "gone"]
    BY <1>5 DEF Tells, Farewells
  <2>2. tpc[t] = "farewell" /\ tpc' = [tpc EXCEPT ![t] = "walk"]
        /\ tcur' = [tcur EXCEPT ![t] = NoComm]
    BY <1>5
  <2>3. UNCHANGED <<closed, sessions, errors, ctl>>
    BY <1>5
  <2>4. told' = [told EXCEPT ![c] = IF c \in sessions THEN @ + 1 ELSE @]
    BY <1>5
  <2> HIDE DEF c
  <2>5. Farewells'
    <3>1. \A u \in Threads : tpc'[u] = "farewell" =>
             u # t /\ tpc[u] = "farewell" /\ tcur'[u] = tcur[u] /\ tcur[u] # c
      BY <2>1, <2>2 DEF Tells, Farewells, c
    <3>2. \A d \in Comms : conn'[d] = "removed" =>
             d # c /\ \E u \in Threads : u # t /\ tpc[u] = "farewell" /\ tcur[u] = d
      BY <2>1, <2>2 DEF Tells, Farewells, c
    <3> QED
      BY <2>1, <2>2, <3>1, <3>2 DEF Tells, Farewells
  <2>6. ToldRight'
    BY <2>1, <2>3, <2>4 DEF Tells, ToldRight
  <2>7. Halted'
    BY <2>1, <2>3 DEF Tells, Halted
  <2>8. ErrorsRefused'
    BY <2>1, <2>3 DEF Tells, ErrorsRefused
  <2> QED
    BY <2>5, <2>6, <2>7, <2>8 DEF Tells
<1> QED
  BY <1>1, <1>2, <1>3, <1>4, <1>5 DEF Work

(* A step that lets threads and those removed or told alone.               *)
LEMMA RemovedUntouched ==
  ASSUME Tells, UNCHANGED <<tpc, tcur, sessions, told>>,
         \A c \in Comms : \A state \in {"removed", "gone"} :
            conn'[c] = state <=> conn[c] = state
  PROVE  Farewells' /\ ToldRight'
<1>1. Farewells'
  BY DEF Tells, Farewells
<1>2. ToldRight'
  BY DEF Tells, ToldRight
<1> QED
  BY <1>1, <1>2

LEMMA DispatchTells ==
  ASSUME Inv, Tells, NEW t \in Threads, Dispatch(t)
  PROVE  Tells'
<1> USE DEF Inv, Typed, TypeOK, Goto, Ready, poolVars, connVars, errorVars
<1>1. ctl # "stopped"
  BY DEF Dispatch, TimerHandler, KickHandler, AcceptFailed, ReadFailed, AcceptHandler,
     Connected, ConnectFailed, Phases
<1>2. CASE TimerHandler(t) \/ KickHandler(t) \/ AcceptFailed(t)
  <2>1. UNCHANGED <<conn, closed, sessions, told, errors, ctl>>
    BY <1>2 DEF TimerHandler, KickHandler, AcceptFailed
  <2>2. /\ \A u \in Threads : tpc'[u] = "farewell" <=> tpc[u] = "farewell"
        /\ \A u \in Threads : tpc[u] = "farewell" => tcur'[u] = tcur[u]
    BY <1>2 DEF TimerHandler, KickHandler, AcceptFailed
  <2> QED
    BY <2>1, <2>2, LivesUntouched
<1>3. ASSUME NEW c \in Comms, ReadFailed(t, c)
      PROVE  Tells'
  BY <1>1, <1>3, LifeGoesOn DEF ReadFailed
<1>4. ASSUME NEW c \in Comms, AcceptHandler(t, c)
      PROVE  Tells'
  <2>1. /\ \A u \in Threads : tpc'[u] = "farewell" <=> tpc[u] = "farewell"
        /\ \A u \in Threads : tpc[u] = "farewell" => tcur'[u] = tcur[u]
    BY <1>4 DEF AcceptHandler
  <2> QED
    BY <1>1, <1>4, <2>1, LifeGoesOn DEF AcceptHandler
<1>5. ASSUME NEW c \in Comms, Connected(t, c)
      PROVE  Tells'
  BY <1>1, <1>5, LifeGoesOn DEF Connected
<1>6. ASSUME NEW c \in Comms, ConnectFailed(t, c)
      PROVE  Tells'
  BY <1>1, <1>6, LifeGoesOn DEF ConnectFailed
<1> QED
  BY <1>2, <1>3, <1>4, <1>5, <1>6 DEF Dispatch

(* No thread is inside a handler when stop() finalizes.                    *)
LEMMA FinalizeTells ==
  ASSUME Inv, Tells, Finalize
  PROVE  Tells'
<1> USE DEF Inv, Typed, TypeOK, Finalize, Finalized
<1>1. \A t \in Threads : tpc[t] = "out"
  BY NobodyInside
<1>2. \A c \in Comms :
         conn'[c] = IF c \in Listed \/ conn[c] = "wired" THEN "dropped" ELSE conn[c]
  OBVIOUS
<1>3. UNCHANGED <<closed, sessions, told, errors, tpc, tcur>> /\ ctl' = "stopped"
  BY DEF errorVars
<1>4. \A c \in Comms : conn[c] # "removed"
  BY <1>1 DEF Tells, Farewells
<1>5. Farewells'
  BY <1>1, <1>2, <1>3, <1>4 DEF Farewells
<1>6. ToldRight'
  BY <1>2, <1>3 DEF Tells, ToldRight, Listed
<1>7. Halted'
  <2>1. \A c \in Comms : conn'[c] \in {"none", "gone", "dropped", "refused", "forgotten"}
    BY <1>2, <1>4 DEF Listed
  <2> QED
    BY <2>1 DEF Halted
<1>8. ErrorsRefused'
  <2>1. \A i \in DOMAIN errors : errors[i] \in Comms /\ conn[errors[i]] = "refused"
    BY DEF Tells, ErrorsRefused
  <2> QED
    BY <1>2, <1>3, <2>1 DEF ErrorsRefused, Listed
<1> QED
  BY <1>5, <1>6, <1>7, <1>8 DEF Tells

LEMMA ControlTells ==
  ASSUME Inv, Tells, Peers \/ Control \/ \E t \in Threads : EnterRun(t)
  PROVE  Tells'
<1> USE DEF Inv, Typed, TypeOK, poolVars, connVars, errorVars
<1>1. CASE PeerConnects
  BY <1>1, LivesUntouched DEF PeerConnects
<1>2. ASSUME NEW c \in Comms, PeerLeaves(c)
      PROVE  Tells'
  <2>1. ctl # "stopped"
    BY <1>2 DEF PeerLeaves, Tells, Halted
  <2> QED
    BY <1>2, <2>1, LifeGoesOn DEF PeerLeaves
<1>3. ASSUME NEW c \in Comms, Connect(c)
      PROVE  Tells'
  BY <1>3, LifeGoesOn DEF Connect
<1>4. CASE \E t \in Threads : EnterRun(t)
  <2>1. UNCHANGED <<conn, closed, sessions, told, errors, ctl, tcur>>
    BY <1>4 DEF EnterRun
  <2>2. \A u \in Threads : tpc'[u] = "farewell" <=> tpc[u] = "farewell"
    BY <1>4 DEF EnterRun, Goto
  <2> QED
    BY <2>1, <2>2, LivesUntouched
<1>5. CASE Start \/ Stop \/ CloseAcceptor \/ DestroyAcceptor \/ StopService \/ GiveUp
           \/ WaitClients
  <2>1. UNCHANGED <<conn, closed, sessions, told, errors, tpc, tcur>>
    BY <1>5 DEF Start, Stop, CloseAcceptor, DestroyAcceptor, StopService, GiveUp, WaitClients
  <2>2. Farewells' /\ ToldRight' /\ ErrorsRefused'
    BY <2>1 DEF Tells, Farewells, ToldRight, ErrorsRefused
  <2>3. ctl' # "stopped"
    BY <1>5 DEF Start, Stop, CloseAcceptor, DestroyAcceptor, StopService, GiveUp, WaitClients
  <2> QED
    BY <2>2, <2>3 DEF Tells, Halted
<1>6. CASE DisconnectAll
  <2>1. \A c \in Comms : conn'[c] = IF conn[c] = "up" THEN "lost" ELSE conn[c]
    BY <1>6 DEF DisconnectAll
  <2>2. UNCHANGED <<sessions, told, errors, tpc, tcur>> /\ ctl' = "wait_clients"
    BY <1>6 DEF DisconnectAll
  <2>3. Farewells' /\ ToldRight'
    BY <2>1, <2>2, RemovedUntouched
  <2>4. ErrorsRefused'
    <3>1. \A i \in DOMAIN errors : errors[i] \in Comms /\ conn[errors[i]] = "refused"
      BY DEF Tells, ErrorsRefused
    <3> QED
      BY <2>1, <2>2, <3>1 DEF ErrorsRefused
  <2> QED
    BY <2>2, <2>3, <2>4 DEF Tells, Halted
<1>7. CASE Reset
  <2>1. ctl = "stopped" /\ ctl' = "constructed" /\ errors' = <<>>
        /\ UNCHANGED <<closed, sessions, told, tpc, tcur>>
    BY <1>7 DEF Reset
  <2>2. \A c \in Comms :
           \/ conn'[c] = conn[c]
           \/ conn[c] = "refused" /\ conn'[c] = "forgotten"
    BY <1>7 DEF Reset, Tells, ErrorsRefused
  <2>3. Farewells' /\ ToldRight'
    BY <2>1, <2>2, RemovedUntouched
  <2>4. Halted' /\ ErrorsRefused'
    BY <2>1, <2>2 DEF Tells, Halted, ErrorsRefused
  <2> QED
    BY <2>3, <2>4 DEF Tells
<1> QED
  BY <1>1, <1>2, <1>3, <1>4, <1>5, <1>6, <1>7, FinalizeTells DEF Peers, Control, Stopping

(* Whatever the moment in which stop() is called: a session is told once,  *)
(* when its client has left, or dropped untold with its communicator, and  *)
(* no connection is left when stop() has finalized.                        *)
THEOREM ToldOrDroppedHolds == Spec => []ToldOrDropped
<1>1. Init => Tells
  BY DEF Init, Tells, Farewells, ToldRight, Halted, ErrorsRefused
<1>2. Inv /\ Tells /\ [Next]_vars => Tells'
  <2> SUFFICES ASSUME Inv, Tells, [Next]_vars PROVE Tells'
    OBVIOUS
  <2>1. CASE Next
    BY <2>1, WorkTells, DispatchTells, ControlTells DEF Next
  <2>2. CASE UNCHANGED vars
    BY <2>2, LivesUntouched DEF vars, poolVars, connVars, errorVars
  <2> QED
    BY <2>1, <2>2
<1>3. Inv /\ Tells => ToldOrDropped
  BY DEF Tells, ToldRight, Halted, ToldOrDropped
<1> QED
  BY <1>1, <1>2, <1>3, Invariance, PTL DEF Spec

----------------------------------------------------------------------------
(* Failed connects.  What waits to be reported waits once; a thread that   *)
(* has copied an error knows it to be the first, unless another one erased *)
(* it meanwhile; and each thread of the crew copies the same error at most *)
(* once, because it erases what is in front before it copies again.        *)
Copied(c) == {t \in Threads : tpc[t] = "erase" /\ tcur[t] = c}
Waits(c) == \E i \in DOMAIN errors : errors[i] = c

Crewed == \A t \in Threads : tpc[t] # "out" => t \in plan.crew

Shared ==
    /\ Crewed
    /\ \A i, j \in DOMAIN errors : errors[i] = errors[j] => i = j
    /\ \A t \in Threads : tpc[t] = "erase" =>
          /\ tcur[t] \in Comms /\ conn[tcur[t]] = "refused"
          /\ \A i \in DOMAIN errors : errors[i] = tcur[t] => i = 1
    /\ \A c \in Comms :
          /\ reported[c] + Cardinality(Copied(c)) <= Cardinality(plan.crew)
          /\ reported[c] > 0 => conn[c] = "refused" /\ ~Waits(c)

LEMMA CopiedFinite ==
  ASSUME Inv, Crewed, NEW c
  PROVE  /\ IsFiniteSet(Copied(c)) /\ Cardinality(Copied(c)) \in Nat
         /\ Cardinality(plan.crew) \in Nat
         /\ Cardinality(Copied(c)) <= Cardinality(plan.crew)
<1>1. plan.crew \subseteq Threads
  BY DEF Inv, Typed, TypeOK, Plan
<1>2. IsFiniteSet(plan.crew) /\ Copied(c) \subseteq plan.crew
  BY <1>1, FS_Subset DEF Copied, Crewed
<1> QED
  BY <1>2, FS_Subset, FS_CardinalityType

(* A step that neither keeps nor reports an error, nor copies one.         *)
LEMMA SharedUntouched ==
  ASSUME Inv, Shared, UNCHANGED <<plan, errors, reported>>,
         \A c \in Comms : conn[c] = "refused" => conn'[c] = "refused",
         \A t \in Threads : tpc'[t] # "out" => tpc[t] # "out" \/ t \in plan.crew,
         \A t \in Threads : tpc'[t] = "erase" <=> tpc[t] = "erase",
         \A t \in Threads : tpc[t] = "erase" => tcur'[t] = tcur[t]
  PROVE  Shared'
<1>1. \A c : Copied(c)' = Copied(c)
  BY DEF Copied
<1>2. \A c : Waits(c)' <=> Waits(c)
  BY DEF Waits
<1>3. Crewed'
  BY DEF Shared, Crewed
<1> QED
  BY <1>1, <1>2, <1>3 DEF Shared

LEMMA SharedTake ==
  ASSUME Inv, Tells, Shared, NEW t \in Threads, TakeError(t)
  PROVE  Shared'
<1> USE DEF Inv, Typed, TypeOK
<1>1. PICK c \in Comms : c = errors[1]
  BY DEF TakeError
<1>2. /\ 1 \in DOMAIN errors /\ tpc[t] = "extra"
      /\ tpc' = [tpc EXCEPT ![t] = "erase"] /\ tcur' = [tcur EXCEPT ![t] = c]
      /\ UNCHANGED <<plan, conn, errors, reported>>
  BY <1>1 DEF TakeError, Goto, connVars, errorVars
<1>3. conn[c] = "refused" /\ Waits(c) /\ reported[c] = 0
  <2>1. conn[c] = "refused" /\ Waits(c)
    BY <1>1, <1>2 DEF Tells, ErrorsRefused, Waits
  <2> QED
    BY <2>1 DEF Shared
<1>4. Crewed'
  BY <1>2 DEF Shared, Crewed
<1>5. \A u \in Threads : tpc'[u] = "erase" =>
         /\ tcur'[u] \in Comms /\ conn'[tcur'[u]] = "refused"
         /\ \A i \in DOMAIN errors' : errors'[i] = tcur'[u] => i = 1
  <2> TAKE u \in Threads
  <2>1. CASE u = t
    <3>1. \A i \in DOMAIN errors : errors[i] = c => i = 1
      BY <1>1, <1>2 DEF Shared
    <3> QED
      BY <1>2, <1>3, <2>1, <3>1
  <2>2. CASE u # t
    BY <1>2, <2>2 DEF Shared
  <2> QED
    BY <2>1, <2>2
<1>6. \A d \in Comms : d # c => Copied(d)' = Copied(d)
  BY <1>2 DEF Copied
<1>7. Cardinality(Copied(c)') <= Cardinality(plan.crew)
  <2>1. plan.crew \subseteq Threads /\ IsFiniteSet(plan.crew)
    BY FS_Subset DEF Plan
  <2>2. Copied(c)' \subseteq plan.crew
    BY <1>2, <1>4 DEF Copied, Crewed
  <2> QED
    BY <2>1, <2>2, FS_Subset
<1>8. Cardinality(Copied(c)') \in Nat
  BY FS_Subset, FS_CardinalityType DEF Copied
<1>9. \A d \in Comms :
         /\ reported'[d] + Cardinality(Copied(d)') <= Cardinality(plan'.crew)
         /\ reported'[d] > 0 => conn'[d] = "refused" /\ ~Waits(d)'
  <2>1. \A d : Waits(d)' <=> Waits(d)
    BY <1>2 DEF Waits
  <2> TAKE d \in Comms
  <2>2. CASE d = c
    BY <1>2, <1>3, <1>7, <1>8, <2>2
  <2>3. CASE d # c
    BY <1>2, <1>6, <2>1, <2>3 DEF Shared
  <2> QED
    BY <2>2, <2>3
<1>10. \A i, j \in DOMAIN errors' : errors'[i] = errors'[j] => i = j
  BY <1>2 DEF Shared
<1> QED
  BY ONLY <1>4, <1>5, <1>9, <1>10 DEF Shared

LEMMA SharedReport ==
  ASSUME Inv, Shared, NEW t \in Threads, ReportError(t)
  PROVE  Shared'
<1> USE DEF Inv, Typed, TypeOK
<1>1. PICK c \in Comms : c = tcur[t]
  BY DEF Shared, ReportError
<1>2. /\ tpc[t] = "erase" /\ conn[c] = "refused"
      /\ \A i \in DOMAIN errors : errors[i] = c => i = 1
      /\ reported' = [reported EXCEPT ![c] = @ + 1]
      /\ tpc'[t] \in {"extra", "walk"}
      /\ \A u \in Threads : u # t => tpc'[u] = tpc[u] /\ tcur'[u] = tcur[u]
      /\ UNCHANGED <<plan, conn>>
  BY <1>1 DEF ReportError, Shared, Goto, connVars
<1>3. \/ errors = <<>> /\ errors' = errors
      \/ errors # <<>> /\ errors' = Tail(errors)
  BY DEF ReportError
<1>4. \A i \in DOMAIN errors' : i + 1 \in DOMAIN errors /\ errors'[i] = errors[i + 1]
  <2>1. CASE errors = <<>> /\ errors' = errors
    BY <2>1
  <2>2. CASE errors # <<>> /\ errors' = Tail(errors)
    BY <2>2
  <2> QED
    BY <1>3, <2>1, <2>2
<1>5. ~Waits(c)' /\ \A d : Waits(d)' => Waits(d)
  <2>1. \A i \in DOMAIN errors' : i \in Nat /\ i # 0
    BY <1>3
  <2>2. \A i \in DOMAIN errors' : errors'[i] # c
    BY <1>2, <1>4, <2>1
  <2> QED
    BY <1>4, <2>2 DEF Waits
<1>6. Crewed'
  BY <1>2 DEF Shared, Crewed
<1>7. \A i, j \in DOMAIN errors' : errors'[i] = errors'[j] => i = j
  <2>1. \A i \in DOMAIN errors' : i \in Nat
    BY <1>3
  <2> QED
    BY <1>4, <2>1 DEF Shared
<1>8. \A u \in Threads : tpc'[u] = "erase" =>
         /\ tcur'[u] \in Comms /\ conn'[tcur'[u]] = "refused"
         /\ \A i \in DOMAIN errors' : errors'[i] = tcur'[u] => i = 1
  <2> SUFFICES ASSUME NEW u \in Threads, tpc'[u] = "erase"
               PROVE  /\ tcur'[u] \in Comms /\ conn'[tcur'[u]] = "refused"
                      /\ \A i \in DOMAIN errors' : errors'[i] # tcur'[u]
    OBVIOUS
  <2>1. u # t /\ tpc[u] = "erase" /\ tcur'[u] = tcur[u]
    BY <1>2
  <2>2. \A i \in DOMAIN errors : errors[i] = tcur[u] => i = 1
    BY <2>1 DEF Shared
  <2>3. \A i \in DOMAIN errors' : i \in Nat /\ i # 0
    BY <1>3
  <2>4. \A i \in DOMAIN errors' : errors'[i] # tcur[u]
    BY <1>4, <2>2, <2>3
  <2> QED
    BY <1>2, <2>1, <2>4 DEF Shared
<1>9. \A d \in Comms : d # c => Copied(d)' = Copied(d)
  BY <1>1, <1>2 DEF Copied
<1>10. Cardinality(Copied(c)') = Cardinality(Copied(c)) - 1
  <2>1. t \in Copied(c) /\ Copied(c)' = Copied(c) \ {t}
    BY <1>1, <1>2 DEF Copied
  <2>2. IsFiniteSet(Copied(c))
    BY CopiedFinite DEF Shared
  <2> QED
    BY <2>1, <2>2, FS_RemoveElement
<1>11. \A d \in Comms :
          /\ reported'[d] + Cardinality(Copied(d)') <= Cardinality(plan'.crew)
          /\ reported'[d] > 0 => conn'[d] = "refused" /\ ~Waits(d)'
  <2> TAKE d \in Comms
  <2>0. Cardinality(Copied(c)) \in Nat /\ Cardinality(plan.crew) \in Nat /\ reported[c] \in Nat
    BY CopiedFinite DEF Shared
  <2>1. CASE d = c
    <3>1. reported'[c] = reported[c] + 1
      BY <1>2
    <3>2. reported[c] + Cardinality(Copied(c)) <= Cardinality(plan.crew)
      BY DEF Shared
    <3>3. reported'[c] + Cardinality(Copied(c)') <= Cardinality(plan.crew)
      BY <1>10, <2>0, <3>1, <3>2
    <3> QED
      BY <1>2, <1>5, <2>1, <3>3
  <2>2. CASE d # c
    BY <1>2, <1>5, <1>9, <2>2 DEF Shared
  <2> QED
    BY <2>1, <2>2
<1> QED
  BY ONLY <1>6, <1>7, <1>8, <1>11 DEF Shared

LEMMA SharedRefused ==
  ASSUME Inv, Tells, Shared, NEW t \in Threads, NEW c \in Comms, ConnectFailed(t, c)
  PROVE  Shared'
<1> USE DEF Inv, Typed, TypeOK
<1> DEFINE n == Len(errors)
<1>1. /\ conn[c] = "wired" /\ conn' = [conn EXCEPT ![c] = "refused"]
      /\ errors' = Append(errors, c)
      /\ UNCHANGED <<plan, tpc, tcur, reported>>
  BY DEF ConnectFailed
<1>2. n \in Nat /\ DOMAIN errors = 1..n
  OBVIOUS
<1>3. \A i \in 1..n : errors[i] # c
  BY <1>1, <1>2 DEF Tells, ErrorsRefused
<1>4. /\ DOMAIN errors' = 1..(n + 1) /\ errors'[n + 1] = c
      /\ \A i \in 1..n : errors'[i] = errors[i]
  BY <1>1
<1> HIDE DEF n
<1>5. \A i \in 1..(n + 1) : i = n + 1 \/ i \in 1..n
  BY <1>2
<1>6. \A i, j \in 1..n : errors[i] = errors[j] => i = j
  BY <1>2 DEF Shared
<1>7. \A i, j \in DOMAIN errors' : errors'[i] = errors'[j] => i = j
  BY <1>3, <1>4, <1>5, <1>6
<1>8. \A d : Copied(d)' = Copied(d)
  BY <1>1 DEF Copied
<1>9. \A u \in Threads : tpc'[u] = "erase" =>
         /\ tcur'[u] \in Comms /\ conn'[tcur'[u]] = "refused"
         /\ \A i \in DOMAIN errors' : errors'[i] = tcur'[u] => i = 1
  <2> SUFFICES ASSUME NEW u \in Threads, tpc[u] = "erase"
               PROVE  /\ tcur[u] \in Comms /\ conn'[tcur[u]] = "refused"
                      /\ \A i \in DOMAIN errors' : errors'[i] = tcur[u] => i = 1
    BY <1>1
  <2>1. tcur[u] \in Comms /\ conn[tcur[u]] = "refused" /\ tcur[u] # c
    BY <1>1 DEF Shared
  <2>2. \A i \in 1..n : errors[i] = tcur[u] => i = 1
    BY <1>2 DEF Shared
  <2> QED
    BY <1>1, <1>4, <1>5, <2>1, <2>2
<1>10. Crewed'
  BY <1>1 DEF Shared, Crewed
<1>11. \A d \in Comms :
          /\ reported'[d] + Cardinality(Copied(d)') <= Cardinality(plan'.crew)
          /\ reported'[d] > 0 => conn'[d] = "refused" /\ ~Waits(d)'
  <2> TAKE d \in Comms
  <2>1. reported[d] > 0 => conn[d] = "refused" /\ ~Waits(d)
    BY DEF Shared
  <2>2. reported[d] > 0 => conn'[d] = "refused" /\ ~Waits(d)'
    <3> HAVE reported[d] > 0
    <3>1. d # c /\ conn'[d] = "refused" /\ \A i \in 1..n : errors[i] # d
      BY <1>1, <1>2, <2>1 DEF Waits
    <3> QED
      BY <1>4, <1>5, <3>1 DEF Waits
  <2>3. reported'[d] + Cardinality(Copied(d)') <= Cardinality(plan'.crew)
    BY <1>1, <1>8 DEF Shared
  <2> QED
    BY <1>1, <2>2, <2>3
<1> QED
  BY ONLY <1>7, <1>9, <1>10, <1>11 DEF Shared

LEMMA SharedReset ==
  ASSUME Inv, Shared, Reset
  PROVE  Shared'
<1>1. /\ errors' = <<>> /\ (\A t \in Threads : tpc[t] = "out")
      /\ UNCHANGED <<plan, reported, tpc, tcur>>
      /\ \A c \in Comms : ~Waits(c) => conn'[c] = conn[c]
  BY DEF Reset, Waits
<1>2. \A c : Copied(c)' = Copied(c)
  BY <1>1 DEF Copied
<1>3. \A c : ~Waits(c)'
  BY <1>1 DEF Waits
<1>4. Crewed'
  BY <1>1 DEF Crewed
<1> QED
  BY <1>1, <1>2, <1>3, <1>4 DEF Shared

LEMMA SharedStep == Inv /\ Tells /\ Shared /\ [Next]_vars => Shared'
<1> SUFFICES ASSUME Inv, Tells, Shared, [Next]_vars PROVE Shared'
  OBVIOUS
<1> USE DEF Inv, Typed, TypeOK, Goto, Ready, poolVars, connVars, errorVars
<1>1. ASSUME NEW t \in Threads, Work(t), ~TakeError(t), ~ReportError(t)
      PROVE  Shared'
  <2>1. UNCHANGED <<plan, errors, reported>>
    BY <1>1 DEF Work, RunService, LeaveRun, ServiceReturns, StartAccept, NoErrors, ServeFresh,
       RemoveFailed, CallDisconnected, EndWalk
  <2>2. \A c \in Comms : conn[c] = "refused" => conn'[c] = "refused"
    <3>1. CASE UNCHANGED conn
      BY <3>1
    <3>2. ASSUME NEW c \in Comms, ServeFresh(t, c) \/ RemoveFailed(t, c)
          PROVE  \A d \in Comms : conn[d] = "refused" => conn'[d] = "refused"
      BY <3>2 DEF ServeFresh, RemoveFailed
    <3>3. CASE CallDisconnected(t)
      <4>1. tcur[t] \in Comms /\ conn[tcur[t]] = "removed"
        BY <3>3 DEF CallDisconnected, Tells, Farewells
      <4> QED
        BY <3>3, <4>1 DEF CallDisconnected
    <3> QED
      BY <1>1, <3>1, <3>2, <3>3 DEF Work, RunService, LeaveRun, ServiceReturns, StartAccept,
         NoErrors, EndWalk
  <2>3. \A u \in Threads : tpc'[u] # "out" => tpc[u] # "out"
    BY <1>1 DEF Work, RunService, LeaveRun, ServiceReturns, StartAccept, NoErrors, ServeFresh,
       RemoveFailed, CallDisconnected, EndWalk
  <2>4. \A u \in Threads : tpc'[u] = "erase" <=> tpc[u] = "erase"
    BY <1>1 DEF Work, RunService, LeaveRun, ServiceReturns, StartAccept, NoErrors, ServeFresh,
       RemoveFailed, CallDisconnected, EndWalk
  <2>5. \A u \in Threads : tpc[u] = "erase" => tcur'[u] = tcur[u]
    BY <1>1 DEF Work, RunService, LeaveRun, ServiceReturns, StartAccept, NoErrors, ServeFresh,
       RemoveFailed, CallDisconnected, EndWalk
  <2> QED
    BY <2>1, <2>2, <2>3, <2>4, <2>5, SharedUntouched
<1>2. ASSUME NEW t \in Threads, Dispatch(t), ~\E c \in Comms : ConnectFailed(t, c)
      PROVE  Shared'
  <2>1. UNCHANGED <<plan, errors, reported>>
    BY <1>2 DEF Dispatch, TimerHandler, KickHandler, AcceptFailed, ReadFailed, AcceptHandler,
       Connected
  <2>2. \A c \in Comms : conn[c] = "refused" => conn'[c] = "refused"
    BY <1>2 DEF Dispatch, TimerHandler, KickHandler, AcceptFailed, ReadFailed, AcceptHandler,
       Connected
  <2>3. /\ \A u \in Threads : tpc'[u] # "out" => tpc[u] # "out"
        /\ \A u \in Threads : tpc'[u] = "erase" <=> tpc[u] = "erase"
        /\ \A u \in Threads : tpc[u] = "erase" => tcur'[u] = tcur[u]
    BY <1>2 DEF Dispatch, TimerHandler, KickHandler, AcceptFailed, ReadFailed, AcceptHandler,
       Connected
  <2> QED
    BY <2>1, <2>2, <2>3, SharedUntouched
<1>3. CASE \E t \in Threads : EnterRun(t)
  <2>1. UNCHANGED <<plan, errors, reported, conn, tcur>>
    BY <1>3 DEF EnterRun
  <2>2. \A u \in Threads : tpc'[u] # "out" => tpc[u] # "out" \/ u \in plan.crew
    BY <1>3 DEF EnterRun
  <2>3. \A u \in Threads : tpc'[u] = "erase" <=> tpc[u] = "erase"
    BY <1>3 DEF EnterRun
  <2> QED
    BY <2>1, <2>2, <2>3, SharedUntouched
<1>4. CASE \/ Peers \/ Start \/ Stop \/ Stopping \/ UNCHANGED vars
           \/ \E c \in Comms : Connect(c)
  <2>1. UNCHANGED <<plan, errors, reported, tpc, tcur>>
    BY <1>4 DEF Peers, PeerConnects, PeerLeaves, Connect, Start, Stop, Stopping, CloseAcceptor,
       DestroyAcceptor, DisconnectAll, WaitClients, StopService, Finalize, Finalized, GiveUp, vars
  <2>2. \A c \in Comms : conn[c] = "refused" => conn'[c] = "refused"
    BY <1>4 DEF Peers, PeerConnects, PeerLeaves, Connect, Start, Stop, Stopping, CloseAcceptor,
       DestroyAcceptor, DisconnectAll, WaitClients, StopService, Finalize, Finalized, GiveUp, vars,
       Listed
  <2> QED
    BY <2>1, <2>2, SharedUntouched
<1> HIDE DEF Inv, Typed, TypeOK, Goto, Ready, poolVars, connVars, errorVars
<1> QED
  BY <1>1, <1>2, <1>3, <1>4, SharedTake, SharedReport, SharedRefused, SharedReset
     DEF Next, Control, Dispatch

(* With a single thread what it has copied is the first error still, and   *)
(* each failed connect has been reported once or waits to be.              *)
Reports ==
    Cardinality(plan.crew) = 1 =>
        /\ \A t \in Threads : tpc[t] = "erase" => errors # <<>> /\ tcur[t] = errors[1]
        /\ \A c \in Comms :
              reported[c] = IF conn[c] = "refused" /\ \A i \in DOMAIN errors : errors[i] # c
                            THEN 1 ELSE 0
        /\ broken # "errors"

LEMMA Alone ==
  ASSUME Inv, Shared, Cardinality(plan.crew) = 1,
         NEW t \in Threads, NEW u \in Threads, tpc[t] # "out", tpc[u] # "out"
  PROVE  t = u
<1>1. plan.crew \subseteq Threads
  BY DEF Inv, Typed, TypeOK, Plan
<1>2. PICK s : plan.crew = {s}
  BY <1>1, FS_Subset, FS_Singleton
<1> QED
  BY <1>2 DEF Shared, Crewed

(* A step that neither keeps nor reports an error.                         *)
LEMMA ReportsUntouched ==
  ASSUME Inv, Reports, UNCHANGED <<plan, errors, reported>>, broken' # "errors",
         \A c \in Comms : conn'[c] = "refused" <=> conn[c] = "refused",
         \A t \in Threads : tpc'[t] = "erase" => tpc[t] = "erase" /\ tcur'[t] = tcur[t]
  PROVE  Reports'
  BY DEF Reports

LEMMA WorkReports ==
  ASSUME Inv, Tells, Shared, Reports, broken = "no", NEW t \in Threads, Work(t)
  PROVE  Reports'
<1> USE DEF Inv, Typed, TypeOK, Goto, poolVars, connVars, errorVars
<1>1. CASE ~TakeError(t) /\ ~ReportError(t)
  <2>1. UNCHANGED <<plan, errors, reported>> /\ broken' # "errors"
    BY <1>1 DEF Work, RunService, LeaveRun, ServiceReturns, StartAccept, NoErrors, ServeFresh,
       RemoveFailed, CallDisconnected, EndWalk
  <2>2. \A c \in Comms : conn'[c] = "refused" <=> conn[c] = "refused"
    <3>1. CASE UNCHANGED conn
      BY <3>1
    <3>2. ASSUME NEW c \in Comms, ServeFresh(t, c) \/ RemoveFailed(t, c)
          PROVE  \A d \in Comms : conn'[d] = "refused" <=> conn[d] = "refused"
      BY <3>2 DEF ServeFresh, RemoveFailed
    <3>3. CASE CallDisconnected(t)
      <4>1. tcur[t] \in Comms /\ conn[tcur[t]] = "removed"
        BY <3>3 DEF CallDisconnected, Tells, Farewells
      <4> QED
        BY <3>3, <4>1 DEF CallDisconnected
    <3> QED
      BY <1>1, <3>1, <3>2, <3>3 DEF Work, RunService, LeaveRun, ServiceReturns, StartAccept,
         NoErrors, EndWalk
  <2>3. \A u \in Threads : tpc'[u] = "erase" => tpc[u] = "erase" /\ tcur'[u] = tcur[u]
    BY <1>1 DEF Work, RunService, LeaveRun, ServiceReturns, StartAccept, NoErrors, ServeFresh,
       RemoveFailed, CallDisconnected, EndWalk
  <2> QED
    BY <2>1, <2>2, <2>3, ReportsUntouched
<1>2. CASE TakeError(t)
  <2>1. errors # <<>> /\ tpc' = [tpc EXCEPT ![t] = "erase"]
        /\ tcur' = [tcur EXCEPT ![t] = errors[1]]
    BY <1>2 DEF TakeError
  <2>2. UNCHANGED <<plan, conn, errors, reported, broken>> /\ tpc[t] = "extra"
    BY <1>2 DEF TakeError
  <2>3. ASSUME Cardinality(plan.crew) = 1, NEW u \in Threads, tpc'[u] = "erase"
        PROVE  errors # <<>> /\ tcur'[u] = errors[1]
    BY <2>1, <2>2, <2>3, Alone
  <2> QED
    BY <2>2, <2>3 DEF Reports
<1>3. CASE ReportError(t)
  <2> SUFFICES ASSUME Cardinality(plan.crew) = 1 PROVE Reports'
    BY <1>3 DEF ReportError, Reports
  <2> DEFINE c == tcur[t]
  <2>1. tpc[t] = "erase" /\ errors # <<>> /\ c = errors[1] /\ c \in Comms
    BY <1>3 DEF ReportError, Reports
  <2>2. errors' = Tail(errors) /\ reported' = [reported EXCEPT ![c] = @ + 1]
        /\ UNCHANGED <<plan, conn, broken>>
    BY <1>3, <2>1 DEF ReportError
  <2>4. \A u \in Threads : tpc'[u] # "erase"
    <3>1. \A u \in Threads : u # t => tpc'[u] = tpc[u] /\ tpc[u] = "out"
      BY <1>3, <2>1, Alone DEF ReportError
    <3>2. tpc'[t] \in {"extra", "walk"}
      BY <1>3 DEF ReportError
    <3> QED
      BY <3>1, <3>2
  <2> HIDE DEF c
  <2>5. /\ DOMAIN errors' = 1..(Len(errors) - 1)
        /\ \A i \in DOMAIN errors' : i + 1 \in DOMAIN errors /\ errors'[i] = errors[i + 1]
    BY <2>1, <2>2
  <2>7. \A i \in DOMAIN errors' : errors'[i] # c
    BY <2>1, <2>5 DEF Shared
  <2>8. \A d \in Comms : d # c =>
           ((\A i \in DOMAIN errors' : errors'[i] # d) <=> (\A i \in DOMAIN errors : errors[i] # d))
    <3> SUFFICES ASSUME NEW d \in Comms, d # c
                 PROVE  (\E i \in DOMAIN errors' : errors'[i] = d)
                            <=> (\E i \in DOMAIN errors : errors[i] = d)
      OBVIOUS
    <3>1. ASSUME NEW i \in DOMAIN errors, errors[i] = d
          PROVE  \E j \in DOMAIN errors' : errors'[j] = d
      <4>1. i \in 1..Len(errors) /\ i # 1
        BY <2>1, <3>1
      <4>2. i - 1 \in DOMAIN errors' /\ errors'[i - 1] = errors[i]
        BY <2>5, <4>1, SMTT(20)
      <4> QED
        BY <3>1, <4>2
    <3> QED
      BY <2>5, <3>1
  <2>9. conn[c] = "refused" /\ reported[c] = 0
    <3>1. 1 \in DOMAIN errors
      BY <2>1
    <3> QED
      BY <2>1, <3>1 DEF Reports, Tells, ErrorsRefused
  <2>10. \A d \in Comms :
            reported'[d] = IF conn'[d] = "refused" /\ \A i \in DOMAIN errors' : errors'[i] # d
                           THEN 1 ELSE 0
    <3>1. \A d \in Comms : reported[d] \in Nat /\ reported'[d] = IF d = c THEN reported[d] + 1 ELSE reported[d]
      BY <2>1, <2>2
    <3> SUFFICES ASSUME NEW d \in Comms
                 PROVE  reported'[d] = IF conn[d] = "refused" /\ \A i \in DOMAIN errors' : errors'[i] # d
                                       THEN 1 ELSE 0
      BY <2>2
    <3>2. CASE d = c
      BY <2>7, <2>9, <3>1, <3>2
    <3>3. CASE d # c
      <4>1. reported'[d] = reported[d]
        BY <3>1, <3>3
      <4>2. reported[d] = IF conn[d] = "refused" /\ \A i \in DOMAIN errors : errors[i] # d
                          THEN 1 ELSE 0
        BY DEF Reports
      <4> QED
        BY <2>8, <3>3, <4>1, <4>2
    <3> QED
      BY <3>2, <3>3
  <2> QED
    BY <2>2, <2>4, <2>10 DEF Reports
<1> QED
  BY <1>1, <1>2, <1>3

LEMMA DispatchReports ==
  ASSUME Inv, Tells, Shared, Reports, broken = "no", NEW t \in Threads, Dispatch(t)
  PROVE  Reports'
<1> USE DEF Inv, Typed, TypeOK, Goto, Ready, poolVars, connVars, errorVars
<1>1. CASE ~\E c \in Comms : ConnectFailed(t, c)
  <2>1. UNCHANGED <<plan, errors, reported, broken>>
    BY <1>1 DEF Dispatch, TimerHandler, KickHandler, AcceptFailed, ReadFailed, AcceptHandler,
       Connected
  <2>2. \A c \in Comms : conn'[c] = "refused" <=> conn[c] = "refused"
    BY <1>1 DEF Dispatch, TimerHandler, KickHandler, AcceptFailed, ReadFailed, AcceptHandler,
       Connected
  <2>3. \A u \in Threads : tpc'[u] = "erase" => tpc[u] = "erase" /\ tcur'[u] = tcur[u]
    BY <1>1 DEF Dispatch, TimerHandler, KickHandler, AcceptFailed, ReadFailed, AcceptHandler,
       Connected
  <2> QED
    BY <2>1, <2>2, <2>3, ReportsUntouched
<1>2. ASSUME NEW c \in Comms, ConnectFailed(t, c)
      PROVE  Reports'
  <2> SUFFICES ASSUME Cardinality(plan.crew) = 1 PROVE Reports'
    BY <1>2 DEF ConnectFailed, Reports
  <2>1. /\ conn[c] = "wired" /\ conn' = [conn EXCEPT ![c] = "refused"]
        /\ errors' = Append(errors, c)
        /\ UNCHANGED <<plan, tpc, tcur, reported, broken>>
    BY <1>2 DEF ConnectFailed
  <2> DEFINE n == Len(errors)
  <2>a. n \in Nat /\ DOMAIN errors = 1..n
    OBVIOUS
  <2>2. \A i \in 1..n : errors[i] # c
    BY <2>1, <2>a DEF Tells, ErrorsRefused
  <2>3. /\ DOMAIN errors' = 1..(n + 1)
        /\ errors'[n + 1] = c
        /\ \A i \in 1..n : errors'[i] = errors[i]
    BY <2>1
  <2> HIDE DEF n
  <2>b. \A i \in 1..(n + 1) : i = n + 1 \/ i \in 1..n
    BY <2>a
  <2>5. \A u \in Threads : tpc'[u] # "erase"
    BY <1>2, <2>1, Alone DEF ConnectFailed
  <2>6. \A d \in Comms :
           reported[d] = IF conn'[d] = "refused" /\ \A i \in DOMAIN errors' : errors'[i] # d
                         THEN 1 ELSE 0
    <3>1. n + 1 \in DOMAIN errors' /\ errors'[n + 1] = c
      BY <2>3, <2>a
    <3>2. reported[c] = 0
      BY <2>1 DEF Reports
    <3>3. \A d \in Comms : d # c =>
             ((\A i \in DOMAIN errors' : errors'[i] # d) <=> (\A i \in DOMAIN errors : errors[i] # d))
      <4>1. \A i \in 1..n : i \in 1..(n + 1)
        BY <2>a
      <4> QED
        BY <2>3, <2>a, <2>b, <4>1
    <3> SUFFICES ASSUME NEW d \in Comms
                 PROVE  reported[d] = IF conn'[d] = "refused" /\ \A i \in DOMAIN errors' : errors'[i] # d
                                      THEN 1 ELSE 0
      OBVIOUS
    <3>4. CASE d = c
      BY <3>1, <3>2, <3>4
    <3>5. CASE d # c
      <4>1. conn'[d] = conn[d]
        BY <2>1, <3>5
      <4>2. reported[d] = IF conn[d] = "refused" /\ \A i \in DOMAIN errors : errors[i] # d
                          THEN 1 ELSE 0
        BY DEF Reports
      <4> QED
        BY <3>3, <3>5, <4>1, <4>2
    <3> QED
      BY <3>4, <3>5
  <2> QED
    BY <2>1, <2>5, <2>6 DEF Reports
<1> QED
  BY <1>1, <1>2

LEMMA ControlReports ==
  ASSUME Inv, Tells, Shared, Reports, broken = "no",
         Peers \/ Control \/ \E t \in Threads : EnterRun(t)
  PROVE  Reports'
<1> USE DEF Inv, Typed, TypeOK, poolVars, connVars, errorVars
<1>1. CASE Peers \/ \E c \in Comms : Connect(c)
  BY <1>1, ReportsUntouched DEF Peers, PeerConnects, PeerLeaves, Connect
<1>2. CASE \E t \in Threads : EnterRun(t)
  <2>1. UNCHANGED <<plan, errors, reported, broken, conn, tcur>>
    BY <1>2 DEF EnterRun
  <2>2. \A u \in Threads : tpc'[u] = "erase" => tpc[u] = "erase"
    BY <1>2 DEF EnterRun, Goto
  <2> QED
    BY <2>1, <2>2, ReportsUntouched
<1>3. CASE Start \/ Stop \/ Stopping
  <2>1. UNCHANGED <<plan, errors, reported, broken, tpc, tcur>>
    BY <1>3 DEF Start, Stop, Stopping, CloseAcceptor, DestroyAcceptor, DisconnectAll,
       WaitClients, StopService, Finalize, Finalized, GiveUp
  <2>2. \A c \in Comms : conn'[c] = "refused" <=> conn[c] = "refused"
    BY <1>3 DEF Start, Stop, Stopping, CloseAcceptor, DestroyAcceptor, DisconnectAll,
       WaitClients, StopService, Finalize, Finalized, GiveUp, Listed
  <2> QED
    BY <2>1, <2>2, ReportsUntouched
<1>4. CASE Reset
  <2>1. errors' = <<>> /\ (\A t \in Threads : tpc[t] = "out")
        /\ UNCHANGED <<plan, reported, broken, tpc, tcur>>
    BY <1>4 DEF Reset
  <2>2. \A c \in Comms :
           conn'[c] = "refused" <=> conn[c] = "refused" /\ \A i \in DOMAIN errors : errors[i] # c
    BY <1>4 DEF Reset
  <2> QED
    BY <2>1, <2>2 DEF Reports
<1> QED
  BY <1>1, <1>2, <1>3, <1>4 DEF Control

LEMMA ReportsOnce ==
  ASSUME Inv, Tells, Shared, Reports, Cardinality(plan.crew) = 1, NEW c \in Comms
  PROVE  reported[c] + Cardinality({i \in DOMAIN errors : errors[i] = c})
             = IF conn[c] = "refused" THEN 1 ELSE 0
<1>1. CASE \A i \in DOMAIN errors : errors[i] # c
  <2>1. {i \in DOMAIN errors : errors[i] = c} = {}
    BY <1>1
  <2>2. Cardinality({i \in DOMAIN errors : errors[i] = c}) = 0
    BY <2>1, FS_EmptySet
  <2>3. reported[c] = IF conn[c] = "refused" THEN 1 ELSE 0
    BY <1>1 DEF Reports
  <2> QED
    BY <2>2, <2>3
<1>2. CASE \E i \in DOMAIN errors : errors[i] = c
  <2>1. PICK i \in DOMAIN errors : errors[i] = c
    BY <1>2
  <2>2. {j \in DOMAIN errors : errors[j] = c} = {i}
    BY <2>1 DEF Shared
  <2>3. conn[c] = "refused"
    BY <2>1 DEF Tells, ErrorsRefused
  <2>4. Cardinality({j \in DOMAIN errors : errors[j] = c}) = 1
    BY <2>2, FS_Singleton
  <2>5. reported[c] = 0
    BY <2>1 DEF Reports
  <2> QED
    BY <2>3, <2>4, <2>5
<1> QED
  BY <1>1, <1>2

LEMMA ReportsBounded ==
  ASSUME Inv, Shared, NEW c \in Comms
  PROVE  /\ reported[c] <= Cardinality(plan.crew)
         /\ reported[c] > 0 => conn[c] = "refused" /\ {i \in DOMAIN errors : errors[i] = c} = {}
<1>1. reported[c] + Cardinality(Copied(c)) <= Cardinality(plan.crew)
  BY DEF Shared
<1>2. reported[c] \in Nat /\ Cardinality(Copied(c)) \in Nat /\ Cardinality(plan.crew) \in Nat
  BY CopiedFinite DEF Inv, Typed, TypeOK, Shared
<1>3. reported[c] <= Cardinality(plan.crew)
  BY <1>1, <1>2
<1> QED
  BY <1>3 DEF Shared, Waits

(* For any number of threads that share the list without a lock: a failed  *)
(* connect is reported no more often than there are threads, and not while *)
(* it waits; when there is one, exactly once, although handlers throw.     *)
THEOREM ErrorsReported == Spec => []ErrorsOnce
<1>1. Init => Tells /\ Shared /\ Reports
  <2> SUFFICES ASSUME Init PROVE Tells /\ Shared /\ Reports
    OBVIOUS
  <2>1. Inv
    BY InitInv
  <2>2. Tells /\ Reports
    BY DEF Init, Tells, Farewells, ToldRight, Halted, ErrorsRefused, Reports
  <2>3. Crewed /\ errors = <<>> /\ \A t \in Threads : tpc[t] # "erase"
    BY DEF Init, Crewed
  <2>4. \A c \in Comms : reported[c] = 0 /\ Cardinality(Copied(c)) = 0
    <3>1. \A c : Copied(c) = {}
      BY <2>3 DEF Copied
    <3> QED
      BY <3>1, FS_EmptySet DEF Init
  <2>5. Cardinality(plan.crew) \in Nat
    BY <2>1, <2>3, CopiedFinite
  <2> QED
    BY <2>2, <2>3, <2>4, <2>5 DEF Shared
<1>2. Inv /\ Tells /\ Shared /\ Reports /\ [Next]_vars => Tells' /\ Shared' /\ Reports'
  <2> SUFFICES ASSUME Inv, Tells, Shared, Reports, [Next]_vars PROVE Tells' /\ Shared' /\ Reports'
    OBVIOUS
  <2>1. CASE Next
    BY <2>1, WorkTells, DispatchTells, ControlTells, WorkReports, DispatchReports,
       ControlReports, SharedStep DEF Next
  <2>2. CASE UNCHANGED vars
    BY <2>2, LivesUntouched, ReportsUntouched, SharedStep
       DEF vars, poolVars, connVars, errorVars, Reports
  <2> QED
    BY <2>1, <2>2
<1>3. Inv /\ Tells /\ Shared /\ Reports => ErrorsOnce
  BY ReportsOnce, ReportsBounded DEF ErrorsOnce, Reports
<1> QED
  BY <1>1, <1>2, <1>3, Invariance, PTL DEF Spec
=============================================================================
