------------------------------ MODULE Lifecycle ------------------------------
(***************************************************************************)
(* The life of a dispatcher (dispatcher.cpp, server.cpp, client.cpp):      *)
(* threads enter and leave run(); a server accepts and a client connects;  *)
(* one more thread calls stop() and, when everything has stopped, reset(). *)
(* A pass over the clients, the subject of Dispatcher, is coarse here: it  *)
(* ends when no client is left that needs it, and a kick is one step.      *)
(* Whoever calls reset() waits until run() has returned in every thread,   *)
(* and calls it only when stop() got as far as finalize().                 *)
(***************************************************************************)
EXTENDS Naturals, Sequences, FiniteSets

CONSTANTS
    Comms,              \* communicators that may be created
    Threads,            \* threads that may call run()
    Plans,              \* bounds of a life, see Plan
    NoComm

(* A plan: server or client, the threads that call run(), the communicators *)
(* that are created, the number of calls of reset().                       *)
Plan == [role : {"server", "client"}, crew : SUBSET Threads,
         comms : SUBSET Comms, resets : Nat]

ASSUME LifecycleAssumption ==
    /\ Plans \subseteq Plan
    /\ IsFiniteSet(Threads)
    /\ NoComm \notin Comms

VARIABLES
    plan,               \* the plan followed, which does not change
    working,            \* _is_working
    service,            \* _ioservice: "none", "live" or "stopped"
    runCount,           \* _run_count
    kickCount,          \* _kick_count
    kicks,              \* kick handlers posted to the io_service
    tpc,                \* where each thread is
    tcur,               \* the communicator a thread is working on
    ctl,                \* where the thread that starts and stops is
    resets,             \* calls of reset() so far
    acceptor,           \* _acceptor: "none", "closed" or "open"
    accepting,          \* the async_accept, see TypeOK
    conn,               \* the life of each communicator, see TypeOK
    closed,             \* those whose socket disconnect_all() closed
    sessions,           \* those whose session was created
    told,               \* history: calls of the disconnected handler
    errors,             \* _conn_errors
    reported,           \* history: calls of the connect error handlers
    broken              \* what undefined behaviour was met, or "no"

poolVars == <<working, service, runCount, kickCount, kicks, ctl, resets>>
acceptVars == <<acceptor, accepting>>
connVars == <<conn, closed, sessions, told>>
errorVars == <<errors, reported>>
vars == <<plan, poolVars, tpc, tcur, acceptVars, connVars, errorVars, broken>>

(* Inside a handler, on a thread that is inside io_service::run().         *)
HandlerPCs == {"accepted", "extra", "erase", "walk", "farewell"}

(* An accept is outstanding, has succeeded, has failed, or was not started *)
(* again after a failure.  A communicator is wired while its connect is    *)
(* outstanding, fresh when just connected, lost when its read is about to  *)
(* fail, failed when it has, removed from erase() to the disconnected      *)
(* handler; dropped when it was destroyed without it; refused when its     *)
(* connect failed, forgotten when reset() cleared that error.              *)
TypeOK ==
    /\ plan \in Plans
    /\ working \in BOOLEAN
    /\ service \in {"none", "live", "stopped"}
    /\ runCount \in Nat /\ kickCount \in Nat /\ kicks \in Nat
    /\ tpc \in [Threads -> HandlerPCs \cup {"out", "loop", "run"}]
    /\ tcur \in [Threads -> Comms \cup {NoComm}]
    /\ ctl \in {"constructed", "up", "on_stop", "acceptor", "disconnect",
                "wait_clients", "stop_service", "wait_run", "stopped", "gave_up"}
    /\ resets \in Nat
    /\ acceptor \in {"none", "closed", "open"}
    /\ accepting \in {"none", "pending", "done", "error", "over"}
    /\ conn \in [Comms -> {"none", "wired", "fresh", "up", "lost", "failed",
                           "removed", "gone", "dropped", "refused", "forgotten"}]
    /\ closed \subseteq Comms /\ sessions \subseteq Comms
    /\ told \in [Comms -> Nat]
    /\ errors \in Seq(Comms)
    /\ reported \in [Comms -> Nat]
    /\ broken \in {"no", "acceptor", "errors"}

(* The constructor: initialize(), and create_acceptor() of a server.       *)
Init ==
    /\ plan \in Plans
    /\ working = TRUE /\ service = "live"
    /\ runCount = 0 /\ kickCount = 0 /\ kicks = 0
    /\ tpc = [t \in Threads |-> "out"]
    /\ tcur = [t \in Threads |-> NoComm]
    /\ ctl = "constructed" /\ resets = 0
    /\ acceptor = IF plan.role = "server" THEN "closed" ELSE "none"
    /\ accepting = "none"
    /\ conn = [c \in Comms |-> "none"]
    /\ closed = {} /\ sessions = {}
    /\ told = [c \in Comms |-> 0]
    /\ errors = <<>>
    /\ reported = [c \in Comms |-> 0]
    /\ broken = "no"

Goto(t, label) == tpc' = [tpc EXCEPT ![t] = label]

(* Communicators in the container.                                         *)
Listed == {c \in Comms : conn[c] \in {"fresh", "up", "lost", "failed"}}

(* Mutant: one kick at a time is thought to be enough.                     *)
SingleKick ==
    IF kickCount = 0
    THEN kickCount' = kickCount + 1 /\ kicks' = kicks + 1
    ELSE UNCHANGED <<kickCount, kicks>>

(* kick_dispatcher()                                                       *)
Kick ==
    IF kickCount < runCount
    THEN kickCount' = kickCount + 1 /\ kicks' = kicks + 1
    ELSE UNCHANGED <<kickCount, kicks>>

----------------------------------------------------------------------------
(* run(): counts the thread in, runs the io_service again and again while  *)
(* the dispatcher is working, counts the thread out and, for the last one, *)
(* wakes up stop(), which looks at the count again.                        *)

EnterRun(t) ==
    /\ tpc[t] = "out" /\ t \in plan.crew
    /\ ctl # "constructed"
    /\ runCount' = runCount + 1
    /\ Goto(t, "loop")
    /\ UNCHANGED <<plan, working, service, kickCount, kicks, ctl, resets,
                   tcur, acceptVars, connVars, errorVars, broken>>

RunService(t) ==
    /\ tpc[t] = "loop" /\ working
    /\ Goto(t, "run")
    /\ UNCHANGED <<plan, poolVars, tcur, acceptVars, connVars, errorVars,
                   broken>>

LeaveRun(t) ==
    /\ tpc[t] = "loop" /\ ~working
    /\ runCount' = runCount - 1
    /\ Goto(t, "out")
    /\ UNCHANGED <<plan, working, service, kickCount, kicks, ctl, resets,
                   tcur, acceptVars, connVars, errorVars, broken>>

(* io_service::run() returns because of io_service::stop().                *)
ServiceReturns(t) ==
    /\ tpc[t] = "run" /\ service = "stopped"
    /\ Goto(t, "loop")
    /\ UNCHANGED <<plan, poolVars, tcur, acceptVars, connVars, errorVars,
                   broken>>

----------------------------------------------------------------------------
(* Handlers the io_service runs, as long as it is not stopped.             *)

Ready(t) == tpc[t] = "run" /\ service = "live"

(* timer_handler(): a tick that finds enough kicks changes nothing.        *)
TimerHandler(t) ==
    /\ Ready(t)
    /\ kickCount < runCount
    /\ Kick
    /\ UNCHANGED <<plan, working, service, runCount, ctl, resets, tpc, tcur,
                   acceptVars, connVars, errorVars, broken>>

(* kick_handler(): process(), which begins with a client's extra_process().*)
KickHandler(t) ==
    /\ Ready(t) /\ kicks > 0
    /\ kicks' = kicks - 1
    /\ kickCount' = kickCount - 1
    /\ Goto(t, IF plan.role = "client" THEN "extra" ELSE "walk")
    /\ UNCHANGED <<plan, working, service, runCount, ctl, resets, tcur,
                   acceptVars, connVars, errorVars, broken>>

(* mt_asio_read_handler() with an error.                                   *)
ReadFailed(t, c) ==
    /\ Ready(t) /\ conn[c] = "lost"
    /\ conn' = [conn EXCEPT ![c] = "failed"]
    /\ Kick
    /\ UNCHANGED <<plan, working, service, runCount, ctl, resets, tpc, tcur,
                   acceptVars, closed, sessions, told, errorVars, broken>>

(* asio_accept_handler(): the client is listed and processing kicked; the  *)
(* sentry accepts the next one when the handler ends ...                   *)
AcceptHandler(t, c) ==
    /\ Ready(t) /\ accepting = "done"
    /\ c \in plan.comms /\ conn[c] = "none"
    /\ accepting' = "none"
    /\ conn' = [conn EXCEPT ![c] = "fresh"]
    /\ Kick
    /\ Goto(t, "accepted")
    /\ UNCHANGED <<plan, working, service, runCount, ctl, resets, tcur,
                   acceptor, closed, sessions, told, errorVars, broken>>

(* Mutant: the sentry is dismissed when the dispatcher is not working.     *)
ForgetAccept(t) ==
    /\ tpc[t] = "accepted"
    /\ Goto(t, "run")
    /\ UNCHANGED <<plan, poolVars, tcur, acceptVars, connVars, errorVars,
                   broken>>

(* ... just_start_accept(), which asserts that there is an acceptor and    *)
(* opens it if it is closed.                                               *)
StartAccept(t) ==
    /\ tpc[t] = "accepted"
    /\ Goto(t, "run")
    /\ IF acceptor = "none"
       THEN broken' = "acceptor" /\ UNCHANGED acceptVars
       ELSE acceptor' = "open" /\ accepting' = "pending" /\ UNCHANGED broken
    /\ UNCHANGED <<plan, poolVars, tcur, connVars, errorVars>>

(* asio_accept_handler() with an error accepts no more.                    *)
AcceptFailed(t) ==
    /\ Ready(t) /\ accepting = "error"
    /\ accepting' = "over"
    /\ UNCHANGED <<plan, poolVars, tpc, tcur, acceptor, connVars, errorVars,
                   broken>>

(* asio_connect_handler(); a failure is kept for process_connect_error().  *)
Connected(t, c) ==
    /\ Ready(t) /\ conn[c] = "wired"
    /\ conn' = [conn EXCEPT ![c] = "fresh"]
    /\ Kick
    /\ UNCHANGED <<plan, working, service, runCount, ctl, resets, tpc, tcur,
                   acceptVars, closed, sessions, told, errorVars, broken>>

ConnectFailed(t, c) ==
    /\ Ready(t) /\ conn[c] = "wired"
    /\ conn' = [conn EXCEPT ![c] = "refused"]
    /\ errors' = Append(errors, c)
    /\ Kick
    /\ UNCHANGED <<plan, working, service, runCount, ctl, resets, tpc, tcur,
                   acceptVars, closed, sessions, told, reported, broken>>

----------------------------------------------------------------------------
(* process(): process_connect_error() of a client, then the clients.       *)

(* The copy of front() ...                                                 *)
TakeError(t) ==
    /\ tpc[t] = "extra" /\ errors # <<>>
    /\ tcur' = [tcur EXCEPT ![t] = Head(errors)]
    /\ Goto(t, "erase")
    /\ UNCHANGED <<plan, poolVars, acceptVars, connVars, errorVars, broken>>

(* Mutant: the error is erased after its handler returned, not before.     *)
EraseAfterCall(t) ==
    /\ tpc[t] = "erase" /\ errors # <<>>
    /\ reported' = [reported EXCEPT ![tcur[t]] = @ + 1]
    /\ tcur' = [tcur EXCEPT ![t] = NoComm]
    /\ \/ Goto(t, "extra") /\ errors' = Tail(errors)
       \/ Goto(t, "walk") /\ UNCHANGED errors
    /\ UNCHANGED <<plan, poolVars, acceptVars, connVars, broken>>

(* ... erase(begin()), of whatever is there by now, and the call of the    *)
(* handlers; when one throws the rest waits for the next pass.             *)
ReportError(t) ==
    /\ tpc[t] = "erase"
    /\ IF errors = <<>>
       THEN broken' = "errors" /\ UNCHANGED errors
       ELSE errors' = Tail(errors) /\ UNCHANGED broken
    /\ reported' = [reported EXCEPT ![tcur[t]] = @ + 1]
    /\ tcur' = [tcur EXCEPT ![t] = NoComm]
    /\ Goto(t, "extra") \/ Goto(t, "walk")
    /\ UNCHANGED <<plan, poolVars, acceptVars, connVars>>

NoErrors(t) ==
    /\ tpc[t] = "extra" /\ errors = <<>>
    /\ Goto(t, "walk")
    /\ UNCHANGED <<plan, poolVars, tcur, acceptVars, connVars, errorVars,
                   broken>>

(* A client just connected gets its session and its first read.            *)
ServeFresh(t, c) ==
    /\ tpc[t] = "walk" /\ conn[c] = "fresh"
    /\ sessions' = sessions \cup {c}
    /\ conn' = [conn EXCEPT ![c] = IF c \in closed THEN "lost" ELSE "up"]
    /\ UNCHANGED <<plan, poolVars, tpc, tcur, acceptVars, closed, told,
                   errorVars, broken>>

(* handle_disconnected(): erase() ...                                      *)
RemoveFailed(t, c) ==
    /\ tpc[t] = "walk" /\ conn[c] = "failed"
    /\ conn' = [conn EXCEPT ![c] = "removed"]
    /\ tcur' = [tcur EXCEPT ![t] = c]
    /\ Goto(t, "farewell")
    /\ UNCHANGED <<plan, poolVars, acceptVars, closed, sessions, told,
                   errorVars, broken>>

(* ... and the disconnected handler.                                       *)
CallDisconnected(t) ==
    /\ tpc[t] = "farewell"
    /\ conn' = [conn EXCEPT ![tcur[t]] = "gone"]
    /\ told' = [told EXCEPT ![tcur[t]] = IF tcur[t] \in sessions THEN @ + 1 ELSE @]
    /\ tcur' = [tcur EXCEPT ![t] = NoComm]
    /\ Goto(t, "walk")
    /\ UNCHANGED <<plan, poolVars, acceptVars, closed, sessions, errorVars,
                   broken>>

EndWalk(t) ==
    /\ tpc[t] = "walk"
    /\ \A c \in Comms : conn[c] \notin {"fresh", "failed"}
    /\ Goto(t, "run")
    /\ UNCHANGED <<plan, poolVars, tcur, acceptVars, connVars, errorVars,
                   broken>>

----------------------------------------------------------------------------
(* Peers and the operating system.                                         *)

PeerConnects ==
    /\ accepting = "pending"
    /\ accepting' \in {"done", "error"}
    /\ UNCHANGED <<plan, poolVars, tpc, tcur, acceptor, connVars, errorVars,
                   broken>>

PeerLeaves(c) ==
    /\ conn[c] = "up"
    /\ conn' = [conn EXCEPT ![c] = "lost"]
    /\ UNCHANGED <<plan, poolVars, tpc, tcur, acceptVars, closed, sessions,
                   told, errorVars, broken>>

----------------------------------------------------------------------------
(* The thread that starts and stops.                                       *)

(* server::accept(); a client connects whenever it likes.                  *)
Start ==
    /\ ctl = "constructed"
    /\ ctl' = "up"
    /\ IF plan.role = "server" THEN acceptor' = "open" /\ accepting' = "pending"
                          ELSE UNCHANGED acceptVars
    /\ UNCHANGED <<plan, working, service, runCount, kickCount, kicks,
                   resets, tpc, tcur, connVars, errorVars, broken>>

Connect(c) ==
    /\ ctl = "up" /\ plan.role = "client"
    /\ c \in plan.comms /\ conn[c] = "none"
    /\ conn' = [conn EXCEPT ![c] = "wired"]
    /\ UNCHANGED <<plan, poolVars, tpc, tcur, acceptVars, closed, sessions,
                   told, errorVars, broken>>

Stop ==
    /\ ctl = "up"
    /\ working' = FALSE
    /\ ctl' = IF plan.role = "server" THEN "on_stop" ELSE "disconnect"
    /\ UNCHANGED <<plan, service, runCount, kickCount, kicks, resets, tpc,
                   tcur, acceptVars, connVars, errorVars, broken>>

(* A closed acceptor completes the outstanding accept with an error.       *)
Aborted == IF accepting = "pending" THEN "error" ELSE accepting

(* on_stop() of a server, destroy_acceptor(): close() ...                  *)
CloseAcceptor ==
    /\ ctl = "on_stop"
    /\ acceptor' = "closed"
    /\ accepting' = Aborted
    /\ ctl' = "acceptor"
    /\ UNCHANGED <<plan, working, service, runCount, kickCount, kicks,
                   resets, tpc, tcur, connVars, errorVars, broken>>

(* ... and _acceptor.reset().                                              *)
DestroyAcceptor ==
    /\ ctl = "acceptor"
    /\ acceptor' = "none"
    /\ accepting' = Aborted
    /\ ctl' = "disconnect"
    /\ UNCHANGED <<plan, working, service, runCount, kickCount, kicks,
                   resets, tpc, tcur, connVars, errorVars, broken>>

(* actually_disconnect_all()                                               *)
DisconnectAll ==
    /\ ctl = "disconnect"
    /\ closed' = closed \cup Listed
    /\ conn' = [c \in Comms |-> IF conn[c] = "up" THEN "lost" ELSE conn[c]]
    /\ ctl' = "wait_clients"
    /\ UNCHANGED <<plan, working, service, runCount, kickCount, kicks,
                   resets, tpc, tcur, acceptVars, sessions, told, errorVars,
                   broken>>

(* Mutant: the loop does not look at the clock.                            *)
WaitForEver ==
    /\ ctl = "wait_clients" /\ Listed = {}
    /\ ctl' = "stop_service"
    /\ UNCHANGED <<plan, working, service, runCount, kickCount, kicks,
                   resets, tpc, tcur, acceptVars, connVars, errorVars,
                   broken>>

(* The loop ends when the container is empty or its time is over.          *)
WaitClients ==
    /\ ctl = "wait_clients"
    /\ ctl' = "stop_service"
    /\ UNCHANGED <<plan, working, service, runCount, kickCount, kicks, resets,
                   tpc, tcur, acceptVars, connVars, errorVars, broken>>

(* Mutant: the work is destroyed, the io_service is not told to stop.      *)
KeepService ==
    /\ ctl = "stop_service"
    /\ ctl' = "wait_run"
    /\ UNCHANGED <<plan, working, service, runCount, kickCount, kicks,
                   resets, tpc, tcur, acceptVars, connVars, errorVars,
                   broken>>

(* destroy_service_work(), io_service::stop()                              *)
StopService ==
    /\ ctl = "stop_service"
    /\ service' = "stopped"
    /\ ctl' = "wait_run"
    /\ UNCHANGED <<plan, working, runCount, kickCount, kicks, resets, tpc,
                   tcur, acceptVars, connVars, errorVars, broken>>

(* finalize(): clear_clients(); with the io_service go the timer and all   *)
(* handlers it still holds.                                                *)
Finalized ==
    /\ service' = "none"
    /\ kicks' = 0
    /\ accepting' = "none"
    /\ conn' = [c \in Comms |-> IF c \in Listed \/ conn[c] = "wired" THEN "dropped"
                                ELSE conn[c]]
    /\ ctl' = "stopped"

(* Mutant: the result of wait_for_run_finished() is ignored.               *)
FinalizeAnyway ==
    /\ ctl = "wait_run"
    /\ Finalized
    /\ UNCHANGED <<plan, working, runCount, kickCount, resets, tpc, tcur,
                   acceptor, closed, sessions, told, errorVars, broken>>

(* wait_for_run_finished() returns true.                                   *)
Finalize ==
    /\ ctl = "wait_run" /\ runCount = 0
    /\ Finalized
    /\ UNCHANGED <<plan, working, runCount, kickCount, resets, tpc, tcur,
                   acceptor, closed, sessions, told, errorVars, broken>>

(* It returns false: stop() returns and leaves everything as it is.        *)
GiveUp ==
    /\ ctl = "wait_run" /\ runCount > 0
    /\ ctl' = "gave_up"
    /\ UNCHANGED <<plan, working, service, runCount, kickCount, kicks, resets,
                   tpc, tcur, acceptVars, connVars, errorVars, broken>>

(* reset(): initialize() and on_reset(); nothing resets _kick_count.       *)
Reset ==
    /\ ctl = "stopped" /\ resets < plan.resets
    /\ \A t \in Threads : tpc[t] = "out"
    /\ working' = TRUE /\ service' = "live"
    /\ acceptor' = IF plan.role = "server" THEN "closed" ELSE "none"
    /\ errors' = <<>>
    /\ conn' = [c \in Comms |->
                  IF \E i \in DOMAIN errors : errors[i] = c THEN "forgotten" ELSE conn[c]]
    /\ ctl' = "constructed" /\ resets' = resets + 1
    /\ UNCHANGED <<plan, runCount, kickCount, kicks, tpc, tcur, accepting,
                   closed, sessions, told, reported, broken>>

----------------------------------------------------------------------------
Work(t) ==
    \/ RunService(t) \/ LeaveRun(t) \/ ServiceReturns(t) \/ StartAccept(t)
    \/ TakeError(t) \/ ReportError(t) \/ NoErrors(t)
    \/ \E c \in Comms : ServeFresh(t, c) \/ RemoveFailed(t, c)
    \/ CallDisconnected(t) \/ EndWalk(t)

Dispatch(t) ==
    \/ TimerHandler(t) \/ KickHandler(t) \/ AcceptFailed(t)
    \/ \E c \in Comms : ReadFailed(t, c) \/ AcceptHandler(t, c)
                        \/ Connected(t, c) \/ ConnectFailed(t, c)

Stopping ==
    \/ CloseAcceptor \/ DestroyAcceptor \/ DisconnectAll
    \/ WaitClients \/ StopService \/ Finalize \/ GiveUp

Peers == PeerConnects \/ \E c \in Comms : PeerLeaves(c)

Control == Start \/ (\E c \in Comms : Connect(c)) \/ Stop \/ Stopping \/ Reset

(* Nothing is known of what follows undefined behaviour.                   *)
Next ==
    /\ broken = "no"
    /\ \/ \E t \in Threads : EnterRun(t) \/ Work(t) \/ Dispatch(t)
       \/ Peers
       \/ Control

Spec == Init /\ [][Next]_vars

(***************************************************************************)
(* Fairness.  A thread inside run() keeps going; stop() does, too, and its *)
(* waits elapse; the io_service, a queue, gets round to each kind of       *)
(* handler that is ready again and again.  Nothing is assumed of peers, or *)
(* of when threads enter run() and stop() is called.                       *)
(***************************************************************************)
Fairness ==
    /\ \A t \in Threads : WF_vars(broken = "no" /\ Work(t))
    /\ WF_vars(broken = "no" /\ Stopping)
    /\ SF_vars(broken = "no" /\ \E t \in Threads : KickHandler(t))
    /\ SF_vars(broken = "no" /\ \E t \in Threads : TimerHandler(t))
    /\ \A c \in Comms : SF_vars(broken = "no" /\ \E t \in Threads : ReadFailed(t, c))

FairSpec == Spec /\ Fairness

----------------------------------------------------------------------------
(* The io_service is not destroyed under a thread that runs it: finalize() *)
(* waits for the run count, which counts a thread in before it looks at    *)
(* _is_working and out when it is through.                                 *)
ServiceAlive ==
    /\ \A t \in Threads : tpc[t] \in HandlerPCs \cup {"run"} => service # "none"
    /\ runCount = Cardinality({t \in Threads : tpc[t] # "out"})

(* A session is told once when its client leaves by erase() and the        *)
(* disconnected handler, and never otherwise; when stop() has finalized    *)
(* nobody is half-way: every communicator has left, or its connect failed, *)
(* or it was dropped.  A session that was dropped is not told, which is    *)
(* less than "It also breakes all opened connections" says: it happens to  *)
(* those still listed when the wait for them is over, and to those that    *)
(* were accepted or connected after disconnect_all().                      *)
ToldOrDropped ==
    /\ \A c \in Comms : told[c] = IF conn[c] = "gone" /\ c \in sessions THEN 1 ELSE 0
    /\ ctl = "stopped" =>
          \A c \in Comms : conn[c] \in {"none", "gone", "dropped", "refused", "forgotten"}

(* A server that has not met an error of accept has exactly one accept     *)
(* outstanding, or a thread in the handler that starts the next one.       *)
OneAccept ==
    plan.role = "server" /\ ctl = "up" =>
        IF accepting = "none" THEN Cardinality({t \in Threads : tpc[t] = "accepted"}) = 1
        ELSE \A t \in Threads : tpc[t] # "accepted"

(* A failed connect is not reported while it waits to be, and never by     *)
(* more threads than there are, whatever the handlers throw: two of them   *)
(* may copy the same one and erase another.  A single thread reports each  *)
(* of them exactly once.                                                   *)
ErrorsOnce ==
    LET waits(c) == {i \in DOMAIN errors : errors[i] = c} IN
    /\ \A c \in Comms :
          /\ reported[c] <= Cardinality(plan.crew)
          /\ reported[c] > 0 => conn[c] = "refused" /\ waits(c) = {}
    /\ Cardinality(plan.crew) = 1 =>
          /\ broken # "errors"
          /\ \A c \in Comms : reported[c] + Cardinality(waits(c))
                                 = IF conn[c] = "refused" THEN 1 ELSE 0

(* stop() returns, whatever peers and handlers do.                         *)
StopReturns ==
    ~working ~> (ctl \in {"stopped", "gave_up"} \/ broken # "no")

(* "run() will return immediately until reset() is called".                *)
RunReturns ==
    \A t \in Threads : (~working /\ tpc[t] # "out") ~> (tpc[t] = "out" \/ broken # "no")

(* Kicks that were discarded with an io_service and are counted still.     *)
LostKicks == kickCount - kicks

(* A communicator just connected gets its session and a lost one is        *)
(* removed as long as the dispatcher works, unless lost kicks stand for    *)
(* all the kicks it allows.                                                *)
Served ==
    \A c \in Comms : \A state \in {"fresh", "failed"} :
        conn[c] = state ~>
            (conn[c] # state \/ ~working \/ LostKicks >= runCount \/ broken # "no")
=============================================================================
