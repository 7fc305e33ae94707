----------------------------- MODULE Dispatcher -----------------------------
(***************************************************************************)
(* The dispatcher (dispatcher.cpp) between reset() and stop(): a pool of   *)
(* threads inside run() executes asio handlers (accept or connect, read,   *)
(* write, timer, kick); a kick makes a thread walk the communicators, one  *)
(* at a time, out of the container and back into it.  Callers outside the  *)
(* pool send and disconnect concurrently.  A communicator is abstracted to *)
(* what the dispatcher sees of it: the just connected flag, the session,   *)
(* the socket, the outstanding read and write, the channel errors, and     *)
(* whether messages wait in its buffer and in its outgoing queue.          *)
(***************************************************************************)
EXTENDS CommContainer, FiniteSets

CONSTANTS
    Threads,            \* threads inside dispatcher::run()
    Users,              \* threads calling send_one, disconnect_one, ...
    MaxIn,              \* bound on the complete messages in a read buffer
    Replying,           \* communicators whose session answers messages
    IdleTimer,          \* FALSE: dispatcher_idle_tout is infinite (zero)
    NoComm

ASSUME DispatcherAssumption ==
    /\ IsFiniteSet(Threads) /\ Threads # {}
    /\ IsFiniteSet(Users)
    /\ Threads \cap Users = {}
    /\ MaxIn \in Nat
    /\ Replying \subseteq Comms
    /\ IdleTimer \in BOOLEAN
    /\ NoComm \notin Comms

Actors == Threads \cup Users

VARIABLES
    pending,            \* created, async_accept or async_connect not completed
    justConnected,      \* _just_connected
    sessions,           \* communicators with a valid _user_session
    closed,             \* the socket was closed locally
    read,               \* the outstanding async_read_some and its result
    writing,            \* at least one async_write is outstanding
    failed,             \* _read_error and _write_error that are set
    inbox,              \* complete messages in _in_buffer, flag updated
    outbox,             \* _prepeared_m_queue is not empty
    told,               \* history: calls of the disconnected handler
    pc,                 \* where each actor is
    cur,                \* the communicator a thread is working on
    taken,              \* the local vector comms of process_clients()
    kicks,              \* _kick_count: kick handlers posted to the io_service
    timer               \* "armed", "off", or the thread in timer_handler()

commState == <<justConnected, sessions, closed, read, writing, failed, inbox,
               outbox, told>>
vars == <<clients, excluded, pending, commState, pc, cur, taken, kicks, timer>>

(* Inside mt_process(), called by process_client().                        *)
ProcessPCs == {"mt_process", "arrived", "errors"}

PCs == ProcessPCs \cup
       {"idle", "mark", "can_kick", "post", "take_out", "disconnected",
        "call_disconnected", "get_back"}

TypeOK ==
    /\ clients \subseteq Comms
    /\ excluded \subseteq Comms
    /\ pending \subseteq Comms
    /\ justConnected \subseteq Comms
    /\ sessions \subseteq Comms
    /\ closed \subseteq Comms
    /\ read \in [Comms -> {"none", "pending", "data", "error"}]
    /\ writing \subseteq Comms
    /\ failed \in [Comms -> SUBSET {"read", "write"}]
    /\ inbox \in [Comms -> 0..MaxIn]
    /\ outbox \subseteq Comms
    /\ told \in [Comms -> Nat]
    /\ pc \in [Actors -> PCs]
    /\ cur \in [Actors -> Comms \cup {NoComm}]
    /\ taken \in [Actors -> SUBSET Comms]
    /\ kicks \in Nat
    /\ timer \in Actors \cup {"armed", "off"}

Init ==
    /\ ContainerInit
    /\ pending = Comms
    /\ justConnected = {} /\ sessions = {} /\ closed = {}
    /\ read = [c \in Comms |-> "none"]
    /\ writing = {}
    /\ failed = [c \in Comms |-> {}]
    /\ inbox = [c \in Comms |-> 0]
    /\ outbox = {}
    /\ told = [c \in Comms |-> 0]
    /\ pc = [a \in Actors |-> "idle"]
    /\ cur = [a \in Actors |-> NoComm]
    /\ taken = [a \in Actors |-> {}]
    /\ kicks = 0
    /\ timer = IF IdleTimer THEN "armed" ELSE "off"

Goto(a, label) == pc' = [pc EXCEPT ![a] = label]

(* Leaves the current communicator and goes to label.                      *)
Leave(a, label) == Goto(a, label) /\ cur' = [cur EXCEPT ![a] = NoComm]

----------------------------------------------------------------------------
(* kick_dispatcher(): can_kick() compares and then increments, two steps   *)
(* another actor can come between; post() follows the increment.           *)

RunCount == Cardinality(Threads)

(* Where a kick returns to: into the loop of process_clients(), or out of  *)
(* the handler; timer_handler() re-arms the timer on its way out.          *)
Resume(a) ==
    /\ Goto(a, IF taken[a] # {} THEN "take_out" ELSE "idle")
    /\ timer' = IF timer = a THEN "armed" ELSE timer

(* Mutant: can_kick() without the bound on the run count.                  *)
CanKickAlways(a) ==
    /\ pc[a] = "can_kick"
    /\ Goto(a, "post")
    /\ UNCHANGED <<container, pending, commState, cur, taken, kicks, timer>>

CanKick(a) ==
    /\ pc[a] = "can_kick"
    /\ \/ /\ kicks < RunCount
          /\ Goto(a, "post")
          /\ UNCHANGED timer
       \/ /\ kicks >= RunCount
          /\ Resume(a)
    /\ UNCHANGED <<container, pending, commState, cur, taken, kicks>>

PostKick(a) ==
    /\ pc[a] = "post"
    /\ kicks' = kicks + 1
    /\ Resume(a)
    /\ UNCHANGED <<container, pending, commState, cur, taken>>

(* timer_handler() starts; its kick and the re-arming follow.              *)
TimerHandler(t) ==
    /\ pc[t] = "idle"
    /\ timer = "armed"
    /\ timer' = t
    /\ Goto(t, "can_kick")
    /\ UNCHANGED <<container, pending, commState, cur, taken, kicks>>

(* kick_handler(): dec_kick_count(), then process() walks the clients.     *)
KickHandler(t) ==
    /\ pc[t] = "idle"
    /\ kicks > 0
    /\ kicks' = kicks - 1
    /\ Goto(t, "take_out")
    /\ UNCHANGED <<container, pending, commState, cur, taken, timer>>

----------------------------------------------------------------------------
(* process_clients(): take one communicator out at a time, process it, and *)
(* give all of them back when no communicator is left to take.             *)

TakeClient(t) ==
    /\ pc[t] = "take_out"
    /\ \E c \in clients :
          /\ TakeOut(c)
          /\ cur' = [cur EXCEPT ![t] = c]
          /\ taken' = [taken EXCEPT ![t] = @ \cup {c}]
    /\ Goto(t, "mt_process")
    /\ UNCHANGED <<pending, commState, kicks, timer>>

(* Mutant: process_clients() returns without giving its clients back.      *)
ForgetClients(t) ==
    /\ pc[t] = "take_out"
    /\ clients = {}
    /\ Goto(t, "idle")
    /\ taken' = [taken EXCEPT ![t] = {}]
    /\ UNCHANGED <<container, pending, commState, cur, kicks, timer>>

NoneLeft(t) ==
    /\ pc[t] = "take_out"
    /\ clients = {}
    /\ Goto(t, IF taken[t] = {} THEN "idle" ELSE "get_back")
    /\ UNCHANGED <<container, pending, commState, cur, taken, kicks, timer>>

(* One call of get_back() of the closing for_each; the thread returns to   *)
(* the io_service after the last one.                                      *)
GiveBack(t) ==
    /\ pc[t] = "get_back"
    /\ \E c \in taken[t] :
          /\ GetBack(c)
          /\ taken' = [taken EXCEPT ![t] = @ \ {c}]
          /\ Goto(t, IF taken[t] = {c} THEN "idle" ELSE "get_back")
    /\ UNCHANGED <<pending, commState, cur, kicks, timer>>

(* Mutant: the read is started in the success path only, instead of by the *)
(* sentry that runs on every exit of handle_connected_success().           *)
ReadOnSuccessOnly(t) ==
    LET c == cur[t] IN
    /\ pc[t] = "mt_process" /\ c \in justConnected
    /\ justConnected' = justConnected \ {c}
    /\ \/ /\ sessions' = sessions \cup {c}
          /\ Goto(t, "arrived")
          /\ read' = [read EXCEPT ![c] = "pending"]
          /\ UNCHANGED <<closed, cur>>
       \/ /\ closed' = closed \cup {c}
          /\ Leave(t, "take_out")
          /\ UNCHANGED <<sessions, read>>
    /\ UNCHANGED <<container, pending, writing, failed, inbox, outbox, told,
                   taken, kicks, timer>>

(* process_connect(): the session is created and its connected handler     *)
(* called, then the first read starts, whatever happened.  The handler may *)
(* throw: disconnected_error ends the connection, anything else this pass  *)
(* over c.  A session that cannot be created gets its socket closed.       *)
ProcessConnect(t) ==
    LET c == cur[t] IN
    /\ pc[t] = "mt_process" /\ c \in justConnected
    /\ justConnected' = justConnected \ {c}
    /\ read' = [read EXCEPT ![c] = "pending"]
    /\ \/ /\ sessions' = sessions \cup {c}
          /\ \/ Goto(t, "arrived") /\ UNCHANGED cur
             \/ Goto(t, "disconnected") /\ UNCHANGED cur
             \/ Leave(t, "take_out")
          /\ UNCHANGED closed
       \/ /\ closed' = closed \cup {c}
          /\ Leave(t, "take_out")
          /\ UNCHANGED sessions
    /\ UNCHANGED <<container, pending, writing, failed, inbox, outbox, told,
                   taken, kicks, timer>>

InProcess(t) ==
    \/ pc[t] = "arrived"
    \/ pc[t] = "mt_process" /\ cur[t] \notin justConnected

(* mt_process_arrived() hands messages to the session until the buffer is  *)
(* empty or the quantum has elapsed: at least one is decoded per pass.     *)
Arrived(c) ==
    /\ c \in sessions
    /\ \E left \in 0..MaxIn : left < inbox[c] /\ inbox' = [inbox EXCEPT ![c] = left]

(* The arrived stage and mt_start_write(), which is bounded by a quantum   *)
(* of its own, end normally.                                               *)
Queues(c) ==
    \E queued \in {outbox, outbox \cup ({c} \cap Replying)} :
        /\ \/ Arrived(c)
           \/ (c \notin sessions \/ inbox[c] = 0) /\ UNCHANGED inbox /\ queued = outbox
        /\ outbox' \in {queued, queued \ {c}}
        /\ writing' = writing \cup ({c} \cap queued)

ProcessQueues(t) ==
    /\ InProcess(t)
    /\ Queues(cur[t])
    /\ Goto(t, "errors")
    /\ UNCHANGED <<container, pending, justConnected, sessions, closed, read,
                   failed, told, cur, taken, kicks, timer>>

(* A sent, an arrived or a timeout handler of the session threw, and the   *)
(* remaining stages are skipped; of the messages taken from the buffer,    *)
(* those before the one whose handler threw may have been answered.        *)
(* disconnected_error ends the connection; any other exception is reported *)
(* by handle_error(), and nothing is kicked for what is left to do.        *)
HandlerThrows(t) ==
    LET c == cur[t] IN
    /\ InProcess(t)
    /\ c \in sessions
    /\ \/ UNCHANGED <<inbox, outbox, writing>>
       \/ /\ Arrived(c)
          /\ \/ UNCHANGED outbox
             \/ inbox'[c] + 1 < inbox[c] /\ outbox' = outbox \cup ({c} \cap Replying)
          /\ UNCHANGED writing
       \/ Queues(c)
    /\ \/ Leave(t, "take_out")
       \/ Goto(t, "disconnected") /\ UNCHANGED cur
    /\ UNCHANGED <<container, pending, justConnected, sessions, closed, read,
                   failed, told, taken, kicks, timer>>

(* Mutant: mt_handle_ch_error() ignores errors it has no case for.         *)
ErrorIgnored(t) ==
    LET c == cur[t] IN
    /\ pc[t] = "errors"
    /\ failed[c] # {}
    /\ failed' = [failed EXCEPT ![c] = {}]
    /\ \/ Goto(t, "disconnected") /\ UNCHANGED cur
       \/ Leave(t, "take_out")
    /\ UNCHANGED <<container, pending, justConnected, sessions, closed, read,
                   writing, inbox, outbox, told, taken, kicks, timer>>

(* mt_process_errors(): both channel errors are cleared and the connection *)
(* ends.                                                                   *)
ChannelError(t) ==
    LET c == cur[t] IN
    /\ pc[t] = "errors"
    /\ failed[c] # {}
    /\ failed' = [failed EXCEPT ![c] = {}]
    /\ Goto(t, "disconnected")
    /\ UNCHANGED <<container, pending, justConnected, sessions, closed, read,
                   writing, inbox, outbox, told, cur, taken, kicks, timer>>

(* mt_process() returned, and what it left unprocessed is kicked; or the   *)
(* after-processed handler threw, and nothing is.                          *)
EndProcess(t) ==
    LET c == cur[t] IN
    /\ pc[t] = "errors"
    /\ failed[c] = {}
    /\ Leave(t, IF inbox[c] > 0 \/ c \in outbox THEN "can_kick" ELSE "take_out")
    /\ UNCHANGED <<container, pending, commState, taken, kicks, timer>>

AfterProcessedThrows(t) ==
    /\ pc[t] = "errors"
    /\ failed[cur[t]] = {}
    /\ cur[t] \in sessions
    /\ Leave(t, "take_out")
    /\ UNCHANGED <<container, pending, commState, taken, kicks, timer>>

(* handle_disconnected(): only the caller whose erase() removes the client *)
(* goes on to close it and to call the session's disconnected handler.     *)
RemoveClient(t) ==
    LET c == cur[t] IN
    /\ pc[t] = "disconnected"
    /\ Erase(c)
    /\ IF c \in Contents THEN Goto(t, "call_disconnected") /\ UNCHANGED cur
                         ELSE Leave(t, "take_out")
    /\ UNCHANGED <<pending, commState, taken, kicks, timer>>

CallDisconnected(t) ==
    LET c == cur[t] IN
    /\ pc[t] = "call_disconnected"
    /\ closed' = closed \cup {c}
    /\ told' = [told EXCEPT ![c] = IF c \in sessions THEN @ + 1 ELSE @]
    /\ Leave(t, "take_out")
    /\ UNCHANGED <<container, pending, justConnected, sessions, read, writing,
                   failed, inbox, outbox, taken, kicks, timer>>

----------------------------------------------------------------------------
(* The handlers of asynchronous operations, run by a thread of the pool.   *)

(* async_accept or async_connect succeeded: insert_comm(client) ...        *)
AcceptHandler(t, c) ==
    /\ pc[t] = "idle"
    /\ c \in pending
    /\ pending' = pending \ {c}
    /\ Insert(c)
    /\ Goto(t, "mark")
    /\ cur' = [cur EXCEPT ![t] = c]
    /\ UNCHANGED <<commState, taken, kicks, timer>>

(* ... and then asio_success_connect_handler(), and the kick.              *)
MarkConnected(t) ==
    /\ pc[t] = "mark"
    /\ justConnected' = justConnected \cup {cur[t]}
    /\ Leave(t, "can_kick")
    /\ UNCHANGED <<container, pending, sessions, closed, read, writing, failed,
                   inbox, outbox, told, taken, kicks, timer>>

(* mt_asio_read_handler(): append and start the next read, or register the *)
(* error and start none; then kick.                                        *)
ReadHandler(t, c) ==
    /\ pc[t] = "idle"
    /\ \/ /\ read[c] = "data"
          /\ inbox' = [inbox EXCEPT ![c] = @ + 1]
          /\ read' = [read EXCEPT ![c] = "pending"]
          /\ failed' = [failed EXCEPT ![c] = @ \ {"read"}]
       \/ /\ read[c] = "error"
          /\ read' = [read EXCEPT ![c] = "none"]
          /\ failed' = [failed EXCEPT ![c] = @ \cup {"read"}]
          /\ UNCHANGED inbox
    /\ Goto(t, "can_kick")
    /\ UNCHANGED <<container, pending, justConnected, sessions, closed, writing,
                   outbox, told, cur, taken, kicks, timer>>

(* mt_asio_write_handler(): success clears the write error and kicks       *)
(* nobody; an error is registered and kicked.  Other writes may still be   *)
(* outstanding.                                                            *)
WriteHandler(t, c) ==
    /\ pc[t] = "idle"
    /\ c \in writing
    /\ writing' \in {writing, writing \ {c}}
    /\ \/ /\ failed' = [failed EXCEPT ![c] = @ \ {"write"}]
          /\ UNCHANGED pc
       \/ /\ failed' = [failed EXCEPT ![c] = @ \cup {"write"}]
          /\ Goto(t, "can_kick")
    /\ UNCHANGED <<container, pending, justConnected, sessions, closed, read,
                   inbox, outbox, told, cur, taken, kicks, timer>>

(* The operating system completes the outstanding read: with data as long  *)
(* as the socket is open, with an error when the peer is gone or the       *)
(* socket was closed here.                                                 *)
CompleteRead(c) ==
    /\ read[c] = "pending"
    /\ \/ /\ c \notin closed /\ inbox[c] < MaxIn
          /\ read' = [read EXCEPT ![c] = "data"]
       \/ read' = [read EXCEPT ![c] = "error"]
    /\ UNCHANGED <<container, pending, justConnected, sessions, closed, writing,
                   failed, inbox, outbox, told, pc, cur, taken, kicks, timer>>

----------------------------------------------------------------------------
(* Calls from outside the pool; each ends with a kick.                     *)

SendOne(u, c) ==
    /\ pc[u] = "idle"
    /\ c \in Contents \cap sessions
    /\ outbox' = outbox \cup {c}
    /\ Goto(u, "can_kick")
    /\ UNCHANGED <<container, pending, justConnected, sessions, closed, read,
                   writing, failed, inbox, told, cur, taken, kicks, timer>>

(* disconnect_one() and disconnect_all() only close sockets: the pool sees *)
(* the error and removes the communicator.                                 *)
Disconnect(u, S) ==
    /\ pc[u] = "idle"
    /\ closed' = closed \cup S
    /\ Goto(u, "can_kick")
    /\ UNCHANGED <<container, pending, justConnected, sessions, read, writing,
                   failed, inbox, outbox, told, cur, taken, kicks, timer>>

DisconnectOne(u, c) == c \in Contents /\ Disconnect(u, {c})
DisconnectAll(u) == Disconnect(u, Contents)

----------------------------------------------------------------------------
Kick(a) == CanKick(a) \/ PostKick(a)

(* What a thread does once a handler or a pass has begun.                  *)
Work(t) ==
    \/ TakeClient(t) \/ NoneLeft(t) \/ GiveBack(t)
    \/ ProcessConnect(t) \/ ProcessQueues(t) \/ HandlerThrows(t)
    \/ ChannelError(t) \/ EndProcess(t) \/ AfterProcessedThrows(t)
    \/ RemoveClient(t) \/ CallDisconnected(t) \/ MarkConnected(t)

(* What the io_service may dispatch to an idle thread.                     *)
Dispatch(t) ==
    \/ TimerHandler(t) \/ KickHandler(t)
    \/ \E c \in Comms : AcceptHandler(t, c) \/ ReadHandler(t, c) \/ WriteHandler(t, c)

Call(u) ==
    \/ \E c \in Comms : SendOne(u, c) \/ DisconnectOne(u, c)
    \/ DisconnectAll(u)

Next ==
    \/ \E a \in Actors : Kick(a)
    \/ \E t \in Threads : Work(t) \/ Dispatch(t)
    \/ \E u \in Users : Call(u)
    \/ \E c \in Comms : CompleteRead(c)

Spec == Init /\ [][Next]_vars

(***************************************************************************)
(* Fairness.  A running thread keeps running.  The io_service queues ready *)
(* handlers in order, so one that is ready is run once threads keep coming *)
(* back for work: strong fairness for each kind of handler.  A read on a   *)
(* closed socket is completed by the operating system.  Nothing is assumed *)
(* of peers, of callers, or of connections yet to be made.  A session has  *)
(* finitely many messages to throw about, so passes keep getting past its  *)
(* handlers.                                                               *)
(***************************************************************************)
Fairness ==
    /\ \A t \in Threads : WF_vars(Kick(t)) /\ WF_vars(Work(t))
    /\ SF_vars(\E t \in Threads : KickHandler(t))
    /\ SF_vars(\E t \in Threads : TimerHandler(t))
    /\ \A c \in Comms : SF_vars(\E t \in Threads : ReadHandler(t, c))
    /\ \A c \in Comms : WF_vars(c \in closed /\ CompleteRead(c))
    /\ \A c \in Comms : SF_vars(\E t \in Threads : cur[t] = c /\ ProcessQueues(t))

FairSpec == Spec /\ Fairness

----------------------------------------------------------------------------
(* "Each instance of the unicomm::communicator is only occupied by only    *)
(* one thread at a time": no two threads are inside mt_process(),          *)
(* handle_disconnected() or a session handler of one communicator.         *)
ExclusiveProcessing ==
    \A t1, t2 \in Threads :
        t1 # t2 /\ cur[t1] = cur[t2] => cur[t1] = NoComm \/ "mark" \in {pc[t1], pc[t2]}

(* A communicator leaves the primary collection only into the hands of one *)
(* thread, which keeps it out of reach of the others until it gives it     *)
(* back, and no communicator is stranded in the excluded collection.       *)
Ownership ==
    /\ clients \cap excluded = {}
    /\ \A c \in excluded : \E t \in Threads : c \in taken[t]
    /\ \A t \in Threads : taken[t] \cap clients = {}
    /\ \A t1, t2 \in Threads : t1 # t2 => taken[t1] \cap taken[t2] = {}

(* A communicator that left the container never comes back, although       *)
(* threads still hold its identifier and call get_back() with it.          *)
NoResurrection ==
    [][\A c \in Comms : c \notin Contents \cup pending => c \notin Contents']_vars

(* The disconnected handler is called once per session: never twice, and   *)
(* always by the time the thread that removed the communicator is through. *)
ToldOnce ==
    \A c \in Comms :
        told[c] = IF \/ c \in Contents \cup pending \/ c \notin sessions
                     \/ \E t \in Threads : cur[t] = c /\ pc[t] = "call_disconnected"
                  THEN 0 ELSE 1

(* A lost connection can be noticed: a communicator in the container has a *)
(* read outstanding, or its error registered, or is about to be connected  *)
(* or removed.  Without one of these it would stay in the container until  *)
(* the dispatcher is finalized.                                            *)
ReadArmed ==
    \A c \in Contents :
        \/ c \in justConnected
        \/ read[c] # "none"
        \/ "read" \in failed[c]
        \/ \E t \in Threads : cur[t] = c /\ pc[t] \in {"mark", "disconnected"}

(* The race in can_kick() lets the count pass the run count, but by less   *)
(* than the number of actors that may kick at once.                        *)
KickBound == kicks < RunCount + Cardinality(Actors)

HasWork(c) == c \in Contents \cap sessions /\ (inbox[c] > 0 \/ c \in outbox)

(* "If there is a data for unicomm to process one of the waited thread is  *)
(* woken up and takes up one of the connections that having data".         *)
WorkServed ==
    \A c \in Comms :
        HasWork(c) ~> (~HasWork(c) \/ \E t \in Threads : cur[t] = c /\ InProcess(t))

(* A connection closed here or lost by the peer is eventually removed.     *)
LostRemoved ==
    \A c \in Comms :
        (c \in Contents /\ (c \in closed \/ read[c] = "error")) ~> (c \notin Contents)
============================================================================
