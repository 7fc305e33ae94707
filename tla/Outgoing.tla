------------------------------ MODULE Outgoing ------------------------------
(***************************************************************************)
(* The outgoing path of one communicator (comm.cpp): send() gives a        *)
(* message its identifier, pushes it into a queue ordered by priority and  *)
(* then registers its sent handler; mt_process() moves messages from the   *)
(* queue into buffers and starts asynchronous writes; the write handler    *)
(* records what was written, and the next mt_process() tells the session.  *)
(* One thread at a time is inside mt_process() (ExclusiveProcessing of     *)
(* module Dispatcher): it is Pass here.  Write handlers run on any other   *)
(* thread, one at a time because they hold _write_err_mutex throughout.    *)
(***************************************************************************)
EXTENDS Naturals, Sequences, FiniteSets

CONSTANTS
    Senders,            \* threads that call dispatcher::send_one()
    Pass,               \* the thread that is inside mt_process()
    Msgs,               \* messages, each of them sent once
    By,                 \* who sends a message; Pass does it in a handler
    Priority,           \* of a message, after the default was filled in
    Identified,         \* messages that come with an identifier: themselves
    Handled,            \* messages sent together with a sent handler
    NoMsg

Actors == Senders \cup {Pass}

ASSUME OutgoingAssumption ==
    /\ Pass \notin Senders
    /\ Msgs \subseteq Nat \ {0}
    /\ By \in [Msgs -> Actors]
    /\ Priority \in [Msgs -> Nat]
    /\ Identified \subseteq Msgs
    /\ Handled \subseteq Msgs
    /\ NoMsg \notin Msgs

VARIABLES
    lastMid,            \* _mesid
    mid,                \* the identifier send() gave a message, 0 before
    spc,                \* where each actor is in send()
    sending,            \* the message an actor is sending
    queue,              \* _prepeared_m_queue
    stage,              \* where Pass is in mt_process()
    front,              \* what front_copy() returned and pop() is to remove
    internalMid,        \* _internal_mid
    buffers,            \* _out_buffers: pairs of an internal id and a message
    inflight,           \* internal ids of the outstanding async_writes
    handler,            \* where the write handler is
    done,               \* the internal id the write handler was called with
    sentMessages,       \* _sent_messages
    sentHandlers,       \* _sent_handlers: pairs of an id and whose handler
    failed,             \* _read_error and _write_error that are set
    link,               \* "up", "lost", or lost and "reported" by the read
    pushed, written,    \* histories: messages in the order of these events
    acked,              \* history: internal ids of the successful writes
    notified,           \* history: internal ids told to the session
    called              \* history: messages whose own handler was called

sendVars == <<lastMid, mid, spc, sending>>
writeVars == <<front, internalMid, buffers, inflight, written>>
doneVars == <<handler, done, sentMessages, failed, acked>>
toldVars == <<sentHandlers, notified, called>>
vars == <<sendVars, queue, pushed, stage, writeVars, doneVars, toldVars, link>>

Ids == Nat

(* The assertion of mt_process_sent() included: the list is not empty.     *)
TypeOK ==
    /\ lastMid \in Nat
    /\ mid \in [Msgs -> Nat]
    /\ spc \in [Actors -> {"idle", "new_mid", "push", "register"}]
    /\ sending \in [Actors -> Msgs \cup {NoMsg}]
    /\ queue \in Seq(Msgs)
    /\ stage \in {"idle", "sent", "arrived", "write", "pop", "errors", "gone"}
    /\ front \in Msgs \cup {NoMsg}
    /\ internalMid \in Ids
    /\ buffers \subseteq Ids \X Msgs
    /\ inflight \subseteq Ids
    /\ handler \in {"idle", "register", "erase"}
    /\ done \in Ids
    /\ sentMessages \in Seq(Ids \X Msgs)
    /\ sentHandlers \subseteq Nat \X Msgs
    /\ failed \subseteq {"read", "write"}
    /\ link \in {"up", "lost", "reported"}
    /\ pushed \in Seq(Msgs)
    /\ written \in Seq(Msgs)
    /\ acked \subseteq Ids
    /\ notified \in Seq(Ids)
    /\ called \in Seq(Msgs)
    /\ stage = "sent" => sentMessages # <<>>

Init ==
    /\ lastMid = 0
    /\ mid = [m \in Msgs |-> 0]
    /\ spc = [a \in Actors |-> "idle"]
    /\ sending = [a \in Actors |-> NoMsg]
    /\ queue = <<>>
    /\ stage = "idle"
    /\ front = NoMsg
    /\ internalMid = 0
    /\ buffers = {}
    /\ inflight = {}
    /\ handler = "idle"
    /\ done = 0
    /\ sentMessages = <<>>
    /\ sentHandlers = {}
    /\ failed = {}
    /\ link = "up"
    /\ pushed = <<>> /\ written = <<>>
    /\ acked = {}
    /\ notified = <<>>
    /\ called = <<>>

----------------------------------------------------------------------------
(* send(), on any thread.                                                  *)

Step(a, label) == spc' = [spc EXCEPT ![a] = label]

(* prepare_to_write() begins; new_mid() increments the counter and will    *)
(* read it again, for a message that has no identifier.                    *)
Send(a, m) ==
    /\ spc[a] = "idle"
    /\ By[m] = a
    /\ a = Pass => stage \in {"sent", "arrived"}
    /\ mid[m] = 0
    /\ \A b \in Actors : sending[b] # m
    /\ sending' = [sending EXCEPT ![a] = m]
    /\ IF m \in Identified
       THEN Step(a, "push") /\ mid' = [mid EXCEPT ![m] = m] /\ UNCHANGED lastMid
       ELSE Step(a, "new_mid") /\ lastMid' = lastMid + 1 /\ UNCHANGED mid
    /\ UNCHANGED <<queue, pushed, stage, writeVars, doneVars, toldVars, link>>

(* "return _mesid": another thread may have incremented it meanwhile.      *)
ReadMid(a) ==
    /\ spc[a] = "new_mid"
    /\ mid' = [mid EXCEPT ![sending[a]] = lastMid]
    /\ Step(a, "push")
    /\ UNCHANGED <<lastMid, sending, queue, pushed, stage, writeVars, doneVars,
                   toldVars, link>>

InsertAfter(q, n, m) == SubSeq(q, 1, n) \o <<m>> \o SubSeq(q, n + 1, Len(q))

(* Mutant: lower_bound instead of upper_bound.                             *)
InsertedBeforeEquals(q, m) ==
    InsertAfter(q, Cardinality({i \in DOMAIN q : Priority[q[i]] > Priority[m]}), m)

(* stable_priority_queue::push() into a queue that is ordered: behind all  *)
(* messages of the same or of a higher priority (upper_bound with          *)
(* std::greater).                                                          *)
Inserted(q, m) ==
    InsertAfter(q, Cardinality({i \in DOMAIN q : Priority[q[i]] >= Priority[m]}), m)

Push(a) ==
    LET m == sending[a] IN
    /\ spc[a] = "push"
    /\ queue' = Inserted(queue, m)
    /\ pushed' = Append(pushed, m)
    /\ IF m \in Handled
       THEN Step(a, "register") /\ UNCHANGED sending
       ELSE Step(a, "idle") /\ sending' = [sending EXCEPT ![a] = NoMsg]
    /\ UNCHANGED <<lastMid, mid, stage, writeVars, doneVars, toldVars, link>>

(* send(message, handler): reg_messsage_sent() after the push, replacing   *)
(* the handler of an identifier that is registered already.                *)
RegisterHandler(a) ==
    LET m == sending[a] IN
    /\ spc[a] = "register"
    /\ sentHandlers' = {h \in sentHandlers : h[1] # mid[m]} \cup {<<mid[m], m>>}
    /\ Step(a, "idle")
    /\ sending' = [sending EXCEPT ![a] = NoMsg]
    /\ UNCHANGED <<lastMid, mid, queue, pushed, stage, writeVars, doneVars,
                   notified, called, link>>

----------------------------------------------------------------------------
(* mt_process(), on thread Pass.                                           *)

(* A pass begins, because of a kick or of the idle timer, unless the       *)
(* communicator was removed.                                               *)
BeginPass ==
    /\ stage = "idle"
    /\ stage' = IF sentMessages = <<>> THEN "arrived" ELSE "sent"
    /\ UNCHANGED <<sendVars, queue, pushed, writeVars, doneVars, toldVars, link>>

(* A handler of the session returned; or it threw, and with it the pass is *)
(* over, or the connection if what it threw is a disconnected_error.       *)
HandlerEnds(label) == stage' \in {label, "idle", "gone"}

(* Mutant: the identifier's handler is unregistered before the call.       *)
ForgetThenCall(e) ==
    /\ notified' = Append(notified, e[1])
    /\ sentHandlers' = {h \in sentHandlers : h[1] # mid[e[2]]}
    /\ UNCHANGED called

(* call_message_sent() of the session for the entry e: the message's own   *)
(* handler, which is forgotten whatever happens, then the default one.     *)
CallMessageSent(e) ==
    LET own == {h \in sentHandlers : h[1] = mid[e[2]]} IN
    /\ notified' = Append(notified, e[1])
    /\ sentHandlers' = sentHandlers \ own
    /\ \/ own = {} /\ UNCHANGED called
       \/ \E h \in own : called' = Append(called, h[2])

(* Mutant: the entry is removed after the handler returned, not before.    *)
RemoveAfterCall ==
    /\ stage = "sent" /\ spc[Pass] = "idle"
    /\ CallMessageSent(Head(sentMessages))
    /\ \/ /\ sentMessages' = Tail(sentMessages)
          /\ stage' = IF Len(sentMessages) = 1 THEN "arrived" ELSE "sent"
       \/ stage' \in {"idle", "gone"} /\ UNCHANGED sentMessages
    /\ UNCHANGED <<sendVars, queue, pushed, writeVars, handler, done, failed,
                   acked, link>>

(* One round of mt_process_sent(), which holds _sent_mes_mutex from its    *)
(* first round to its last: the entry is removed and the session is told.  *)
ProcessSent ==
    /\ stage = "sent" /\ spc[Pass] = "idle"
    /\ sentMessages' = Tail(sentMessages)
    /\ CallMessageSent(Head(sentMessages))
    /\ HandlerEnds(IF Len(sentMessages) = 1 THEN "arrived" ELSE "sent")
    /\ UNCHANGED <<sendVars, queue, pushed, writeVars, handler, done, failed,
                   acked, link>>

ProcessArrived ==
    /\ stage = "arrived" /\ spc[Pass] = "idle"
    /\ HandlerEnds("write")
    /\ UNCHANGED <<sendVars, queue, pushed, writeVars, doneVars, toldVars, link>>

(* pop_prepeared_message(): front_copy() ...                               *)
FrontCopy ==
    /\ stage = "write" /\ queue # <<>>
    /\ front' = Head(queue)
    /\ stage' = "pop"
    /\ UNCHANGED <<sendVars, queue, pushed, internalMid, buffers, inflight,
                   written, doneVars, toldVars, link>>

(* Mutant: new_internal_mid() returns the same identifier again.           *)
ReuseInternalMid ==
    /\ stage = "pop"
    /\ queue' = Tail(queue)
    /\ buffers' = IF \E b \in buffers : b[1] = internalMid THEN buffers
                  ELSE buffers \cup {<<internalMid, front>>}
    /\ inflight' = inflight \cup {internalMid}
    /\ written' = Append(written, front)
    /\ front' = NoMsg
    /\ stage' = "write"
    /\ UNCHANGED <<sendVars, pushed, internalMid, doneVars, toldVars, link>>

(* Mutant: the message is written but stays in the queue.                  *)
WriteWithoutPop ==
    /\ stage = "pop"
    /\ buffers' = buffers \cup {<<internalMid, front>>}
    /\ inflight' = inflight \cup {internalMid}
    /\ internalMid' = internalMid + 1
    /\ written' = Append(written, front)
    /\ front' = NoMsg
    /\ stage' = "write"
    /\ UNCHANGED <<sendVars, queue, pushed, doneVars, toldVars, link>>

(* ... and pop(), which removes whatever is in front by now; then the      *)
(* message gets a buffer of its own, and async_write() starts.             *)
StartWrite ==
    /\ stage = "pop"
    /\ queue' = Tail(queue)
    /\ buffers' = buffers \cup {<<internalMid, front>>}
    /\ inflight' = inflight \cup {internalMid}
    /\ internalMid' = internalMid + 1
    /\ written' = Append(written, front)
    /\ front' = NoMsg
    /\ stage' = "write"
    /\ UNCHANGED <<sendVars, pushed, doneVars, toldVars, link>>

(* The queue is empty or the quantum has elapsed.                          *)
EndWrite ==
    /\ stage = "write"
    /\ stage' = "errors"
    /\ UNCHANGED <<sendVars, queue, pushed, writeVars, doneVars, toldVars, link>>

(* mt_process_errors(): any channel error ends the connection; then the    *)
(* after-processed handler, which may throw.                               *)
ProcessErrors ==
    /\ stage = "errors"
    /\ IF failed = {} THEN stage' \in {"idle", "gone"} ELSE stage' = "gone"
    /\ failed' = {}
    /\ UNCHANGED <<sendVars, queue, pushed, writeVars, handler, done,
                   sentMessages, acked, toldVars, link>>

----------------------------------------------------------------------------
(* mt_asio_write_handler(), on any thread of the pool; several writes may  *)
(* be outstanding, and their handlers get the mutex in any order.          *)

WriteSucceeded(i) ==
    /\ handler = "idle" /\ i \in inflight
    /\ inflight' = inflight \ {i}
    /\ failed' = failed \ {"write"}
    /\ acked' = acked \cup {i}
    /\ done' = i
    /\ handler' = "register"
    /\ UNCHANGED <<sendVars, queue, pushed, stage, front, internalMid, buffers,
                   written, sentMessages, toldVars, link>>

WriteFailed(i) ==
    /\ handler = "idle" /\ i \in inflight
    /\ link # "up" \/ stage = "gone"
    /\ inflight' = inflight \ {i}
    /\ failed' = failed \cup {"write"}
    /\ done' = i
    /\ handler' = "erase"
    /\ UNCHANGED <<sendVars, queue, pushed, stage, front, internalMid, buffers,
                   written, sentMessages, acked, toldVars, link>>

(* Mutant: a message whose session is being told of others is not recorded *)
(* (a try_lock in place of the lock).                                      *)
TryRegSentMessage ==
    /\ handler = "register"
    /\ sentMessages' \in {IF stage = "sent" THEN sentMessages
                          ELSE Append(sentMessages, b) :
                             b \in {x \in buffers : x[1] = done}}
    /\ handler' = "erase"
    /\ UNCHANGED <<sendVars, queue, pushed, stage, writeVars, done, failed, acked,
                   toldVars, link>>

(* mt_reg_sent_message(): waits for _sent_mes_mutex.                       *)
RegSentMessage ==
    /\ handler = "register" /\ stage # "sent"
    /\ \E b \in buffers : b[1] = done /\ sentMessages' = Append(sentMessages, b)
    /\ handler' = "erase"
    /\ UNCHANGED <<sendVars, queue, pushed, stage, writeVars, done, failed, acked,
                   toldVars, link>>

(* mt_out_buffers_erase()                                                  *)
EraseBuffer ==
    /\ handler = "erase"
    /\ buffers' = {b \in buffers : b[1] # done}
    /\ handler' = "idle"
    /\ UNCHANGED <<sendVars, queue, pushed, stage, front, internalMid, inflight,
                   written, done, sentMessages, failed, acked, toldVars, link>>

(* The peer goes away, or the socket is closed here ...                    *)
LoseLink ==
    /\ link = "up"
    /\ link' = "lost"
    /\ UNCHANGED <<sendVars, queue, pushed, stage, writeVars, doneVars, toldVars>>

(* ... and the outstanding read reports it.                                *)
ReadFailed ==
    /\ link = "lost"
    /\ link' = "reported"
    /\ failed' = failed \cup {"read"}
    /\ UNCHANGED <<sendVars, queue, pushed, stage, writeVars, handler, done,
                   sentMessages, acked, toldVars>>

----------------------------------------------------------------------------
SendStep(a) == ReadMid(a) \/ Push(a) \/ RegisterHandler(a)

PassStep ==
    \/ BeginPass \/ ProcessSent \/ ProcessArrived
    \/ FrontCopy \/ StartWrite \/ EndWrite \/ ProcessErrors

WriteHandler ==
    \/ \E i \in inflight : WriteSucceeded(i) \/ WriteFailed(i)
    \/ RegSentMessage \/ EraseBuffer

Next ==
    \/ \E a \in Actors : SendStep(a) \/ \E m \in Msgs : Send(a, m)
    \/ PassStep
    \/ WriteHandler
    \/ LoseLink \/ ReadFailed

Spec == Init /\ [][Next]_vars

(***************************************************************************)
(* Fairness.  Threads that are inside send() or mt_process() keep going;   *)
(* the idle timer makes passes begin (module Dispatcher); an outstanding   *)
(* write completes, one way or the other, and its handler runs, and so     *)
(* does the read of a lost connection; the quanta are long enough for one  *)
(* message, and handlers of arrived messages do not throw for ever, so     *)
(* that passes keep reaching the queue's front.                            *)
(***************************************************************************)
Fairness ==
    /\ \A a \in Actors : WF_vars(SendStep(a))
    /\ WF_vars(PassStep)
    /\ WF_vars(WriteHandler)
    /\ WF_vars(ReadFailed)
    /\ SF_vars(ProcessArrived /\ stage' = "write")
    /\ SF_vars(FrontCopy)
    /\ SF_vars(RegSentMessage)

FairSpec == Spec /\ Fairness

----------------------------------------------------------------------------
(* Everything that was pushed and is not lost, in the order in which it    *)
(* leaves.                                                                 *)
Pipeline == written \o queue

Before(s, m, n) == \E i, j \in DOMAIN s : i < j /\ s[i] = m /\ s[j] = n

(* "Thread safe": no message is lost and none is written twice, whatever   *)
(* threads send at the same time.                                          *)
ExactlyOnce ==
    /\ Len(Pipeline) = Len(pushed)
    /\ \A m \in Msgs : (\E i \in DOMAIN pushed : pushed[i] = m)
                          => \E i \in DOMAIN Pipeline : Pipeline[i] = m

(* Messages of one priority are written in the order they were pushed.     *)
PriorityFifo ==
    \A m, n \in Msgs :
        Priority[m] = Priority[n] /\ Before(pushed, m, n) => ~Before(Pipeline, n, m)

(* async_write() keeps a reference into _out_buffers: as long as a write   *)
(* is outstanding its buffer holds its message, and no buffer outlives its *)
(* write handler.                                                          *)
BuffersAlive ==
    /\ \A i \in inflight : {b \in buffers : b[1] = i} = {<<i, written[i + 1]>>}
    /\ \A b \in buffers : b[1] \in inflight \/ (handler # "idle" /\ b[1] = done)

(* The session is told at most once of a message, and only of one whose    *)
(* write succeeded, though its handlers throw in the middle of the list.   *)
NotifiedOnce ==
    /\ \A i, j \in DOMAIN notified : notified[i] = notified[j] => i = j
    /\ \A i \in DOMAIN notified : notified[i] \in acked

(* No other message has been given its identifier.                         *)
Sole(m) == mid[m] # 0 /\ \A n \in Msgs : mid[n] = mid[m] => n = m

Out(m) == (\E i \in DOMAIN pushed : pushed[i] = m) /\ \A a \in Actors : sending[a] # m
Registered(m) == <<mid[m], m>> \in sentHandlers
Called(m) == \E i \in DOMAIN called : called[i] = m
ToldOf(m) == \E i \in DOMAIN notified : written[notified[i] + 1] = m

(* "The handler is called once when message is sent", as far as the code   *)
(* goes.  The handler of a message whose identifier is its own is called   *)
(* at most once, and not before the session is told of the message; when   *)
(* send() has returned it has been called or is in the table, never both,  *)
(* whatever is registered, called or thrown meanwhile; and it is called    *)
(* when the message was sent from inside the pass.  A caller outside the   *)
(* pass may register after the session was told: then the handler stays in *)
(* the table and nobody calls it, which is less than the sentence says.    *)
HandlersAccounted ==
    \A m \in Handled : Sole(m) =>
        /\ \A i, j \in DOMAIN called : called[i] = m /\ called[j] = m => i = j
        /\ Called(m) => ToldOf(m)
        /\ Out(m) => (Called(m) <=> ~Registered(m))
        /\ By[m] = Pass /\ ToldOf(m) => Called(m)

(* "Generates unique message identifier": the identifiers given to the     *)
(* messages of one communicator differ.                                    *)
UniqueMids ==
    \A m, n \in Msgs : mid[m] # 0 /\ mid[m] = mid[n] => m = n

(* A message that was pushed is written and the session told of it, unless *)
(* the connection is over.                                                 *)
PushedTold ==
    \A m \in Msgs :
        (\E i \in DOMAIN pushed : pushed[i] = m)
            ~> \/ stage = "gone"
               \/ \E i \in DOMAIN notified : written[notified[i] + 1] = m
============================================================================
