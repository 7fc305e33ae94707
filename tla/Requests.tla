------------------------------ MODULE Requests ------------------------------
(***************************************************************************)
(* Requests of one communicator and what becomes of them (comm.cpp): a     *)
(* request is written; when its write handler has run, the next pass of    *)
(* mt_process() registers its timeout; a reply in the buffer, or the       *)
(* timeout, settles it.  One thread is inside mt_process(); the handlers   *)
(* of reads and writes run beside it, unless the pool has one thread only. *)
(* Requests are messages that need a reply, timeouts are enabled.          *)
(***************************************************************************)
EXTENDS Incoming

CONSTANTS
    Requests,           \* their message identifiers
    Kinds,              \* of what the peer writes, see PeerMessage
    MaxWire,            \* the peer writes this many messages, at most
    Pools               \* numbers of threads in dispatcher::run()

ASSUME RequestsAssumption ==
    /\ Requests \subseteq Nat \ {0}
    /\ MaxWire \in Nat
    /\ Pools \subseteq Nat \ {0}

VARIABLES
    pool,               \* the number of threads, which does not change
    unsent,             \* requests in the outgoing queue
    writing,            \* requests whose async_write is outstanding
    sentMessages,       \* requests in _sent_messages
    unwritten,          \* requests whose write failed
    timeouts,           \* _mes_timeouts
    elapsed,            \* those of them whose time is over
    at,                 \* where process_timeouts() is in _mes_timeouts
    failed,             \* _read_error and _write_error that are set
    stage,              \* where mt_process() is
    replied, timedOut   \* how often the session got the reply, the timeout

sentVars == <<unsent, writing, sentMessages, unwritten>>
timeVars == <<timeouts, elapsed, at>>
outcomeVars == <<replied, timedOut>>
passVars == <<failed, stage>>
vars == <<incomingVars, sentVars, timeVars, outcomeVars, passVars, pool>>

(* A reply has the request's identifier as rid; a wrong one is not among   *)
(* the allowed replies of the request; plain messages have no rid; what is *)
(* garbled makes the decoder throw.                                        *)
PeerMessage ==
    [kind : {"reply", "wrong"} \cap Kinds, rid : Requests] \cup
    [kind : {"plain", "garbled"} \cap Kinds, rid : {0}]

Settled(r) == replied[r] + timedOut[r] > 0

(* That no more is decoded than was received, and no more received than    *)
(* written, is part of it.                                                 *)
TypeOK ==
    /\ IncomingType(PeerMessage)
    /\ Pieces * decoded <= received /\ received <= Pieces * Len(wire)
    /\ pool \in Pools
    /\ unsent \subseteq Requests /\ writing \subseteq Requests
    /\ sentMessages \subseteq Requests /\ unwritten \subseteq Requests
    /\ timeouts \subseteq Requests /\ elapsed \subseteq timeouts
    /\ at \in Nat
    /\ failed \subseteq {"read", "write"}
    /\ stage \in {"idle", "sent", "arrived", "clear", "write", "timeouts",
                  "errors", "gone"}
    /\ replied \in [Requests -> Nat]
    /\ timedOut \in [Requests -> Nat]

Init ==
    /\ IncomingInit
    /\ pool \in Pools
    /\ unsent = Requests
    /\ writing = {} /\ sentMessages = {} /\ unwritten = {}
    /\ timeouts = {} /\ elapsed = {} /\ at = 0
    /\ failed = {}
    /\ stage = "idle"
    /\ replied = [r \in Requests |-> 0]
    /\ timedOut = [r \in Requests |-> 0]

----------------------------------------------------------------------------
(* asio handlers and the peer.                                             *)

(* A single thread runs one handler, or one pass, at a time.               *)
HandlerMayRun == pool = 1 => stage \in {"idle", "gone"}

(* The peer answers what it has got, which is what is being written.       *)
PeerWrites(m) ==
    /\ Len(wire) < MaxWire
    /\ m.rid \notin unsent
    /\ PeerSends(m)
    /\ UNCHANGED <<sentVars, timeVars, outcomeVars, passVars, pool>>

ReadHandler ==
    /\ HandlerMayRun
    /\ AppendData
    /\ UNCHANGED <<sentVars, timeVars, outcomeVars, passVars, pool>>

EndReadHandler ==
    /\ SetUpdated
    /\ UNCHANGED <<sentVars, timeVars, outcomeVars, passVars, pool>>

ReadFailed ==
    /\ HandlerMayRun
    /\ StopReading
    /\ failed' = failed \cup {"read"}
    /\ UNCHANGED <<sentVars, timeVars, outcomeVars, stage, pool>>

(* mt_asio_write_handler(); mt_process_sent() holds _sent_mes_mutex.       *)
WriteCompleted(r) ==
    /\ r \in writing
    /\ HandlerMayRun /\ stage # "sent"
    /\ writing' = writing \ {r}
    /\ sentMessages' = sentMessages \cup {r}
    /\ failed' = failed \ {"write"}
    /\ UNCHANGED <<incomingVars, unsent, unwritten, timeVars, outcomeVars, stage,
                   pool>>

WriteFailed(r) ==
    /\ r \in writing
    /\ HandlerMayRun
    /\ link = "lost" \/ stage = "gone"
    /\ writing' = writing \ {r}
    /\ unwritten' = unwritten \cup {r}
    /\ failed' = failed \cup {"write"}
    /\ UNCHANGED <<incomingVars, unsent, sentMessages, timeVars, outcomeVars,
                   stage, pool>>

Lose ==
    /\ LoseLink
    /\ UNCHANGED <<sentVars, timeVars, outcomeVars, passVars, pool>>

(* The time of a request is over.                                          *)
Elapse(r) ==
    /\ r \in timeouts \ elapsed
    /\ elapsed' = elapsed \cup {r}
    /\ UNCHANGED <<incomingVars, sentVars, timeouts, at, outcomeVars, passVars,
                   pool>>

----------------------------------------------------------------------------
(* mt_process().                                                           *)

(* A handler of the session returned; or it threw, and with it the pass is *)
(* over, or the connection if what it threw is a disconnected_error.       *)
HandlerEnds(label) == stage' \in {label, "idle", "gone"}

BeginPass ==
    /\ stage = "idle"
    /\ pool = 1 => reader # "flag"
    /\ stage' = "sent"
    /\ UNCHANGED <<incomingVars, sentVars, timeVars, outcomeVars, failed, pool>>

(* Mutant: the session is told before the timeout is registered.           *)
TellThenRegister(r) ==
    /\ stage = "sent" /\ r \in sentMessages
    /\ sentMessages' = sentMessages \ {r}
    /\ elapsed' = elapsed \ {r}
    /\ \/ timeouts' = timeouts \cup {r} /\ stage' = "sent"
       \/ UNCHANGED timeouts /\ stage' \in {"idle", "gone"}
    /\ UNCHANGED <<incomingVars, unsent, writing, unwritten, at, outcomeVars,
                   failed, pool>>

(* One round of mt_process_sent(): the timeout is registered, the entry    *)
(* removed, the session told.                                              *)
ProcessSent(r) ==
    /\ stage = "sent" /\ r \in sentMessages
    /\ timeouts' = timeouts \cup {r}
    /\ elapsed' = elapsed \ {r}
    /\ sentMessages' = sentMessages \ {r}
    /\ HandlerEnds("sent")
    /\ UNCHANGED <<incomingVars, unsent, writing, unwritten, at, outcomeVars,
                   failed, pool>>

(* mt_is_arrived() follows.                                                *)
EndSent ==
    /\ stage = "sent" /\ sentMessages = {}
    /\ stage' = IF BufferEmpty THEN "write" ELSE "arrived"
    /\ UNCHANGED <<incomingVars, sentVars, timeVars, outcomeVars, failed, pool>>

Unregister(r) ==
    /\ timeouts' = timeouts \ {r}
    /\ elapsed' = elapsed \ {r}

(* process_request()                                                       *)
ProcessRequest(m) ==
    /\ m.kind = "plain"
    /\ HandlerEnds("arrived")
    /\ UNCHANGED <<timeouts, elapsed, outcomeVars>>

(* Mutant: the disallowed reply ends the waiting.                          *)
RejectAndForget(m) ==
    /\ \/ m.kind = "garbled"
       \/ m.kind = "wrong" /\ m.rid \in timeouts
    /\ stage' = "idle"
    /\ Unregister(m.rid)
    /\ UNCHANGED outcomeVars

(* The decoder or the test for allowed replies throws.                     *)
Reject(m) ==
    /\ \/ m.kind = "garbled"
       \/ m.kind = "wrong" /\ m.rid \in timeouts
    /\ stage' = "idle"
    /\ UNCHANGED <<timeouts, elapsed, outcomeVars>>

(* process_reply() for a request that waits for it.                        *)
ProcessReply(m) ==
    /\ m.kind = "reply" /\ m.rid \in timeouts
    /\ Unregister(m.rid)
    /\ replied' = [replied EXCEPT ![m.rid] = @ + 1]
    /\ HandlerEnds("arrived")
    /\ UNCHANGED timedOut

(* "throw received message out"                                            *)
ThrowOut(m) ==
    /\ m.kind \in {"reply", "wrong"} /\ m.rid \notin timeouts
    /\ stage' = "arrived"
    /\ UNCHANGED <<timeouts, elapsed, outcomeVars>>

(* A round of mt_process_arrived() that finds a message ...                *)
ProcessArrived ==
    /\ stage = "arrived" /\ updated
    /\ TakeMessage
    /\ LET m == wire[decoded + 1] IN
          ProcessRequest(m) \/ Reject(m) \/ ProcessReply(m) \/ ThrowOut(m)
    /\ UNCHANGED <<sentVars, at, failed, pool>>

(* ... and one that does not; the flag is cleared in a step of its own.    *)
NothingWhole ==
    /\ stage = "arrived" /\ updated /\ ~Complete
    /\ stage' = "clear"
    /\ UNCHANGED <<incomingVars, sentVars, timeVars, outcomeVars, failed, pool>>

Clear ==
    /\ stage = "clear"
    /\ ClearUpdated
    /\ stage' = "arrived"
    /\ UNCHANGED <<sentVars, timeVars, outcomeVars, failed, pool>>

(* Mutant: the flag is cleared although the quantum ended the loop.        *)
ClearAtEnd ==
    /\ stage = "arrived"
    /\ ClearUpdated
    /\ stage' = "write"
    /\ UNCHANGED <<sentVars, timeVars, outcomeVars, failed, pool>>

(* The flag is clear or the quantum has elapsed.                           *)
EndArrived ==
    /\ stage = "arrived"
    /\ stage' = "write"
    /\ UNCHANGED <<incomingVars, sentVars, timeVars, outcomeVars, failed, pool>>

(* mt_start_write()                                                        *)
StartWrite(r) ==
    /\ stage = "write" /\ r \in unsent
    /\ unsent' = unsent \ {r}
    /\ writing' = writing \cup {r}
    /\ UNCHANGED <<incomingVars, sentMessages, unwritten, timeVars, outcomeVars,
                   passVars, pool>>

EndWrite ==
    /\ stage = "write"
    /\ stage' = "timeouts"
    /\ at' = 0
    /\ UNCHANGED <<incomingVars, sentVars, timeouts, elapsed, outcomeVars, failed,
                   pool>>

(* The entry process_timeouts() comes to next: they are in the order of    *)
(* their identifiers.                                                      *)
NextEntry(r) ==
    /\ stage = "timeouts"
    /\ r \in timeouts /\ r > at
    /\ \A s \in timeouts : s > at => r <= s

(* Mutant: the entry is removed after the handler returned.                *)
CallThenUnregister(r) ==
    /\ timedOut' = [timedOut EXCEPT ![r] = @ + 1]
    /\ \/ Unregister(r) /\ stage' = "timeouts"
       \/ UNCHANGED <<timeouts, elapsed>> /\ stage' \in {"idle", "gone"}
    /\ UNCHANGED replied

(* The entry is removed, then the session told.                            *)
TimeOut(r) ==
    /\ Unregister(r)
    /\ timedOut' = [timedOut EXCEPT ![r] = @ + 1]
    /\ HandlerEnds("timeouts")
    /\ UNCHANGED replied

VisitElapsed(r) ==
    /\ NextEntry(r) /\ r \in elapsed
    /\ at' = r
    /\ TimeOut(r)
    /\ UNCHANGED <<incomingVars, sentVars, failed, pool>>

VisitOther(r) ==
    /\ NextEntry(r) /\ r \notin elapsed
    /\ at' = r
    /\ UNCHANGED <<incomingVars, sentVars, timeouts, elapsed, outcomeVars,
                   passVars, pool>>

EndTimeouts ==
    /\ stage = "timeouts"
    /\ \A r \in timeouts : r <= at
    /\ stage' = "errors"
    /\ UNCHANGED <<incomingVars, sentVars, timeVars, outcomeVars, failed, pool>>

(* Any channel error ends the connection; then the after-processed handler *)
(* of the session, which may throw.                                        *)
ProcessErrors ==
    /\ stage = "errors"
    /\ IF failed = {} THEN stage' \in {"idle", "gone"} ELSE stage' = "gone"
    /\ failed' = {}
    /\ UNCHANGED <<incomingVars, sentVars, timeVars, outcomeVars, pool>>

----------------------------------------------------------------------------
Visit(r) == VisitElapsed(r) \/ VisitOther(r)

PassStep ==
    \/ BeginPass \/ EndSent
    \/ ProcessArrived \/ NothingWhole \/ Clear \/ EndArrived
    \/ EndWrite \/ EndTimeouts \/ ProcessErrors
    \/ \E r \in Requests : ProcessSent(r) \/ StartWrite(r) \/ Visit(r)

WriteHandler(r) == WriteCompleted(r) \/ WriteFailed(r)

Next ==
    \/ PassStep
    \/ \E m \in PeerMessage : PeerWrites(m)
    \/ ReadHandler \/ EndReadHandler \/ ReadFailed
    \/ \E r \in Requests : WriteHandler(r) \/ Elapse(r)
    \/ Lose

Spec == Init /\ [][Next]_vars

(***************************************************************************)
(* Fairness.  Passes go on, and the idle timer begins new ones (module     *)
(* Dispatcher); the quanta are long enough for one message; a read handler *)
(* that has begun ends; writes complete, and the read of a lost connection *)
(* does, and their handlers get a thread although passes take turns with   *)
(* them; time passes.  Nothing is assumed of the peer.                     *)
(***************************************************************************)
Fairness ==
    /\ WF_vars(PassStep)
    /\ SF_vars(ProcessArrived)
    /\ \A r \in Requests : SF_vars(StartWrite(r))
    /\ WF_vars(EndReadHandler)
    /\ SF_vars(ReadFailed)
    /\ \A r \in Requests : SF_vars(WriteHandler(r))
    /\ \A r \in Requests : WF_vars(Elapse(r))

FairSpec == Spec /\ Fairness

----------------------------------------------------------------------------
(* The session gets the reply or the timeout of a request, never both and  *)
(* neither twice, whatever its handlers throw and whatever comes late or   *)
(* again.                                                                  *)
OneOutcome == \A r \in Requests : replied[r] + timedOut[r] <= 1

(* A request is never forgotten: until it is settled it is on its way out, *)
(* its write failed, or its timeout runs; a disallowed reply changes none  *)
(* of that.                                                                *)
Tracked ==
    \A r \in Requests :
        \/ r \in unsent \cup writing \cup sentMessages \cup unwritten
        \/ r \in timeouts
        \/ Settled(r)

(* "tell to process either error or incoming data": a whole message in the *)
(* buffer is processed, unless the connection is over.                     *)
ArrivedProcessed ==
    \A k \in 1..MaxWire :
        received >= Pieces * k ~> decoded >= k \/ stage = "gone"

(* The same, when one thread runs the dispatcher.                          *)
ArrivedProcessedAlone ==
    \A k \in 1..MaxWire :
        pool = 1 /\ received >= Pieces * k ~> decoded >= k \/ stage = "gone"

(* Every request is settled in the end, unless the connection is over.     *)
RequestSettled == \A r \in Requests : <>(Settled(r) \/ stage = "gone")
=============================================================================
