-------------------------- MODULE ExtendedSession --------------------------
(***************************************************************************)
(* The handlers an extended_session keeps (extended_session.ipp): any      *)
(* thread sets and clears them under the session's mutex, while the pass   *)
(* of the communicator takes copies of them under that mutex and calls     *)
(* them without it.  A handler may throw, end the connection, or change    *)
(* the handlers.  Identifiers of messages are unique.  The signals of      *)
(* connected and disconnected handlers are those of boost and left out.    *)
(***************************************************************************)
EXTENDS Naturals, Sequences

CONSTANTS
    Names,              \* names of messages
    Mids,               \* identifiers of messages that are sent
    Handlers,           \* functions of the user
    Users,              \* threads outside the pass
    Pass,               \* the thread that processes the communicator
    NoHandler,
    Plans               \* bounds of a life, see Plan

(* A named handler is in the table of its name; "any", "sent", "timeout",  *)
(* "error" and "after" are single handlers.                                *)
Slots == Names \cup {"any", "sent", "timeout", "error", "after"}
Table == [Slots -> Handlers \cup {NoHandler}]

(* An operation sets or clears a handler, or sends a message with one.     *)
Op == [slot : Slots, handler : Handlers \cup {NoHandler}]
         \cup [mid : Mids, handler : Handlers]

(* A plan: the handlers set at first, what each thread does, the messages  *)
(* that arrive, and what is sent in reply to which of them.                *)
Plan == [table : Table, script : [Users \cup {Pass} -> Seq(Op)],
         arrives : Seq(Names), replies : [Mids -> Nat], timeouts : Nat]

ASSUME SessionAssumption ==
    /\ Plans \subseteq Plan
    /\ Pass \notin Users /\ NoHandler \notin Handlers

VARIABLES
    plan,               \* the plan followed, which does not change
    table,              \* _mes_arrived_handlers and the single handlers
    sentHandlers,       \* _sent_handlers
    todo,               \* what each thread has not done yet
    registering,        \* sends between push and registration
    queue,              \* messages that were pushed and not yet written
    sentMessages,       \* _sent_messages
    arrived,            \* messages that are in the buffer or were
    handled,            \* messages that were decoded
    due,                \* timeouts that have elapsed and were not told
    elapsed,            \* how many have elapsed
    at,                 \* where the pass is
    mid,                \* the message call_message_sent() is about
    anyHandler,         \* the copy in call_message_arrived()
    then,               \* where the pass goes when mid is unregistered
    told,               \* history: messages taken from sentMessages
    kept,               \* history: see NotMissed
    called              \* history: handlers called for the current message

tableVars == <<table, todo>>
outVars == <<registering, queue, sentMessages>>
inVars == <<arrived, handled, due, elapsed>>
passVars == <<mid, anyHandler, then>>
arrivalVars == <<kept, called>>
vars == <<plan, tableVars, sentHandlers, outVars, inVars, at, passVars, told, arrivalVars>>

SentStage == {"sent", "mapped", "default", "unregister"}

TypeOK ==
    /\ plan \in Plans
    /\ table \in Table
    /\ sentHandlers \in [Mids -> Handlers \cup {NoHandler}]
    /\ todo \in [Users \cup {Pass} -> Seq(Op)]
    /\ registering \subseteq [mid : Mids, handler : Handlers]
    /\ queue \subseteq Mids /\ sentMessages \in Seq(Mids)
    /\ arrived \in 0..Len(plan.arrives) /\ handled \in 0..arrived
    /\ elapsed \in 0..plan.timeouts /\ due \in 0..elapsed
    /\ at \in SentStage \cup {"idle", "arrived", "get_any", "exact", "any", "reply",
                              "timeouts", "after", "error", "gone"}
    /\ mid \in Mids
    /\ anyHandler \in Handlers \cup {NoHandler}
    /\ then \in {"sent", "error", "gone"}
    /\ told \subseteq Mids
    /\ kept \subseteq Handlers /\ called \subseteq Handlers

(* The constructor of the user's session sets the handlers of the plan.    *)
Init ==
    /\ plan \in Plans
    /\ table = plan.table /\ todo = plan.script
    /\ sentHandlers = [m \in Mids |-> NoHandler]
    /\ registering = {} /\ queue = {} /\ sentMessages = <<>>
    /\ arrived = 0 /\ handled = 0 /\ due = 0 /\ elapsed = 0
    /\ at = "idle"
    /\ mid \in Mids /\ anyHandler = NoHandler /\ then = "sent"
    /\ told = {} /\ kept = {} /\ called = {}

----------------------------------------------------------------------------
(* Setting and clearing, by any thread.                                    *)

Name == plan.arrives[handled]

(* The handlers of the message that is being processed.                    *)
Subscribed(t) == {t[Name], t["any"]} \ {NoHandler}

(* set_..._handler(), which clears when there is no handler in it.         *)
SetHandler(t) ==
    /\ todo[t] # <<>> /\ "slot" \in DOMAIN Head(todo[t])
    /\ table' = [table EXCEPT ![Head(todo[t]).slot] = Head(todo[t]).handler]
    /\ todo' = [todo EXCEPT ![t] = Tail(@)]

(* A thread outside; what it keeps subscribed is noted for NotMissed.      *)
UserSets(u) ==
    /\ SetHandler(u)
    /\ kept' = IF at \in {"get_any", "exact"}
               THEN {h \in kept \cap Subscribed(table') :
                        table[Name] = h => table'[Name] = h}
               ELSE kept
    /\ UNCHANGED <<plan, sentHandlers, outVars, inVars, at, passVars, told, called>>

(* send(message, handler): push ...                                        *)
UserSends(u) ==
    /\ todo[u] # <<>> /\ "mid" \in DOMAIN Head(todo[u])
    /\ queue' = queue \cup {Head(todo[u]).mid}
    /\ registering' = registering \cup {Head(todo[u])}
    /\ todo' = [todo EXCEPT ![u] = Tail(@)]
    /\ UNCHANGED <<plan, table, sentHandlers, sentMessages, inVars, at, passVars, told,
                   arrivalVars>>

(* ... and reg_messsage_sent().                                            *)
UserRegisters ==
    /\ \E r \in registering :
          /\ sentHandlers' = [sentHandlers EXCEPT ![r.mid] = r.handler]
          /\ registering' = registering \ {r}
    /\ UNCHANGED <<plan, tableVars, queue, sentMessages, inVars, at, passVars, told,
                   arrivalVars>>

----------------------------------------------------------------------------
(* Messages and time.                                                      *)

(* mt_reg_sent_message(), whose mutex mt_process_sent() holds.             *)
Written ==
    /\ at \notin SentStage \cup {"gone"}
    /\ \E m \in queue :
          /\ queue' = queue \ {m}
          /\ sentMessages' = Append(sentMessages, m)
    /\ UNCHANGED <<plan, tableVars, sentHandlers, registering, inVars, at, passVars, told,
                   arrivalVars>>

Arrives ==
    /\ at # "gone" /\ arrived < Len(plan.arrives)
    /\ arrived' = arrived + 1
    /\ UNCHANGED <<plan, tableVars, sentHandlers, outVars, handled, due, elapsed, at,
                   passVars, told, arrivalVars>>

TimePasses ==
    /\ at # "gone" /\ elapsed < plan.timeouts
    /\ elapsed' = elapsed + 1
    /\ due' = due + 1
    /\ UNCHANGED <<plan, tableVars, sentHandlers, outVars, arrived, handled, at,
                   passVars, told, arrivalVars>>

----------------------------------------------------------------------------
(* Calls.  A handler that is called may set or clear one.                  *)

CallHandler(h) ==
    \/ UNCHANGED tableVars
    \/ h # NoHandler /\ SetHandler(Pass)

(* What an exception of the handler leads to: process_client() catches it  *)
(* and calls the error handler, unless it is a disconnected_error.         *)
Thrown(h) == IF h = NoHandler THEN {} ELSE {"error", "gone"}

----------------------------------------------------------------------------
(* mt_process(): the sent messages first.                                  *)

BeginPass ==
    /\ at = "idle"
    /\ at' = "sent"
    /\ UNCHANGED <<plan, tableVars, sentHandlers, outVars, inVars, passVars, told, arrivalVars>>

(* Mutant: the whole list is taken at once.                                *)
TakeAllSent ==
    /\ at = "sent" /\ sentMessages # <<>>
    /\ mid' = Head(sentMessages)
    /\ sentMessages' = <<>>
    /\ told' = told \cup {mid'}
    /\ at' = "mapped"
    /\ UNCHANGED <<plan, tableVars, sentHandlers, registering, queue, inVars, anyHandler,
                   then, arrivalVars>>

(* A round of mt_process_sent(): the entry goes before the session is told.*)
TakeSent ==
    /\ at = "sent" /\ sentMessages # <<>>
    /\ mid' = Head(sentMessages)
    /\ sentMessages' = Tail(sentMessages)
    /\ told' = told \cup {mid'}
    /\ at' = "mapped"
    /\ UNCHANGED <<plan, tableVars, sentHandlers, registering, queue, inVars, anyHandler,
                   then, arrivalVars>>

(* Mutant: an exception of the mapped handler passes the sentinel by.      *)
CallMappedBare ==
    /\ at = "mapped"
    /\ CallHandler(sentHandlers[mid])
    /\ at' \in {"default"} \cup Thrown(sentHandlers[mid])
    /\ UNCHANGED <<plan, sentHandlers, outVars, inVars, passVars, told, arrivalVars>>

(* call_message_sent(): the handler mapped to the identifier ...           *)
CallMapped ==
    /\ at = "mapped"
    /\ CallHandler(sentHandlers[mid])
    /\ \/ at' = "default" /\ UNCHANGED then
       \/ at' = "unregister" /\ then' \in Thrown(sentHandlers[mid])
    /\ UNCHANGED <<plan, sentHandlers, outVars, inVars, mid, anyHandler, told, arrivalVars>>

(* ... the handler of all messages ...                                     *)
CallSent ==
    /\ at = "default"
    /\ CallHandler(table["sent"])
    /\ at' = "unregister"
    /\ then' \in {"sent"} \cup Thrown(table["sent"])
    /\ UNCHANGED <<plan, sentHandlers, outVars, inVars, mid, anyHandler, told, arrivalVars>>

(* ... and, whatever they did, unreg_message_sent() of the sentinel.       *)
Unregister ==
    /\ at = "unregister"
    /\ sentHandlers' = [sentHandlers EXCEPT ![mid] = NoHandler]
    /\ at' = then
    /\ UNCHANGED <<plan, tableVars, outVars, inVars, passVars, told, arrivalVars>>

EndSent ==
    /\ at = "sent" /\ sentMessages = <<>>
    /\ at' = "arrived"
    /\ UNCHANGED <<plan, tableVars, sentHandlers, outVars, inVars, passVars, told, arrivalVars>>

----------------------------------------------------------------------------
(* Then what arrived, until the quantum elapses.                           *)

TakeMessage ==
    /\ at = "arrived" /\ handled < arrived
    /\ handled' = handled + 1
    /\ kept' = {table[plan.arrives[handled + 1]], table["any"]} \ {NoHandler}
    /\ called' = {}
    /\ at' = "get_any"
    /\ UNCHANGED <<plan, tableVars, sentHandlers, outVars, arrived, due, elapsed, passVars,
                   told>>

(* call_message_arrived(): a copy of the handler of any message is taken   *)
(* before that of the name's handler is, ...                               *)
GetAny ==
    /\ at = "get_any"
    /\ anyHandler' = table["any"]
    /\ at' = "exact"
    /\ UNCHANGED <<plan, tableVars, sentHandlers, outVars, inVars, mid, then, told,
                   arrivalVars>>

(* ... which is called first.                                              *)
CallExact ==
    /\ at = "exact"
    /\ CallHandler(table[Name])
    /\ called' = called \cup ({table[Name]} \ {NoHandler})
    /\ at' \in {"any"} \cup Thrown(table[Name])
    /\ UNCHANGED <<plan, sentHandlers, outVars, inVars, passVars, told, kept>>

(* Mutant: the handler is looked up when it is called.                     *)
CallAnyNow ==
    /\ at = "any"
    /\ CallHandler(table["any"])
    /\ called' = called \cup ({table["any"]} \ {NoHandler})
    /\ at' \in {"reply"} \cup Thrown(table["any"])
    /\ UNCHANGED <<plan, sentHandlers, outVars, inVars, passVars, told, kept>>

CallAny ==
    /\ at = "any"
    /\ CallHandler(anyHandler)
    /\ called' = called \cup ({anyHandler} \ {NoHandler})
    /\ at' \in {"reply"} \cup Thrown(anyHandler)
    /\ UNCHANGED <<plan, sentHandlers, outVars, inVars, passVars, told, kept>>

(* process_received(): what a handler put into the parameters is sent, with*)
(* the sent handler it put there.                                          *)
SendReply ==
    /\ at = "reply"
    /\ LET replies == {m \in Mids : plan.replies[m] = handled /\ called # {}} IN
          /\ queue' = queue \cup replies
          /\ \E h \in Handlers \cup {NoHandler} :
                sentHandlers' = [m \in Mids |-> IF m \in replies THEN h ELSE sentHandlers[m]]
    /\ at' = "arrived"
    /\ UNCHANGED <<plan, tableVars, registering, sentMessages, inVars, passVars, told,
                   arrivalVars>>

EndArrived ==
    /\ at = "arrived"
    /\ at' = "timeouts"
    /\ UNCHANGED <<plan, tableVars, sentHandlers, outVars, inVars, passVars, told, arrivalVars>>

----------------------------------------------------------------------------
(* Then the timeouts, and the end of the pass.                             *)

CallTimeout ==
    /\ at = "timeouts" /\ due > 0
    /\ due' = due - 1
    /\ CallHandler(table["timeout"])
    /\ at' \in {"timeouts"} \cup Thrown(table["timeout"])
    /\ UNCHANGED <<plan, sentHandlers, outVars, arrived, handled, elapsed, passVars, told,
                   arrivalVars>>

EndTimeouts ==
    /\ at = "timeouts" /\ due = 0
    /\ at' = "after"
    /\ UNCHANGED <<plan, tableVars, sentHandlers, outVars, inVars, passVars, told, arrivalVars>>

CallAfterProcessed ==
    /\ at = "after"
    /\ CallHandler(table["after"])
    /\ at' \in {"idle"} \cup Thrown(table["after"])
    /\ UNCHANGED <<plan, sentHandlers, outVars, inVars, passVars, told, arrivalVars>>

(* handle_error(): what the error handler throws is thrown away.           *)
CallError ==
    /\ at = "error"
    /\ CallHandler(table["error"])
    /\ at' = "idle"
    /\ UNCHANGED <<plan, sentHandlers, outVars, inVars, passVars, told, arrivalVars>>

----------------------------------------------------------------------------
PassStep ==
    \/ BeginPass \/ TakeSent \/ CallMapped \/ CallSent \/ Unregister \/ EndSent
    \/ TakeMessage \/ GetAny \/ CallExact \/ CallAny \/ SendReply \/ EndArrived
    \/ CallTimeout \/ EndTimeouts \/ CallAfterProcessed \/ CallError

UserStep == \E u \in Users : UserSets(u) \/ UserSends(u)

Next == UserStep \/ UserRegisters \/ Written \/ Arrives \/ TimePasses \/ PassStep

Spec == Init /\ [][Next]_vars

(* Fairness: passes go on (the idle timer begins them), and the quantum of *)
(* what arrives is in the end long enough for a message.                   *)
FairSpec == Spec /\ WF_vars(PassStep) /\ SF_vars(TakeMessage)

----------------------------------------------------------------------------
(* A handler that is subscribed while a message is processed is called for *)
(* it, also when it is moved from all messages to this one's name, set     *)
(* there before it is cleared here.  (Moved the other way it may miss the  *)
(* message.)                                                               *)
NotMissed == at = "reply" => kept \subseteq called

(* No handler outlives its message in the table: it would be called for    *)
(* nothing, or for another message.  A thread outside the pass, which      *)
(* registers after it has pushed, may come too late.                       *)
Unregistered ==
    \A m \in told :
        \/ sentHandlers[m] = NoHandler
        \/ m = mid /\ at \in {"mapped", "default", "unregister"}
        \/ \E u \in Users : \E i \in DOMAIN plan.script[u] :
              "mid" \in DOMAIN plan.script[u][i] /\ plan.script[u][i].mid = m

Positions == UNION {DOMAIN p.arrives : p \in Plans}

(* Whatever handlers throw, each message that arrived is taken, and the    *)
(* session is told of each that was written, unless the connection ends.   *)
Delivered ==
    /\ \A i \in Positions : (arrived >= i) ~> (handled >= i \/ at = "gone")
    /\ \A m \in Mids :
          (\E i \in DOMAIN sentMessages : sentMessages[i] = m) ~> (m \in told \/ at = "gone")
=============================================================================
