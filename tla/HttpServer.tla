----------------------------- MODULE HttpServer -----------------------------
(***************************************************************************)
(* The server of samples/http on top of a dispatcher that one thread runs: *)
(* its stateful decoder, which is one object for all connections, and its  *)
(* session, which answers, closes the connection when the answer is sent,  *)
(* and closes one that sends nothing in time.  Text is abstracted to       *)
(* cells: the lines of a header, the empty line after it ("sep"), parts of *)
(* a body.  Only what a header line says of the length and of the host     *)
(* matters.  What a dispatcher does besides is the subject of Dispatcher.  *)
(***************************************************************************)
EXTENDS Naturals, SequencesExt

CONSTANTS
    Conns,              \* connections
    Plans,              \* what is sent on them, see HttpAssumption
    NoConn

(* Headers: they ask for a file, for one that cannot be opened, or have no *)
(* host; or are a post, ask for a file that is missing, or for a host that *)
(* is not served, and say how long the body is.                            *)
ContentLength == [post |-> 0, missing |-> 1, elsewhere |-> 2]
Lines == {"get", "locked", "hostless"} \cup DOMAIN ContentLength

(* A request is its text; "junk" is a line that cannot be parsed.          *)
Request ==
    {<<"get", "sep">>, <<"locked", "sep">>, <<"hostless", "sep">>, <<"junk", "sep">>,
     <<"post", "sep">>, <<"missing", "sep", "body">>, <<"elsewhere", "sep", "body", "body">>}

(* A plan says which connections there are and what is sent on each, and   *)
(* whether it arrives at once or in any parts.                             *)
ASSUME HttpAssumption ==
    /\ \A p \in Plans :
          /\ DOMAIN p.requests \subseteq Conns
          /\ p.requests \in [DOMAIN p.requests -> Seq(Request)]
          /\ p.atOnce \in BOOLEAN
    /\ NoConn \notin Conns

VARIABLES
    plan,               \* the plan followed, which does not change
    wire,               \* text that is on its way
    link,               \* "up"; "lost": the peer is gone; "broken": a write failed
    read,               \* "reading"; "last": on a closed socket; "over"
    buffer,             \* _in_buffer
    updated,            \* _in_buffer_updated
    length,             \* _length of the decoder
    lastSize,           \* _last_buf_size of the decoder
    queue,              \* answers in the queue
    writing,            \* answers that are being written
    sent,               \* _sent_messages
    failed,             \* a read or a write failed
    closed,             \* disconnect() was called
    gone,               \* the communicator was removed
    tracking,           \* _track_tout
    elapsed,            \* _timeout has elapsed
    at,                 \* the connection in hand, or NoConn
    given,              \* history: texts the session was given
    answers             \* history: answers the peer was sent

netVars == <<wire, link, read, failed>>
decoderVars == <<length, lastSize>>
inVars == <<buffer, updated>>
outVars == <<queue, writing, sent>>
sessionVars == <<closed, gone, tracking, elapsed>>
vars == <<plan, netVars, decoderVars, inVars, outVars, sessionVars, at, given, answers>>

Answer ==
    {"ok", "not_found", "internal_error", "not_implemented", "unprocessable",
     "bad_request", "length_required"}
Text == Seq(Lines \cup {"junk", "sep", "body"})

TypeOK ==
    /\ plan \in Plans
    /\ wire \in [Conns -> Text] /\ buffer \in [Conns -> Text]
    /\ link \in [Conns -> {"up", "lost", "broken"}]
    /\ read \in [Conns -> {"reading", "last", "over"}]
    /\ updated \in [Conns -> BOOLEAN]
    /\ length \in Nat /\ lastSize \in Nat
    /\ queue \in [Conns -> Seq(Answer)]
    /\ writing \in [Conns -> Seq([answer : Answer, open : BOOLEAN])]
    /\ sent \in [Conns -> Nat]
    /\ failed \subseteq Conns /\ closed \subseteq Conns /\ gone \subseteq Conns
    /\ tracking \subseteq Conns /\ elapsed \subseteq Conns
    /\ at \in Conns \cup {NoConn}
    /\ given \in [Conns -> Seq(Text)]
    /\ answers \in [Conns -> Seq(Answer)]

(* The connections of the plan.                                            *)
Used == DOMAIN plan.requests

(* The constructor of a session starts to track the timeout.               *)
Init ==
    /\ plan \in Plans
    /\ wire = [c \in Conns |-> IF c \in Used THEN FlattenSeq(plan.requests[c]) ELSE <<>>]
    /\ link = [c \in Conns |-> "up"]
    /\ read = [c \in Conns |-> "reading"]
    /\ buffer = [c \in Conns |-> <<>>]
    /\ updated = [c \in Conns |-> FALSE]
    /\ length = 0 /\ lastSize = 0
    /\ queue = [c \in Conns |-> <<>>]
    /\ writing = [c \in Conns |-> <<>>]
    /\ sent = [c \in Conns |-> 0]
    /\ failed = {} /\ closed = {} /\ gone = Conns \ Used
    /\ tracking = Used /\ elapsed = {}
    /\ at = NoConn
    /\ given = [c \in Conns |-> <<>>]
    /\ answers = [c \in Conns |-> <<>>]

----------------------------------------------------------------------------
(* Peers, time and the asio handlers.  They run between passes: there is   *)
(* one thread.                                                             *)

(* mt_asio_read_handler(); a read that had completed when the socket was   *)
(* closed is the last one.                                                 *)
ReadHandler(c) ==
    /\ at = NoConn
    /\ c \notin gone /\ read[c] = "reading" /\ wire[c] # <<>>
    /\ \E n \in 1..Len(wire[c]) :
          /\ plan.atOnce => n = Len(wire[c])
          /\ buffer' = [buffer EXCEPT ![c] = @ \o SubSeq(wire[c], 1, n)]
          /\ wire' = [wire EXCEPT ![c] = SubSeq(@, n + 1, Len(@))]
    /\ updated' = [updated EXCEPT ![c] = TRUE]
    /\ read' = [read EXCEPT ![c] = IF c \in closed THEN "last" ELSE @]
    /\ UNCHANGED <<plan, link, failed, decoderVars, outVars, sessionVars, at, given,
                   answers>>
ReadFailed(c) ==
    /\ at = NoConn
    /\ c \notin gone /\ read[c] # "over"
    /\ c \in closed \/ link[c] # "up"
    /\ read' = [read EXCEPT ![c] = "over"]
    /\ failed' = failed \cup {c}
    /\ UNCHANGED <<plan, wire, link, decoderVars, inVars, outVars, sessionVars, at,
                   given, answers>>

(* mt_asio_write_handler(): a write that was started on an open socket may *)
(* have completed before the socket was closed.                            *)
WriteCompleted(c) ==
    /\ at = NoConn
    /\ writing[c] # <<>> /\ Head(writing[c]).open /\ link[c] # "broken"
    /\ writing' = [writing EXCEPT ![c] = Tail(@)]
    /\ sent' = [sent EXCEPT ![c] = @ + 1]
    /\ answers' = [answers EXCEPT ![c] = Append(@, Head(writing[c]).answer)]
    /\ UNCHANGED <<plan, netVars, decoderVars, inVars, queue, sessionVars, at, given>>

WriteFailed(c) ==
    /\ at = NoConn
    /\ writing[c] # <<>>
    /\ c \in closed \/ link[c] # "up"
    /\ writing' = [writing EXCEPT ![c] = Tail(@)]
    /\ link' = [link EXCEPT ![c] = "broken"]
    /\ failed' = failed \cup {c}
    /\ UNCHANGED <<plan, wire, read, decoderVars, inVars, queue, sent,
                   sessionVars, at, given, answers>>

PeerLeaves(c) ==
    /\ link[c] = "up" /\ c \notin gone
    /\ link' = [link EXCEPT ![c] = "lost"]
    /\ UNCHANGED <<plan, wire, read, failed, decoderVars, inVars, outVars, sessionVars,
                   at, given, answers>>

TimePasses(c) ==
    /\ c \in tracking \ (elapsed \cup gone)
    /\ elapsed' = elapsed \cup {c}
    /\ UNCHANGED <<plan, netVars, decoderVars, inVars, outVars, closed, gone, tracking,
                   at, given, answers>>

----------------------------------------------------------------------------
(* The decoder: what find_raw_message() does with a buffer that changed.   *)

SepAt(buf) ==
    IF \E i \in DOMAIN buf : buf[i] = "sep"
    THEN CHOOSE i \in DOMAIN buf :
            buf[i] = "sep" /\ \A j \in 1..(i - 1) : buf[j] # "sep"
    ELSE 0

(* parse_header(): what precedes the empty line ends with a header line.   *)
Parsed(buf) == SepAt(buf) > 1 /\ buf[SepAt(buf) - 1] \in Lines

HasLength(buf) == buf[SepAt(buf) - 1] \in DOMAIN ContentLength

(* Mutant: the length of the header is not added.                          *)
WithoutHeader(buf) ==
    IF length > 0 THEN length
    ELSE IF SepAt(buf) = 0 \/ ~Parsed(buf) THEN 0
    ELSE IF HasLength(buf) THEN ContentLength[buf[SepAt(buf) - 1]]
    ELSE SepAt(buf)

(* The length of the message in front of the buffer, its header included;  *)
(* 0 when it is not known yet.                                             *)
MessageLength(buf) ==
    IF length > 0 THEN length
    ELSE IF SepAt(buf) = 0 \/ ~Parsed(buf) THEN 0
    ELSE IF HasLength(buf) THEN SepAt(buf) + ContentLength[buf[SepAt(buf) - 1]]
    ELSE SepAt(buf)

(* Without Content-Length more than a header is an error.                  *)
LengthRequired(buf) ==
    length = 0 /\ SepAt(buf) > 0 /\ Parsed(buf) /\ ~HasLength(buf) /\ SepAt(buf) < Len(buf)

BadRequest(buf) == length = 0 /\ SepAt(buf) > 0 /\ ~Parsed(buf)

Found(buf) ==
    ~LengthRequired(buf) /\ MessageLength(buf) \in 1..Len(buf)

(* finish_decode()                                                         *)
FinishDecode == length' = 0 /\ lastSize' = 0

----------------------------------------------------------------------------
(* mt_process() of a connection.                                           *)

(* Mutant: the session does not close the connection.                      *)
KeepOpen(c) ==
    /\ at = NoConn
    /\ c \notin gone
    /\ at' = c
    /\ sent' = [sent EXCEPT ![c] = 0]
    /\ UNCHANGED <<plan, netVars, decoderVars, inVars, queue, writing, sessionVars,
                   given, answers>>

(* Mutant: an entry is removed whether there is one or not.                *)
RemoveAnyway(c) ==
    /\ at = NoConn
    /\ c \notin gone
    /\ at' = c
    /\ sent' = [sent EXCEPT ![c] = @ - 1]
    /\ closed' = closed \cup {c}
    /\ UNCHANGED <<plan, netVars, decoderVars, inVars, queue, writing, gone, tracking,
                   elapsed, given, answers>>

(* The sent handler of the session closes the connection.                  *)
BeginPass(c) ==
    /\ at = NoConn
    /\ c \notin gone
    /\ at' = c
    /\ sent' = [sent EXCEPT ![c] = 0]
    /\ closed' = IF sent[c] > 0 THEN closed \cup {c} ELSE closed
    /\ UNCHANGED <<plan, netVars, decoderVars, inVars, queue, writing, gone, tracking,
                   elapsed, given, answers>>

(* Mutant: a stack instead of a queue.                                     *)
SendFirst(c, answer) == queue' = [queue EXCEPT ![c] = <<answer>> \o @]

Send(c, answer) == queue' = [queue EXCEPT ![c] = Append(@, answer)]

(* check_resource(): the answer to what it throws, or "ok".                *)
CheckResource(line) ==
    CASE line = "elsewhere" -> "unprocessable"
      [] line = "missing" -> "not_found"
      [] OTHER -> "ok"

(* handle_get(), of a file that is there.                                  *)
HandleGet(line) == IF line = "locked" THEN "internal_error" ELSE "ok"

(* process_request(), which turns what is thrown into answers.             *)
ProcessRequest(line) ==
    CASE line = "post" -> "not_implemented"
      [] CheckResource(line) # "ok" -> CheckResource(line)
      [] OTHER -> HandleGet(line)

(* error_handler(), after which the pass is over.                          *)
ErrorHandler(c, answer) == Send(c, answer) /\ at' = NoConn

(* message_arrived_handler(): the answer goes unless get_header() throws,  *)
(* because there is no host.                                               *)
ArrivedHandler(c, text) ==
    /\ tracking' = tracking \ {c}
    /\ IF text[1] = "hostless" THEN ErrorHandler(c, "bad_request")
                               ELSE Send(c, ProcessRequest(text[1])) /\ UNCHANGED at

(* A round of mt_process_arrived() that finds a message.  The flag stays   *)
(* when the buffer is empty now: the round that would clear it changes     *)
(* nothing else, and the next read sets it in any case.                    *)
TakeMessage(c) ==
    /\ lastSize # Len(buffer[c]) /\ Found(buffer[c])
    /\ FinishDecode
    /\ LET n == MessageLength(buffer[c])
           text == SubSeq(buffer[c], 1, n) IN
          /\ buffer' = [buffer EXCEPT ![c] = SubSeq(@, n + 1, Len(@))]
          /\ given' = [given EXCEPT ![c] = Append(@, text)]
          /\ ArrivedHandler(c, text)
    /\ UNCHANGED updated

(* Mutant: the error is not answered.                                      *)
Swallow(c) ==
    /\ lastSize # Len(buffer[c])
    /\ BadRequest(buffer[c]) \/ LengthRequired(buffer[c])
    /\ lastSize' = Len(buffer[c])
    /\ at' = NoConn
    /\ UNCHANGED <<length, inVars, queue, given, tracking>>

(* A round in which the decoder throws.  The text stays in the buffer.     *)
Refuse(c) ==
    /\ lastSize # Len(buffer[c])
    /\ \/ BadRequest(buffer[c]) /\ ErrorHandler(c, "bad_request")
       \/ LengthRequired(buffer[c]) /\ ErrorHandler(c, "length_required")
    /\ lastSize' = Len(buffer[c])
    /\ UNCHANGED <<length, inVars, given, tracking>>

(* A round that finds nothing; it may have learned the length.             *)
FindNothing(c) ==
    /\ \/ lastSize = Len(buffer[c])
       \/ ~Found(buffer[c]) /\ ~BadRequest(buffer[c]) /\ ~LengthRequired(buffer[c])
    /\ length' = IF lastSize = Len(buffer[c]) THEN length ELSE MessageLength(buffer[c])
    /\ lastSize' = Len(buffer[c])
    /\ updated' = [updated EXCEPT ![c] = FALSE]
    /\ UNCHANGED <<buffer, queue, at, given, tracking>>

Decode(c) ==
    /\ at = c /\ updated[c] /\ buffer[c] # <<>>
    /\ TakeMessage(c) \/ Refuse(c) \/ FindNothing(c)
    /\ UNCHANGED <<plan, netVars, writing, sent, closed, gone, elapsed, answers>>

(* The rest of the pass: mt_start_write(), of one answer or as many as the *)
(* quantum allows; mt_process_errors(), which may end the connection;      *)
(* after_processed_handler(), which closes an idle one.                    *)
FinishPass(c) ==
    /\ at = c
    /\ \E n \in 0..Len(queue[c]) :
          /\ queue[c] # <<>> => n > 0
          /\ writing' = [writing EXCEPT ![c] =
                @ \o [i \in 1..n |-> [answer |-> queue[c][i], open |-> c \notin closed]]]
          /\ queue' = [queue EXCEPT ![c] = SubSeq(@, n + 1, Len(@))]
    /\ LET idle == c \in tracking \cap elapsed /\ c \notin failed IN
          /\ gone' = IF c \in failed THEN gone \cup {c} ELSE gone
          /\ closed' = IF idle \/ c \in failed THEN closed \cup {c} ELSE closed
          /\ tracking' = IF idle THEN tracking \ {c} ELSE tracking
    /\ failed' = failed \ {c}
    /\ at' = NoConn
    /\ UNCHANGED <<plan, wire, link, read, decoderVars, inVars, sent, elapsed, given,
                   answers>>

----------------------------------------------------------------------------
Handler(c) == ReadHandler(c) \/ ReadFailed(c) \/ WriteCompleted(c) \/ WriteFailed(c)

Next ==
    \E c \in Conns :
        \/ Handler(c) \/ PeerLeaves(c) \/ TimePasses(c)
        \/ BeginPass(c) \/ Decode(c) \/ FinishPass(c)

(* Fairness: the idle timer begins passes again and again, the handlers    *)
(* take turns with them, and the quantum of what arrives is long enough    *)
(* for one message.  Nothing is assumed of peers.                          *)
Fairness ==
    \A c \in Conns :
        /\ SF_vars(Handler(c)) /\ SF_vars(BeginPass(c)) /\ SF_vars(Decode(c))
        /\ WF_vars(FinishPass(c))

Spec == Init /\ [][Next]_vars /\ Fairness

----------------------------------------------------------------------------
(* The session is given the requests of its own connection, whole and in   *)
(* order, however the text was cut on its way.                             *)
Intact == \A c \in Used : IsPrefix(given[c], plan.requests[c])

(* The answers a request may get: one without Content-Length is refused    *)
(* when text follows it.                                                   *)
Expected(request) ==
    LET answer == [get |-> "ok", locked |-> "internal_error", hostless |-> "bad_request",
                   junk |-> "bad_request", post |-> "not_implemented",
                   missing |-> "not_found", elsewhere |-> "unprocessable"]
    IN  {answer[request[1]]} \cup
            IF request[1] \in {"get", "locked", "hostless"} THEN {"length_required"} ELSE {}

(* The n-th answer answers the n-th request, until the decoder refuses a   *)
(* request; what stays in the buffer is refused again when more comes.     *)
InOrder ==
    \A c \in Used : \A i \in DOMAIN answers[c] :
        \/ i \in DOMAIN plan.requests[c] /\ answers[c][i] \in Expected(plan.requests[c][i])
        \/ \E j \in 1..(i - 1) :
              answers[c][j] = "length_required" \/ plan.requests[c][j][1] = "junk"

(* A connection whose timeout is not tracked any more is not forgotten:    *)
(* an answer is on its way, or it is about to end.                         *)
NotForgotten ==
    \A c \in Used :
        c \in tracking \/ c \in closed \/ c \in failed
            \/ queue[c] # <<>> \/ writing[c] # <<>> \/ sent[c] > 0

(* The first request that arrives is answered, unless the peer leaves or   *)
(* is too slow.                                                            *)
Answered ==
    \A c \in Conns :
        (c \in Used /\ plan.requests[c] # <<>>) =>
            <>(answers[c] # <<>> \/ link[c] # "up" \/ c \in elapsed)

(* A connection ends when it was answered, or was silent for too long.     *)
Ended == \A c \in Conns : (answers[c] # <<>> \/ c \in elapsed) ~> (c \in gone)
=============================================================================
