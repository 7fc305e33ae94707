------------------------------ MODULE Terminal ------------------------------
(***************************************************************************)
(* The terminal sample (samples/term): what is typed goes to all clients   *)
(* by send_all(), which walks the two collections of the container, while  *)
(* pool threads take communicators out and give them back; a peer shows    *)
(* what its decoder takes from the buffer.  The thread that types is none  *)
(* of the pool.  Kicks are those of Dispatcher: here a pass may begin at   *)
(* any time.  Characters are numbered.                                     *)
(***************************************************************************)
EXTENDS CommContainer, Sequences, FiniteSets

CONSTANTS
    Threads,            \* threads that run the server's dispatcher
    NoComm,
    Plans               \* records [comms, crew, chars, reads]

(* A plan: who may connect, the threads at work, how many characters are   *)
(* typed, and whether peers read what they are sent.                       *)
Plan == [comms : SUBSET Comms, crew : SUBSET Threads, chars : Nat, reads : BOOLEAN]

ASSUME TerminalAssumption == Plans \subseteq Plan /\ NoComm \notin Comms

VARIABLES
    plan,               \* the plan followed, which does not change
    pc,                 \* where each thread of the server is
    cur,                \* the communicator it processes
    taken,              \* those it has to give back
    conn,               \* the life of each connection
    queue,              \* characters that wait for a pass
    typing,             \* where the thread that types is
    typed,              \* characters typed so far
    met,                \* history: connections open when the first walk was made
    given,              \* history: characters sent to each communicator
    wire,               \* written and not yet read
    reader,             \* where the peer's read handler is
    buffer,             \* _in_buffer of the peer
    updated,            \* _in_buffer_updated
    pass,               \* where the peer's pass is
    held,               \* the message the decoder has made
    shown               \* history: what the peer has put out

poolVars == <<pc, cur, taken, conn>>
sendVars == <<typing, typed, met, given>>
peerVars == <<reader, buffer, updated, pass, held, shown>>
vars == <<plan, container, poolVars, queue, sendVars, wire, peerVars>>

Chars == Seq(Nat)

(* A connection is fresh until its session is created, and lost when its   *)
(* peer has left.                                                          *)
TypeOK ==
    /\ plan \in Plans
    /\ clients \subseteq Comms /\ excluded \subseteq Comms
    /\ clients \cap excluded = {}
    /\ pc \in [Threads -> {"idle", "take_out", "process", "get_back"}]
    /\ cur \in [Threads -> Comms \cup {NoComm}]
    /\ taken \in [Threads -> Seq(Comms)]
    /\ conn \in [Comms -> {"none", "fresh", "up", "lost", "gone"}]
    /\ queue \in [Comms -> Chars]
    /\ typing \in {"getch", "primary", "excluded", "dead"}
    /\ typed \in 0..plan.chars
    /\ met \subseteq Comms
    /\ given \in [Comms -> Chars]
    /\ wire \in [Comms -> Chars] /\ buffer \in [Comms -> Chars]
    /\ reader \in [Comms -> {"wait", "flag"}]
    /\ updated \in [Comms -> BOOLEAN]
    /\ pass \in [Comms -> {"idle", "decode", "clear", "unflag"}]
    /\ held \in [Comms -> Chars] /\ shown \in [Comms -> Chars]

Init ==
    /\ plan \in Plans
    /\ ContainerInit
    /\ pc = [t \in Threads |-> "idle"]
    /\ cur = [t \in Threads |-> NoComm]
    /\ taken = [t \in Threads |-> <<>>]
    /\ conn = [c \in Comms |-> "none"]
    /\ queue = [c \in Comms |-> <<>>]
    /\ typing = "getch" /\ typed = 0
    /\ met = {}
    /\ given = [c \in Comms |-> <<>>]
    /\ wire = [c \in Comms |-> <<>>] /\ buffer = [c \in Comms |-> <<>>]
    /\ reader = [c \in Comms |-> "wait"]
    /\ updated = [c \in Comms |-> FALSE]
    /\ pass = [c \in Comms |-> "idle"]
    /\ held = [c \in Comms |-> <<>>] /\ shown = [c \in Comms |-> <<>>]

----------------------------------------------------------------------------
(* The server's pool.                                                      *)

(* asio_accept_handler() inserts a client.                                 *)
Accept(c) ==
    /\ c \in plan.comms /\ conn[c] = "none"
    /\ conn' = [conn EXCEPT ![c] = "fresh"]
    /\ Insert(c)
    /\ UNCHANGED <<plan, pc, cur, taken, queue, sendVars, wire, peerVars>>

PeerLeaves(c) ==
    /\ conn[c] = "up"
    /\ conn' = [conn EXCEPT ![c] = "lost"]
    /\ UNCHANGED <<plan, container, pc, cur, taken, queue, sendVars, wire, peerVars>>

Begin(t) ==
    /\ t \in plan.crew /\ pc[t] = "idle"
    /\ clients # {}
    /\ pc' = [pc EXCEPT ![t] = "take_out"]
    /\ UNCHANGED <<plan, container, cur, taken, conn, queue, sendVars, wire, peerVars>>

Take(t) ==
    /\ pc[t] = "take_out"
    /\ \E c \in clients :
          /\ TakeOut(c)
          /\ cur' = [cur EXCEPT ![t] = c]
          /\ taken' = [taken EXCEPT ![t] = Append(@, c)]
    /\ pc' = [pc EXCEPT ![t] = "process"]
    /\ UNCHANGED <<plan, conn, queue, sendVars, wire, peerVars>>

TakeNone(t) ==
    /\ pc[t] = "take_out" /\ clients = {}
    /\ pc' = [pc EXCEPT ![t] = "get_back"]
    /\ UNCHANGED <<plan, container, cur, taken, conn, queue, sendVars, wire, peerVars>>

(* process_connect(): the session is created; the pass goes on.            *)
ProcessFresh(t) ==
    /\ pc[t] = "process" /\ conn[cur[t]] = "fresh"
    /\ conn' = [conn EXCEPT ![cur[t]] = "up"]
    /\ UNCHANGED <<plan, container, pc, cur, taken, queue, sendVars, wire, peerVars>>

(* mt_start_write(), of as much as the quantum allows.                     *)
ProcessQueue(t) ==
    /\ pc[t] = "process" /\ conn[cur[t]] = "up"
    /\ \E n \in 0..Len(queue[cur[t]]) :
          /\ queue[cur[t]] # <<>> => n > 0
          /\ wire' = [wire EXCEPT ![cur[t]] = @ \o SubSeq(queue[cur[t]], 1, n)]
          /\ queue' = [queue EXCEPT ![cur[t]] = SubSeq(@, n + 1, Len(@))]
    /\ pc' = [pc EXCEPT ![t] = "take_out"]
    /\ UNCHANGED <<plan, container, cur, taken, conn, sendVars, peerVars>>

(* handle_disconnected()                                                   *)
ProcessLost(t) ==
    /\ pc[t] = "process" /\ conn[cur[t]] = "lost"
    /\ Erase(cur[t])
    /\ conn' = [conn EXCEPT ![cur[t]] = "gone"]
    /\ pc' = [pc EXCEPT ![t] = "take_out"]
    /\ UNCHANGED <<plan, cur, taken, queue, sendVars, wire, peerVars>>

GiveBack(t) ==
    /\ pc[t] = "get_back"
    /\ IF taken[t] = <<>>
       THEN /\ pc' = [pc EXCEPT ![t] = "idle"]
            /\ cur' = [cur EXCEPT ![t] = NoComm]
            /\ UNCHANGED <<container, taken>>
       ELSE /\ GetBack(Head(taken[t]))
            /\ taken' = [taken EXCEPT ![t] = Tail(@)]
            /\ UNCHANGED <<pc, cur>>
    /\ UNCHANGED <<plan, conn, queue, sendVars, wire, peerVars>>

----------------------------------------------------------------------------
(* The thread that types.                                                  *)

Getch ==
    /\ typing = "getch" /\ typed < plan.chars
    /\ typed' = typed + 1
    /\ typing' = "primary"
    /\ UNCHANGED <<plan, container, poolVars, queue, met, given, wire, peerVars>>

(* Whom the encoder finds a session of.                                    *)
HasSession == {c \in Comms : conn[c] \in {"up", "lost"}}

(* Whom a walk over a collection reaches: it ends at the first             *)
(* communicator that has no session yet.                                   *)
Walked(S) == {c \in S : \A d \in S : d <= c => d \in HasSession}

(* send_all() of one collection, under the container's mutex; the thread   *)
(* gets the exception and the program ends.                                *)
Walk(S, next) ==
    /\ queue' = [c \in Comms |-> IF c \in Walked(S) THEN Append(queue[c], typed) ELSE queue[c]]
    /\ given' = [c \in Comms |-> IF c \in Walked(S) THEN Append(given[c], typed) ELSE given[c]]
    /\ typing' = IF S \subseteq Walked(S) THEN next ELSE "dead"

WalkClients ==
    /\ typing = "primary"
    /\ Walk(clients, "excluded")
    /\ met' = Contents \cap HasSession
    /\ UNCHANGED <<plan, container, poolVars, typed, wire, peerVars>>

WalkExcluded ==
    /\ typing = "excluded"
    /\ Walk(excluded, "getch")
    /\ UNCHANGED <<plan, container, poolVars, typed, met, wire, peerVars>>

----------------------------------------------------------------------------
(* A peer.  Its read handler appends and then sets the flag; its pass asks *)
(* whether the buffer is empty, copies it, and clears it, each under the   *)
(* buffer's lock.  Two threads, as the sample has them, mix these steps.   *)

ReadHandler(c) ==
    /\ plan.reads
    /\ reader[c] = "wait" /\ wire[c] # <<>>
    /\ \E n \in 1..Len(wire[c]) :
          /\ buffer' = [buffer EXCEPT ![c] = @ \o SubSeq(wire[c], 1, n)]
          /\ wire' = [wire EXCEPT ![c] = SubSeq(@, n + 1, Len(@))]
    /\ reader' = [reader EXCEPT ![c] = "flag"]
    /\ UNCHANGED <<plan, container, poolVars, queue, sendVars, updated, pass, held,
                   shown>>

SetUpdated(c) ==
    /\ reader[c] = "flag"
    /\ updated' = [updated EXCEPT ![c] = TRUE]
    /\ reader' = [reader EXCEPT ![c] = "wait"]
    /\ UNCHANGED <<plan, container, poolVars, queue, sendVars, wire, buffer, pass,
                   held, shown>>

ProcessArrived(c) ==
    /\ pass[c] = "idle" /\ updated[c]
    /\ pass' = [pass EXCEPT ![c] = "decode"]
    /\ UNCHANGED <<plan, container, poolVars, queue, sendVars, wire, reader, buffer,
                   updated, held, shown>>

(* perform_decode(): the text is copied ...                                *)
CopyBuffer(c) ==
    /\ pass[c] = "decode"
    /\ held' = [held EXCEPT ![c] = buffer[c]]
    /\ pass' = [pass EXCEPT ![c] = IF buffer[c] = <<>> THEN "unflag" ELSE "clear"]
    /\ UNCHANGED <<plan, container, poolVars, queue, sendVars, wire, reader, buffer,
                   updated, shown>>

(* Mutant: the text is shown and stays in the buffer.                      *)
ShowAndKeep(c) ==
    /\ pass[c] = "clear"
    /\ shown' = [shown EXCEPT ![c] = @ \o held[c]]
    /\ held' = [held EXCEPT ![c] = <<>>]
    /\ pass' = [pass EXCEPT ![c] = "unflag"]
    /\ UNCHANGED <<plan, container, poolVars, queue, sendVars, wire, reader, buffer, updated>>

(* ... the buffer cleared of what it holds by now, and the text shown.     *)
ClearBuffer(c) ==
    /\ pass[c] = "clear"
    /\ buffer' = [buffer EXCEPT ![c] = <<>>]
    /\ shown' = [shown EXCEPT ![c] = @ \o held[c]]
    /\ held' = [held EXCEPT ![c] = <<>>]
    /\ pass' = [pass EXCEPT ![c] = "decode"]
    /\ UNCHANGED <<plan, container, poolVars, queue, sendVars, wire, reader, updated>>

ClearUpdated(c) ==
    /\ pass[c] = "unflag"
    /\ updated' = [updated EXCEPT ![c] = FALSE]
    /\ pass' = [pass EXCEPT ![c] = "idle"]
    /\ UNCHANGED <<plan, container, poolVars, queue, sendVars, wire, reader, buffer,
                   held, shown>>

----------------------------------------------------------------------------
PoolStep(t) ==
    \/ Begin(t) \/ Take(t) \/ TakeNone(t)
    \/ ProcessFresh(t) \/ ProcessQueue(t) \/ ProcessLost(t) \/ GiveBack(t)

TypingStep == Getch \/ WalkClients \/ WalkExcluded

PeerReads(c) == ReadHandler(c) \/ SetUpdated(c)
PeerPass(c) == ProcessArrived(c) \/ CopyBuffer(c) \/ ClearBuffer(c) \/ ClearUpdated(c)

Next ==
    \/ \E t \in Threads : PoolStep(t)
    \/ TypingStep
    \/ \E c \in Comms : Accept(c) \/ PeerLeaves(c) \/ PeerReads(c) \/ PeerPass(c)

Spec == Init /\ [][Next]_vars

----------------------------------------------------------------------------
Places(c, n) == {i \in DOMAIN given[c] : given[c][i] = n}

(* "Sends a message to the remote sides of all currently opened            *)
(* connections": when send_all() has returned, each connection that was    *)
(* open when it began, and still is there, has been sent the message once. *)
FannedOut ==
    (typing = "getch" /\ typed > 0) =>
        \A c \in met \cap Contents : Cardinality(Places(c, typed)) = 1

(* A sequence is what is left of another when some elements are dropped.   *)
Within(s, t) ==
    \E f \in [DOMAIN s -> DOMAIN t] :
        /\ \A i, j \in DOMAIN s : i < j => f[i] < f[j]
        /\ \A i \in DOMAIN s : t[f[i]] = s[i]

(* From the screen of a peer back to the queue of the server: what is on   *)
(* its way, in order.                                                      *)
Way(c) == shown[c] \o (buffer[c] \o (wire[c] \o queue[c]))

(* Though the decoder copies and clears the buffer in two steps, between   *)
(* which a read handler appends: a peer shows nothing that was not sent to *)
(* it, nothing twice, and nothing out of order.  It may lose text, which   *)
(* the sample does.                                                        *)
NothingInvented == \A c \in Comms : Within(Way(c), given[c])
=============================================================================
