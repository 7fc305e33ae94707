------------------------------ MODULE Incoming ------------------------------
(***************************************************************************)
(* What arrives at one communicator (comm.cpp, comm_buffer.cpp): the peer  *)
(* writes messages; a read takes whatever part of them has come, appends   *)
(* it to the buffer and afterwards sets the flag that the buffer changed;  *)
(* mt_process_arrived() cuts whole messages off the buffer's front until   *)
(* there is none, and afterwards clears the flag.  A message is Pieces     *)
(* long; the buffer is what was received and not yet decoded.              *)
(***************************************************************************)
EXTENDS Naturals, Sequences

CONSTANT Pieces

ASSUME IncomingAssumption == Pieces \in Nat \ {0}

VARIABLES
    wire,               \* the messages the peer has written
    received,           \* how much of them was appended to _in_buffer
    decoded,            \* how many messages were cut off _in_buffer
    updated,            \* _in_buffer_updated
    reader,             \* "reading", "flag" inside the read handler, "stopped"
    link                \* "up" or "lost"

incomingVars == <<wire, received, decoded, updated, reader, link>>

IncomingType(Message) ==
    /\ wire \in Seq(Message)
    /\ received \in Nat /\ decoded \in Nat
    /\ updated \in BOOLEAN
    /\ reader \in {"reading", "flag", "stopped"}
    /\ link \in {"up", "lost"}

IncomingInit ==
    /\ wire = <<>>
    /\ received = 0 /\ decoded = 0
    /\ updated = FALSE
    /\ reader = "reading"
    /\ link = "up"

BufferEmpty == received = Pieces * decoded

(* find_raw_message() finds a message in front of the buffer.              *)
Complete == received >= Pieces * (decoded + 1)

(* perform_decode(), which cuts the message off before it decodes it.      *)
TakeMessage ==
    /\ Complete
    /\ decoded' = decoded + 1
    /\ UNCHANGED <<wire, received, updated, reader, link>>

PeerSends(m) ==
    /\ link = "up"
    /\ wire' = Append(wire, m)
    /\ UNCHANGED <<received, decoded, updated, reader, link>>

(* mt_asio_read_handler() without error: the buffer, then ...              *)
AppendData ==
    /\ reader = "reading"
    /\ received' \in (received + 1)..(Pieces * Len(wire))
    /\ reader' = "flag"
    /\ UNCHANGED <<wire, decoded, updated, link>>

(* ... the flag; the sentry starts the next read.                          *)
SetUpdated ==
    /\ reader = "flag"
    /\ updated' = TRUE
    /\ reader' = "reading"
    /\ UNCHANGED <<wire, received, decoded, link>>

(* mt_is_in_buffer_updated(false)                                          *)
ClearUpdated ==
    /\ updated' = FALSE
    /\ UNCHANGED <<wire, received, decoded, reader, link>>

(* mt_asio_read_handler() with an error: no further read.                  *)
StopReading ==
    /\ reader = "reading" /\ link = "lost"
    /\ reader' = "stopped"
    /\ UNCHANGED <<wire, received, decoded, updated, link>>

LoseLink ==
    /\ link = "up"
    /\ link' = "lost"
    /\ UNCHANGED <<wire, received, decoded, updated, reader>>
=============================================================================
