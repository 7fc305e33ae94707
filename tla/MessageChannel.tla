--------------------------- MODULE MessageChannel ---------------------------
(***************************************************************************)
(* What an encoder and a decoder promise of the messages of a connection:  *)
(* those that were sent arrive whole, once each and in the order in which  *)
(* they were sent, and one that cannot be read costs no other.             *)
(***************************************************************************)
EXTENDS Naturals, Sequences

CONSTANTS
    Message,
    Readable            \* the messages that the receiver can read

VARIABLES
    sent,               \* the messages sent
    taken,              \* how many of them the receiver is done with
    got                 \* the messages the receiver has got

channelVars == <<sent, taken, got>>

Init == sent = <<>> /\ taken = 0 /\ got = <<>>

Send(m) ==
    /\ sent' = Append(sent, m)
    /\ UNCHANGED <<taken, got>>

Deliver ==
    /\ taken < Len(sent)
    /\ taken' = taken + 1
    /\ got' = Append(got, sent[taken'])
    /\ UNCHANGED sent

GiveUp ==
    /\ taken < Len(sent)
    /\ sent[taken + 1] \notin Readable
    /\ taken' = taken + 1
    /\ UNCHANGED <<sent, got>>

Next == Deliver \/ GiveUp \/ \E m \in Message : Send(m)

Safety == Init /\ [][Next]_channelVars
Spec == Safety /\ WF_channelVars(Deliver \/ GiveUp)
=============================================================================
