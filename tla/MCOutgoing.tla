----------------------------- MODULE MCOutgoing -----------------------------
(* The outgoing path on small instances.                                   *)
EXTENDS Outgoing

CONSTANTS u1, u2

(* Two senders and a handler of the session, which sends with a higher     *)
(* priority.  It and the first sender have sent handlers of their own; the *)
(* senders' messages come with identifiers, and the one that is generated  *)
(* is none of these.                                                       *)
MixedBy == <<Pass, u1, u2>>
MixedPriority == <<2, 1, 1>>

(* Two senders, the second one's message being more urgent.                *)
TwoBy == <<u1, u2>>
Urgent == <<1, 2>>
Equal == <<1, 1>>
============================================================================
