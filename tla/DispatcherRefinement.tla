------------------------ MODULE DispatcherRefinement ------------------------
(* The dispatcher implements ConnLifecycle for every communicator: it is   *)
(* listed while it is in the primary collection, held while it is excluded *)
(* and removed from the erase() to the end of its disconnected handler.    *)
EXTENDS Dispatcher

Departing(t, c) == cur[t] = c /\ pc[t] = "call_disconnected"

Stage(c) ==
    IF c \in pending THEN "absent"
    ELSE IF c \in clients THEN "listed"
    ELSE IF c \in excluded THEN "held"
    ELSE IF \E t \in Threads : Departing(t, c) THEN "removed"
    ELSE "gone"

Holders(c) ==
    {t \in Threads : IF c \in excluded THEN c \in taken[t] ELSE Departing(t, c)}

Lifecycle(c) == INSTANCE ConnLifecycle WITH stage <- Stage(c), holders <- Holders(c)

(* Every step of the dispatcher is a step of a connection's life cycle or  *)
(* leaves it where it is: Lifecycle(c)!Spec for every communicator, with   *)
(* the quantifier moved inside the box, where TLC can evaluate it.         *)
ImplementsLifecycle ==
    /\ \A c \in Comms : Lifecycle(c)!Init
    /\ [][\A c \in Comms :
            UNCHANGED <<Stage(c), Holders(c)>> \/ Lifecycle(c)!Next]_vars
============================================================================
