--------------------------- MODULE ConnLifecycle ---------------------------
(***************************************************************************)
(* What the dispatcher promises about one communicator, and nothing about  *)
(* how: it is listed when its connection is made, held by exactly one      *)
(* thread whenever something is done with it, and taken off the list only  *)
(* by the thread that holds it, which then says farewell to its session;   *)
(* after that nothing happens to it any more.                              *)
(***************************************************************************)
CONSTANT Threads

VARIABLES
    stage,              \* where the communicator is in its life
    holders             \* the threads that hold it

Init == stage = "absent" /\ holders = {}

Enter == stage = "absent" /\ stage' = "listed" /\ UNCHANGED holders

Acquire(t) == stage = "listed" /\ stage' = "held" /\ holders' = {t}

Release(t) == stage = "held" /\ holders = {t} /\ stage' = "listed" /\ holders' = {}

Remove(t) == stage = "held" /\ holders = {t} /\ stage' = "removed" /\ UNCHANGED holders

Farewell(t) == stage = "removed" /\ holders = {t} /\ stage' = "gone" /\ holders' = {}

Next ==
    \/ Enter
    \/ \E t \in Threads : Acquire(t) \/ Release(t) \/ Remove(t) \/ Farewell(t)

Spec == Init /\ [][Next]_<<stage, holders>>
============================================================================
