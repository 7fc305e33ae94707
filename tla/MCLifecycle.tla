---------------------------- MODULE MCLifecycle ----------------------------
(* The life of a dispatcher on small instances: two threads and a          *)
(* communicator, or one thread and two, both with a reset().               *)
EXTENDS Lifecycle

CONSTANTS t1, t2

TwoThreads == {t1, t2}
SmallPlans ==
    {p \in [role : {"server", "client"}, crew : {{t1}, {t1, t2}},
            comms : {{1}, {1, 2}}, resets : {1}] :
        Cardinality(p.crew) + Cardinality(p.comms) = 3}
============================================================================
