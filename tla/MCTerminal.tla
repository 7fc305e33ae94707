------------------------------ MODULE MCTerminal ------------------------------
(* Small terminals.                                                        *)
EXTENDS Terminal

CONSTANTS t1, t2

TwoThreads == {t1, t2}

(* Two clients while two threads walk; one whose peer reads two characters *)
(* while it shows them.                                                    *)
SmallPlans ==
    {[comms |-> {1, 2}, crew |-> {t1, t2}, chars |-> 1, reads |-> FALSE],
     [comms |-> {1}, crew |-> {t1, t2}, chars |-> 2, reads |-> TRUE]}

(* One client and one thread that processes it.                            *)
FanPlans == {[comms |-> {1}, crew |-> {t1}, chars |-> 1, reads |-> FALSE]}
=============================================================================
