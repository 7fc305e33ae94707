---------------------------- MODULE MCDispatcher ----------------------------
(* The dispatcher on a small instance: two threads of the pool and a       *)
(* caller outside it, who meet at one communicator.                        *)
EXTENDS DispatcherRefinement
============================================================================
