---------------------------- MODULE MCHttpServer ----------------------------
(* The HTTP server on small instances.                                     *)
EXTENDS HttpServer

Get == <<"get", "sep">>
Missing == <<"missing", "sep", "body">>
Elsewhere == <<"elsewhere", "sep", "body", "body">>

(* One connection, silent or with one request or two, in any parts, and    *)
(* two connections with a good request each, arriving at once.             *)
SmallPlans ==
    {[requests |-> 1 :> s, atOnce |-> FALSE] :
        s \in {<<>>} \cup {<<r>> : r \in Request}
              \cup {<<r, q>> : r \in Request \ {<<"locked", "sep">>}, q \in {Get, Missing}}}
    \cup {[requests |-> 1 :> <<Get>> @@ 2 :> <<Elsewhere>>, atOnce |-> TRUE]}
=============================================================================
