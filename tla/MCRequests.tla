----------------------------- MODULE MCRequests -----------------------------
(* Requests and what arrives, on small instances.                          *)
EXTENDS Requests
=============================================================================
