--------------------------- MODULE CommContainer ---------------------------
(***************************************************************************)
(* The communicator container (comm_container.cpp): a primary collection,  *)
(* from which a dispatcher thread takes the communicator it is going to    *)
(* process, and an excluded collection that holds the communicators taken  *)
(* out.  Every operation runs under the container's recursive mutex and is *)
(* one action here.  A communicator is known by its identifier; the maps   *)
(* are ordered by it, so take_out() hands out the lowest one.              *)
(***************************************************************************)
EXTENDS Naturals

CONSTANT Comms          \* identifiers new_commid() hands out in this instance

ASSUME CommsAssumption == Comms \subseteq Nat

VARIABLES
    clients,            \* _clients
    excluded            \* _excluded_clients

container == <<clients, excluded>>

ContainerInit == clients = {} /\ excluded = {}

(* client_exists(id): the identifier is in one of the two collections.     *)
Contents == clients \cup excluded

(* clients().begin()                                                       *)
Front == CHOOSE c \in clients : \A d \in clients : c <= d

(***************************************************************************)
(* insert(): nothing happens when the communicator is already known.       *)
(***************************************************************************)
Insert(c) ==
    /\ clients' = clients \cup ({c} \ excluded)
    /\ UNCHANGED excluded

(* Mutant: take_out() forgets clients().erase(comm->id()).                 *)
TakeOutKept(c) ==
    /\ clients # {} /\ c = Front
    /\ excluded' = excluded \cup {c}
    /\ UNCHANGED clients

(* take_out() with result c; on an empty primary collection it returns     *)
(* null and changes nothing.                                               *)
TakeOut(c) ==
    /\ clients # {}
    /\ c = Front
    /\ clients' = clients \ {c}
    /\ excluded' = excluded \cup {c}

(* Mutant: get_back() without the excluded_client_exists(id) test.         *)
GetBackUnchecked(c) ==
    /\ clients' = clients \cup {c}
    /\ excluded' = excluded \ {c}

(* get_back(): only a communicator that is still excluded goes back; one   *)
(* that was erased meanwhile stays erased.                                 *)
GetBack(c) ==
    /\ clients' = clients \cup ({c} \cap excluded)
    /\ excluded' = excluded \ {c}

(* erase(): from both collections.                                         *)
Erase(c) ==
    /\ clients' = clients \ {c}
    /\ excluded' = excluded \ {c}
============================================================================
