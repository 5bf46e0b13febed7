---------------------------- MODULE ServerRouting ----------------------------
(***************************************************************************)
(* The routing decision of thread_pkt_data_send (server/src/engine/        *)
(* threads.c) against the connection callbacks: the client is looked up by *)
(* destination address under the address pool's lock, and its handle is    *)
(* read after the lock is released.                                        *)
(***************************************************************************)
EXTENDS ServerConn

VARIABLES
    target,     \* the client ip_client_search returned to the thread, or NULL
    addressee,  \* the connection that held the destination at that time, or NULL
    sent        \* the pairs <<addressee, connection>> of datagrams handed to msquic

routeVars == <<target, addressee, sent>>
routingVars == <<vars, routeVars>>

(* Type invariant of the sender's local state. *)
RouteTypeOK ==
    /\ target \in Block \cup {NULL}
    /\ addressee \in Conn \cup {NULL}
    /\ sent \subseteq Conn \X Conn

RouteInit ==
    /\ Init
    /\ target = NULL
    /\ addressee = NULL
    /\ sent = {}

(* A packet for the address at offset o arrives on the tunnel; one for nobody *)
(* goes back to its pool.                                                     *)
Search(o) ==
    /\ target = NULL
    /\ target' = ip_client_search(o)
    /\ addressee' = IF target' = NULL THEN NULL ELSE OwnerOf(target')
    /\ UNCHANGED <<vars, sent>>

(* DatagramSend(client->ConnectionHandle); it fails for a NULL handle.        *)
Send ==
    LET h == ConnectionHandle[target]
    IN  /\ target # NULL
        /\ sent' = IF h = NULL THEN sent ELSE sent \cup {<<addressee, h>>}
        /\ target' = NULL
        /\ addressee' = NULL
        /\ UNCHANGED vars

RouteNext ==
    \/ Next /\ UNCHANGED routeVars
    \/ \E o \in -1 .. MaxClients : Search(o)
    \/ Send

RouteSpec == RouteInit /\ [][RouteNext]_routingVars

-----------------------------------------------------------------------------
(* Properties *)

(* As long as the connection that held the destination address has not put    *)
(* its block back, the handle the thread is about to use is that              *)
(* connection's or NULL: only recycling of the block can misdirect a packet.  *)
RouteWhileAlive ==
    target # NULL /\ conn[addressee] \in Holding
        => ConnectionHandle[target] \in {addressee, NULL}

(* threads.c calls the thread the one for "datagrams received from outside    *)
(* with destination to the client via the tunnel": a datagram goes to the     *)
(* client its destination address belongs to.                                 *)
SentToAddressee == \A p \in sent : p[1] = p[2]
=============================================================================
