----------------------------- MODULE ServerConn -----------------------------
(***************************************************************************)
(* The life of a connection on the server: ServerListenerCallback and the  *)
(* connection events of ServerConnectionCallback that change state         *)
(* (server/src/engine/quic.c), over the client list and the address pool.  *)
(*                                                                         *)
(* msquic runs the callbacks of one connection one at a time, and those of *)
(* different connections, and the listener's, on different workers.  So    *)
(* conn[c] is the place where c's callbacks are: a resting state between   *)
(* two events, or the step of a handler that is running.  Steps of         *)
(* handlers of different connections interleave.                           *)
(***************************************************************************)
EXTENDS ClientList

VARIABLES
    conn,       \* conn[c]: resting state or handler step of connection c
    ctx,        \* ctx[c]: the callback context of c, a block or NULL
    closed,     \* the handles ConnectionClose was called with
    refused,    \* the connections shut down with SERVER_ERROR_FULL
    released    \* the connections whose handler gave an address back

connVars == <<conn, ctx, closed, refused, released>>
vars == <<ipVars, listVars, connVars>>

-----------------------------------------------------------------------------

(* Between events a live connection is in its handshake ("pending"),        *)
(* connected, or connected with no address ("full").                        *)
Resting == {"pending", "connected", "full"}

(* The steps of the listener's failure path and of SHUTDOWN_COMPLETE.       *)
ListenerFails == {"l_reset", "l_unlink", "l_put", "l_close"}
ShuttingDown == {"s_reset", "s_unlink", "s_put", "s_clear", "s_close"}

ConnState ==
    {"none", "listener", "uid", "rejected", "done"}
        \cup Resting \cup ListenerFails \cup ShuttingDown

(* The states in which c's handlers have taken a block and not put it back. *)
Holding ==
    {"listener", "uid", "l_reset", "l_unlink", "l_put", "s_reset", "s_unlink", "s_put"}
        \cup Resting

Final == {"rejected", "done"}

ConnTypeOK ==
    /\ conn \in [Conn -> ConnState]
    /\ ctx \in [Conn -> Block \cup {NULL}]
    /\ closed \subseteq Conn
    /\ refused \subseteq Conn
    /\ released \subseteq Conn

(* Type invariant: the three tables and the callback states have their types. *)
TypeOK == IpTypeOK /\ ListTypeOK /\ ConnTypeOK

ConnInit ==
    /\ conn = [c \in Conn |-> "none"]
    /\ ctx = [c \in Conn |-> NULL]
    /\ closed = {}
    /\ refused = {}
    /\ released = {}

Init == ip_pool_create /\ ListInit /\ ConnInit

Go(c, from, to) ==
    /\ conn[c] = from
    /\ conn' = [conn EXCEPT ![c] = to]

-----------------------------------------------------------------------------
(* ServerListenerCallback: NEW_CONNECTION *)

NewConnection(c) ==
    /\ Go(c, "none", "listener")
    /\ \E b \in Block :
          /\ list_add_client(c, b)
          /\ ctx' = [ctx EXCEPT ![c] = b]
    /\ UNCHANGED <<ipVars, closed, refused, released>>

(* QUIC_STATUS_OUT_OF_MEMORY: msquic rejects and cleans up the handle. *)
NewConnectionRejected(c) ==
    /\ Go(c, "none", "rejected")
    /\ list_add_client_null
    /\ UNCHANGED <<ipVars, ctx, closed, refused, released>>

(* SetCallbackHandler and ConnectionSetConfiguration, which may fail. *)
SetConfiguration(c) ==
    /\ Go(c, "listener", "pending") \/ Go(c, "listener", "l_reset")
    /\ UNCHANGED <<ipVars, listVars, ctx, closed, refused, released>>

ListenerClose(c) ==
    /\ Go(c, "l_close", "rejected")
    /\ closed' = closed \cup {c}
    /\ UNCHANGED <<ipVars, listVars, ctx, refused, released>>

-----------------------------------------------------------------------------
(* ServerConnectionCallback: CONNECTED *)

Connected(c) ==
    /\ c \notin closed
    /\ Go(c, "pending", "uid")
    /\ initialize_client_ip(ctx[c])
    /\ UNCHANGED <<ctx, closed, refused, released>>

AssignUid(c) ==
    /\ Go(c, "uid", "connected")
    /\ initialize_client_uid(ctx[c])
    /\ UNCHANGED <<ipVars, ctx, closed, refused, released>>

(* Mutant: the block goes back at once, as in the commented-out lines. *)
ConnectedFull_puts(c) ==
    /\ c \notin closed
    /\ Go(c, "pending", "full")
    /\ ip_acquire_null
    /\ list_remove_put(ctx[c])
    /\ refused' = refused \cup {c}
    /\ UNCHANGED <<ctx, closed, released>>

(* No address: ConnectionShutdown(SERVER_ERROR_FULL).  client->ip_entry is set *)
(* to the NULL that ip_acquire returned.                                       *)
ConnectedFull(c) ==
    /\ c \notin closed
    /\ Go(c, "pending", "full")
    /\ ip_acquire_null
    /\ ip_entry' = [ip_entry EXCEPT ![ctx[c]] = NULL]
    /\ refused' = refused \cup {c}
    /\ UNCHANGED <<client_list, slot_idx, uid, ConnectionHandle, poolVars, client_cnt,
                   ctx, closed, released>>

-----------------------------------------------------------------------------
(* ServerConnectionCallback: SHUTDOWN_COMPLETE, which may follow any resting  *)
(* state: the handshake fails, the peer leaves or falls silent, the server    *)
(* refused the connection, or the handle was closed under it.                 *)

(* Mutant: the client is reset before its address is released. *)
ShutdownComplete_late(c) ==
    /\ conn[c] \in Resting
    /\ conn' = [conn EXCEPT ![c] = "s_reset"]
    /\ ip_release(NULL)
    /\ UNCHANGED <<listVars, ctx, closed, refused, released>>

ShutdownComplete(c) ==
    /\ conn[c] \in Resting
    /\ conn' = [conn EXCEPT ![c] = "s_reset"]
    /\ ip_release(ip_entry[ctx[c]])
    /\ released' = IF ip_entry[ctx[c]] = NULL THEN released ELSE released \cup {c}
    /\ UNCHANGED <<listVars, ctx, closed, refused>>

(* The three steps of list_remove_client, called by the listener's failure   *)
(* path and by SHUTDOWN_COMPLETE.                                             *)
ListRemove(c) ==
    /\ \/ /\ Go(c, "l_reset", "l_unlink") \/ Go(c, "s_reset", "s_unlink")
          /\ list_remove_reset(ctx[c])
       \/ /\ Go(c, "l_unlink", "l_put") \/ Go(c, "s_unlink", "s_put")
          /\ list_remove_unlink(ctx[c])
       \/ /\ Go(c, "l_put", "l_close") \/ Go(c, "s_put", "s_clear")
          /\ list_remove_put(ctx[c])
    /\ UNCHANGED <<ipVars, ctx, closed, refused, released>>

(* client->ConnectionHandle = NULL, written after the block was put back. *)
ClearHandle(c) ==
    /\ Go(c, "s_clear", "s_close")
    /\ ConnectionHandle' = [ConnectionHandle EXCEPT ![ctx[c]] = NULL]
    /\ UNCHANGED <<ipVars, client_list, slot_idx, uid, ip_entry, poolVars, client_cnt,
                   ctx, closed, refused, released>>

(* Mutant: the handler spins until it finds a handle to close. *)
CloseHandle_spins(c) ==
    IF conn[c] = "s_close" /\ ConnectionHandle[ctx[c]] = NULL
    THEN UNCHANGED vars
    ELSE Go(c, "s_close", "done") /\ UNCHANGED <<ipVars, listVars, ctx, closed, refused, released>>

(* ConnectionClose(client->ConnectionHandle), the field read again from the  *)
(* block.  NULL is ignored.  If the block has a new owner, its handle is     *)
(* closed: msquic does so between two callbacks of that connection.          *)
CloseHandle(c) ==
    LET h == ConnectionHandle[ctx[c]]
    IN  /\ Go(c, "s_close", "done")
        /\ h # NULL => conn[h] \in Resting \cup Final
        /\ closed' = IF h = NULL THEN closed ELSE closed \cup {h}
        /\ UNCHANGED <<ipVars, listVars, ctx, refused, released>>

-----------------------------------------------------------------------------

(* What a running handler does next on its own. *)
HandlerStep(c) ==
    \/ SetConfiguration(c)
    \/ ListenerClose(c)
    \/ AssignUid(c)
    \/ ListRemove(c)
    \/ ClearHandle(c)
    \/ CloseHandle(c)

(* The events msquic delivers. *)
Event(c) ==
    \/ NewConnection(c)
    \/ NewConnectionRejected(c)
    \/ Connected(c)
    \/ ConnectedFull(c)
    \/ ShutdownComplete(c)

(* Every connection of this run of the server has come and gone. *)
Terminated ==
    /\ \A c \in Conn : conn[c] \in Final
    /\ UNCHANGED vars

Next == (\E c \in Conn : Event(c) \/ HandlerStep(c)) \/ Terminated

(* A callback that was entered runs to its end, and msquic completes a        *)
(* shutdown the server asked for.                                             *)
Fairness ==
    \A c \in Conn :
        /\ WF_vars(HandlerStep(c))
        /\ WF_vars(conn[c] = "full" /\ ShutdownComplete(c))

Spec == Init /\ [][Next]_vars /\ Fairness

-----------------------------------------------------------------------------
(* Properties *)

(* A block handed to a live connection as its callback context belongs to no  *)
(* other live connection and is not on the free list, and no block is on the  *)
(* free list twice: list_add_client and list_remove_client never give one     *)
(* client_t to two connections, whatever callbacks interleave.                *)
BlockOwnership ==
    /\ \A c \in Conn : conn[c] \in Holding =>
          /\ ctx[c] \in 1 .. total_blocks
          /\ \A i \in 1 .. Len(free_list) : free_list[i] # ctx[c]
          /\ \A d \in Conn : conn[d] \in Holding /\ ctx[d] = ctx[c] => d = c
    /\ \A i, j \in 1 .. Len(free_list) : free_list[i] = free_list[j] => i = j

(* The connections that were given an address by ip_acquire and have not yet  *)
(* given it back in SHUTDOWN_COMPLETE.                                        *)
Leased == {c \in Conn : conn[c] \in {"uid", "connected"}}

(* The two tables agree: the entry a connected client points to is a usable,  *)
(* used one that points back to the client, and a used entry that is not      *)
(* reserved belongs to exactly such a client.  So no two clients share an     *)
(* address, and no address stays taken after its client is gone.              *)
IpOwnership ==
    /\ \A c \in Leased :
          LET e == ip_entry[ctx[c]]
          IN  e \in Usable \cap ip_used /\ ip_client[e] = ctx[c]
    /\ \A e \in Usable \cap ip_used :
          \E c \in Leased : ip_client[e] = ctx[c] /\ ip_entry[ctx[c]] = e
    /\ \A e \in Reserved : e \in ip_used /\ ip_client[e] = NULL

(* Every block the client pool ever allocated is on the free list or held by  *)
(* a live connection: no path through the callbacks loses one.                *)
NoBlockLeak ==
    Len(free_list) + Cardinality({c \in Conn : conn[c] \in Holding}) = total_blocks

(* A shutdown that has completed, and one the server asked for because it was *)
(* full, is followed by the end of its handler, the block put back.           *)
ShutdownFinishes ==
    \A c \in Conn : (conn[c] \in ShuttingDown \/ c \in refused) ~> (conn[c] = "done")

(* The connection a block belongs to. *)
OwnerOf(b) == CHOOSE c \in Conn : conn[c] \in Holding /\ ctx[c] = b

(* The lease an address stands for: its entry's client, if it is used. *)
LeaseMap == [e \in Usable |-> IF e \in ip_used THEN OwnerOf(ip_client[e]) ELSE NULL]

Lease ==
    INSTANCE AddressLease WITH
        Holder <- Conn, Address <- Usable, NoHolder <- NULL, lease <- LeaseMap

(* The callbacks implement the address lease: recycling of blocks and the     *)
(* round-robin search never show, and SERVER_ERROR_FULL is sent only while    *)
(* every usable address is leased.                                            *)
ImplementsLease == Lease!Spec

(* While a connection is alive, the handle stored in its block is its own or  *)
(* NULL (erased by the late write of SHUTDOWN_COMPLETE of the block's former  *)
(* owner), never that of another connection: calls made through               *)
(* client->ConnectionHandle by c's own callbacks never reach another client.  *)
HandleNotForeign ==
    \A c \in Conn : conn[c] \in Holding => ConnectionHandle[ctx[c]] \in {c, NULL}

(* session.h introduces client_list with the comment "Active Connections":    *)
(* every connected client is in the list.                                     *)
ActiveListed ==
    \A c \in Conn : conn[c] = "connected" => \E i \in Entry : client_list[i] = ctx[c]

(* msquic.h says of SHUTDOWN_COMPLETE "Ready for the handle to be closed": a  *)
(* handle is not closed while its connection is still in use.                 *)
ClosedAfterShutdown ==
    \A c \in closed : conn[c] \notin Resting
=============================================================================
