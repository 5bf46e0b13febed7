---------------------------- MODULE ServerControl ----------------------------
(***************************************************************************)
(* The control stream of a connection: ServerStreamCallback,               *)
(* process_ctrl_pkt and PEER_STREAM_STARTED of server/src/engine/quic.c,   *)
(* and stream_send of stream.c, over ServerConn.                           *)
(*                                                                         *)
(* Each client opens one stream.  Stream callbacks run on the worker of    *)
(* their connection, so never while a connection callback of it runs, and  *)
(* a stream's SHUTDOWN_COMPLETE comes before its connection's.  The        *)
(* contents of a frame matter only in whether the checks of                *)
(* process_ctrl_pkt accept it; one they refuse changes nothing.            *)
(***************************************************************************)
EXTENDS ServerConn

CONSTANT Talker     \* bound: the connections whose client opens its stream

ASSUME ControlAssumption == Talker \subseteq Conn

VARIABLES
    stream,     \* stream[c]: the control stream of c, or the handler step it is in
    found,      \* found[c]: what list_find_client_by_uid returned to the handler
    resp,       \* resp[c]: the address in the last response to c, or NULL
    asked,      \* the connections ConnectionShutdown was called for by a stream
    crashed     \* process_ctrl_pkt read through a NULL ip_entry

ctrlVars == <<stream, found, resp, asked, crashed>>
allVars == <<vars, ctrlVars>>

StreamState == {"none", "failed", "open", "reply", "closing", "gone"}

(* Type invariant of the control plane. *)
CtrlTypeOK ==
    /\ stream \in [Conn -> StreamState]
    /\ found \in [Conn -> Block \cup {NULL}]
    /\ resp \in [Conn -> Entry \cup {NULL}]
    /\ asked \subseteq Conn
    /\ crashed \in BOOLEAN

CtrlInit ==
    /\ Init
    /\ stream = [c \in Conn |-> "none"]
    /\ found = [c \in Conn |-> NULL]
    /\ resp = [c \in Conn |-> NULL]
    /\ asked = {}
    /\ crashed = FALSE

(* msquic may deliver a stream event of c: handshake over, no callback running. *)
StreamEvent(c) == conn[c] \in {"connected", "full"} /\ c \notin closed

StreamGo(c, from, to) ==
    /\ stream[c] \in from
    /\ stream' = [stream EXCEPT ![c] = to]

-----------------------------------------------------------------------------

(* PEER_STREAM_STARTED; if malloc fails the stream is closed at once. *)
PeerStreamStarted(c) ==
    /\ StreamEvent(c)
    /\ c \in Talker
    /\ StreamGo(c, {"none"}, "open") \/ StreamGo(c, {"none"}, "failed")
    /\ UNCHANGED <<vars, found, resp, asked, crashed>>

(* RECEIVE of a CONFIG_REQ, up to the lookup of the client. *)
ConfigReq(c) ==
    LET f == list_find_client_by_uid(uid[ctx[c]])
    IN  /\ StreamEvent(c)
        /\ IF f = NULL
           THEN stream[c] = "open" /\ UNCHANGED stream
           ELSE StreamGo(c, {"open"}, "reply")
        /\ found' = [found EXCEPT ![c] = f]
        /\ UNCHANGED <<vars, resp, asked, crashed>>

(* stream_send of a response with address e; when it fails the stream is aborted. *)
stream_send(c, e) ==
    \/ StreamGo(c, {"reply"}, "open") /\ resp' = [resp EXCEPT ![c] = e]
    \/ StreamGo(c, {"reply"}, "closing") /\ UNCHANGED resp

(* The rest of process_ctrl_pkt: client->ip_entry->ip is read and sent. *)
ConfigReply(c) ==
    LET e == ip_entry[found[c]]
    IN  /\ stream[c] = "reply"
        /\ IF e = NULL
           THEN crashed' = TRUE /\ UNCHANGED <<stream, resp>>
           ELSE stream_send(c, e) /\ UNCHANGED crashed
        /\ UNCHANGED <<vars, found, asked>>

(* PEER_SEND_SHUTDOWN or PEER_SEND_ABORTED: the server shuts its side down. *)
PeerSendShutdown(c) ==
    /\ StreamEvent(c)
    /\ StreamGo(c, {"open"}, "closing")
    /\ UNCHANGED <<vars, found, resp, asked, crashed>>

(* SHUTDOWN_COMPLETE of the stream, also when the whole connection goes down: *)
(* the connection is shut down through the handle in the client's block.      *)
StreamShutdownComplete(c) ==
    LET h == ConnectionHandle[ctx[c]]
    IN  /\ conn[c] \in {"connected", "full"}
        /\ StreamGo(c, {"open", "closing"}, "gone")
        /\ asked' = IF h = NULL THEN asked ELSE asked \cup {h}
        /\ UNCHANGED <<vars, found, resp, crashed>>

-----------------------------------------------------------------------------

(* A step of ServerConn.  The connection's SHUTDOWN_COMPLETE is delivered when *)
(* no stream is left, and no connection callback runs during a stream's.       *)
ConnStep(c) ==
    /\ Event(c) \/ HandlerStep(c)
    /\ stream[c] # "reply"
    /\ conn'[c] = "s_reset" /\ conn[c] \in Resting => stream[c] \in {"none", "failed", "gone"}
    /\ UNCHANGED ctrlVars

StreamStep(c) ==
    \/ PeerStreamStarted(c)
    \/ ConfigReq(c)
    \/ ConfigReply(c)
    \/ PeerSendShutdown(c)
    \/ StreamShutdownComplete(c)

CtrlNext ==
    \/ ~crashed /\ \E c \in Conn : ConnStep(c) \/ StreamStep(c)
    \/ (crashed \/ \A c \in Conn : conn[c] \in Final) /\ UNCHANGED allVars

CtrlSpec == CtrlInit /\ [][CtrlNext]_allVars

-----------------------------------------------------------------------------
(* Properties *)

(* A uid read from a client that went through CONNECTED never leads            *)
(* list_find_client_by_uid to another connected client, although blocks are    *)
(* recycled and slots of the list keep pointers to recycled blocks; and a      *)
(* client that was found by its own uid is told the address leased to it.      *)
OwnConfiguration ==
    /\ \A c, d \in Conn :
        conn[c] = "connected" /\ conn[d] = "connected" /\ c # d
            => list_find_client_by_uid(uid[ctx[c]]) # ctx[d]
    /\ \A c \in Conn :
        conn[c] = "connected" /\ stream[c] = "open" /\ found[c] = ctx[c]
            => resp[c] = ip_entry[ctx[c]]

(* A stream callback only ever shuts down the connection it belongs to.        *)
ShutsDownOwn ==
    [][\A c \in Conn :
          c \in asked' \ asked => stream[c] # "gone" /\ stream'[c] = "gone"]_allVars

(* client.c says "the uid is assigned in QUIC_CONNECTION_EVENT_CONNECTED": a   *)
(* lookup succeeds only for a client whose uid was assigned there.             *)
LookupAfterConnected ==
    \A c \in Conn : stream[c] = "reply" => conn[c] = "connected"
=============================================================================
