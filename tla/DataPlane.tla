----------------------------- MODULE DataPlane -----------------------------
(***************************************************************************)
(* The way of a packet through the engines, and who owns its block: the    *)
(* packet threads of server and client (threads.c), the datagram events of *)
(* their connection callbacks (quic.c), and the part of vpn_engine_cleanup *)
(* that stops the threads and destroys pools and queue.                    *)
(*                                                                         *)
(* The two programs share the structure and differ in the error paths; a   *)
(* behaviour is one of the server or one of the client (side).  Queue and  *)
(* pools are used as Queue.tla and Pool.tla show them to be: each call one *)
(* step.  The packet pools have no cap: they hand out blocks as long as    *)
(* there is memory, which SendBlock and RecvBlock bound.                   *)
(*                                                                         *)
(* session->MsQuic is set before the threads start and cleared after they  *)
(* are joined, so the early exits that find it NULL are not taken.         *)
(***************************************************************************)
EXTENDS Naturals, Sequences, FiniteSets

CONSTANTS
    SendBlock,  \* the memory of pool_pkt_data_send
    RecvBlock,  \* the memory of pool_pkt_data_recv
    Conn,       \* the connections whose callbacks run concurrently
    Packet,     \* the contents of a packet
    QueueSize,  \* the size of queue_pkt_data_recv
    MaxTracked, \* bound: sent datagrams of one context msquic still follows
    NULL

VARIABLES
    side,               \* which program this is
    data,               \* data[b]: the packet in block b, NULL when it has none
    pool_send,          \* the send blocks the pool can hand out
    pool_recv,          \* the same of the receive blocks
    sender, sent_blk,   \* the sending thread: its place and its block
    in_flight,          \* in_flight[b]: the packet DatagramSend was given in b
    tracked,            \* tracked[b]: datagrams sent from b, not yet final
    callback,           \* callback[c]: the block DATAGRAM_RECEIVED is filling
    queue,              \* queue_pkt_data_recv
    receiver, recv_blk, \* the receiving thread: its place and its block
    unread, unqueued,   \* blocks given up after a failed read, a full queue
    running_recv,       \* session->running_pkt_data_recv
    shutdown_fd,        \* whether the event descriptor was written
    connected,          \* whether the client's connection is up
    phase               \* the engine: running, or the step of its cleanup

sendVars == <<pool_send, sender, sent_blk, in_flight, tracked, unread>>
recvVars == <<pool_recv, callback, queue, receiver, recv_blk, unqueued>>
stopVars == <<running_recv, shutdown_fd, connected, phase>>
vars == <<side, data, sendVars, recvVars, stopVars>>

ASSUME DataAssumption ==
    /\ QueueSize \in Nat \ {0}
    /\ MaxTracked \in Nat
    /\ Conn # {}
    /\ SendBlock \cap RecvBlock = {}
    /\ NULL \notin SendBlock \cup RecvBlock \cup Packet

Block == SendBlock \cup RecvBlock

(* Type invariant of the packet path. *)
DataTypeOK ==
    /\ side \in {"server", "client"}
    /\ data \in [Block -> Packet \cup {NULL}]
    /\ pool_send \subseteq SendBlock
    /\ pool_recv \subseteq RecvBlock
    /\ sender \in {"poll", "route", "done"}
    /\ sent_blk \in SendBlock \cup {NULL}
    /\ in_flight \in [SendBlock -> Packet \cup {NULL}]
    /\ tracked \in [SendBlock -> 0 .. MaxTracked]
    /\ callback \in [Conn -> RecvBlock \cup {NULL}]
    /\ queue \in Seq(RecvBlock \cup {NULL})
    /\ receiver \in {"loop", "pop", "write", "done"}
    /\ recv_blk \in RecvBlock \cup {NULL}
    /\ unread \subseteq SendBlock
    /\ unqueued \subseteq RecvBlock
    /\ running_recv \in BOOLEAN
    /\ shutdown_fd \in BOOLEAN
    /\ connected \in BOOLEAN
    /\ phase \in {"run", "join_send", "stop_recv", "push_null", "join_recv", "quic",
                  "destroy", "destroyed", "exited", "crashed"}

(* start_threads has returned 0. *)
Init ==
    /\ side \in {"server", "client"}
    /\ data = [b \in Block |-> NULL]
    /\ pool_send = SendBlock
    /\ pool_recv = RecvBlock
    /\ sender = "poll"
    /\ sent_blk = NULL
    /\ in_flight = [b \in SendBlock |-> NULL]
    /\ tracked = [b \in SendBlock |-> 0]
    /\ callback = [c \in Conn |-> NULL]
    /\ queue = <<>>
    /\ receiver = "loop"
    /\ recv_blk = NULL
    /\ unread = {}
    /\ unqueued = {}
    /\ running_recv = TRUE
    /\ shutdown_fd = FALSE
    /\ connected = TRUE
    /\ phase = "run"

(* The blocks at each place of the code. *)
InFlight == {b \in SendBlock : in_flight[b] # NULL}
Queued == {queue[i] : i \in 1 .. Len(queue)} \ {NULL}
InCallback == {callback[c] : c \in Conn} \ {NULL}

(* The connections of the program: the client has one. *)
Connections == IF side = "client" THEN {CHOOSE c \in Conn : TRUE} ELSE Conn

(* pool_put.  What the block held is not looked at again: whoever gets it   *)
(* writes a packet into it first.                                           *)
PutSend(b) == pool_send' = pool_send \cup {b} /\ data' = [data EXCEPT ![b] = NULL]
PutRecv(b) == pool_recv' = pool_recv \cup {b} /\ data' = [data EXCEPT ![b] = NULL]

(* Pools, queue and session exist. *)
Alive == phase \notin {"destroyed", "exited", "crashed"}

-----------------------------------------------------------------------------
(* thread_pkt_data_send *)

(* The flag or the event descriptor tells the thread to end, or poll fails *)
(* with an error that is not EINTR.                                        *)
SendEnds ==
    /\ Alive /\ sender = "poll"
    /\ sender' = "done"
    /\ UNCHANGED <<side, data, pool_send, sent_blk, in_flight, tracked, unread,
                   recvVars, stopVars>>

(* pool_wait_get, and a read that succeeds. *)
SendRead(b, p) ==
    /\ Alive /\ sender = "poll" /\ ~shutdown_fd
    /\ b \in pool_send
    /\ pool_send' = pool_send \ {b}
    /\ data' = [data EXCEPT ![b] = p]
    /\ sender' = "route"
    /\ sent_blk' = b
    /\ UNCHANGED <<side, in_flight, tracked, unread, recvVars, stopVars>>

(* The read fails: the server puts the block back and its thread ends; the *)
(* client goes on without putting it back.  Without memory pool_wait_get   *)
(* returns NULL, and the read into it fails too.                           *)
SendReadError ==
    /\ Alive /\ sender = "poll" /\ ~shutdown_fd
    /\ IF side = "server"
       THEN /\ sender' = "done"
            /\ UNCHANGED <<pool_send, unread>>
       ELSE /\ UNCHANGED sender
            /\ IF pool_send = {}
               THEN UNCHANGED <<pool_send, unread>>
               ELSE \E b \in pool_send :
                        /\ pool_send' = pool_send \ {b}
                        /\ unread' = unread \cup {b}
    /\ UNCHANGED <<side, data, sent_blk, in_flight, tracked, recvVars, stopVars>>

(* Mutant: the early exits forget the block. *)
SendDrop_leak ==
    /\ Alive /\ sender = "route"
    /\ sender' = "poll"
    /\ sent_blk' = NULL
    /\ UNCHANGED <<side, data, pool_send, in_flight, tracked, unread, recvVars, stopVars>>

(* A bad header or no client for the address (server), no connection        *)
(* (client), or a failed DatagramSend: the block is put back.               *)
SendDrop ==
    /\ Alive /\ sender = "route"
    /\ PutSend(sent_blk)
    /\ sender' = "poll"
    /\ sent_blk' = NULL
    /\ UNCHANGED <<side, in_flight, tracked, unread, recvVars, stopVars>>

(* DatagramSend takes the block: msquic reads it until it reports SENT or   *)
(* CANCELED.                                                                *)
DatagramSend ==
    /\ Alive /\ sender = "route"
    /\ side = "client" => connected
    /\ in_flight' = [in_flight EXCEPT ![sent_blk] = data[sent_blk]]
    /\ sender' = "poll"
    /\ sent_blk' = NULL
    /\ UNCHANGED <<side, data, pool_send, tracked, unread, recvVars, stopVars>>

thread_pkt_data_send ==
    \/ SendEnds
    \/ \E b \in SendBlock, p \in Packet : SendRead(b, p)
    \/ SendReadError
    \/ SendDrop
    \/ DatagramSend

-----------------------------------------------------------------------------
(* QUIC_CONNECTION_EVENT_DATAGRAM_SEND_STATE_CHANGED *)

(* SENT: the block is put back; msquic goes on following the datagram. *)
Sent(b) ==
    /\ Alive
    /\ in_flight[b] # NULL
    /\ tracked[b] < MaxTracked
    /\ in_flight' = [in_flight EXCEPT ![b] = NULL]
    /\ tracked' = [tracked EXCEPT ![b] = @ + 1]
    /\ PutSend(b)
    /\ UNCHANGED <<side, sender, sent_blk, unread, recvVars, stopVars>>

(* CANCELED, "Canceled before send": the block is put back. *)
Canceled(b) ==
    /\ Alive
    /\ in_flight[b] # NULL
    /\ in_flight' = [in_flight EXCEPT ![b] = NULL]
    /\ PutSend(b)
    /\ UNCHANGED <<side, sender, sent_blk, tracked, unread, recvVars, stopVars>>

(* Mutant: the final states put the block back as well. *)
Final_put(b) ==
    /\ Alive
    /\ tracked[b] > 0
    /\ tracked' = [tracked EXCEPT ![b] = @ - 1]
    /\ PutSend(b)
    /\ UNCHANGED <<side, sender, sent_blk, in_flight, unread, recvVars, stopVars>>

(* ACKNOWLEDGED, ACKNOWLEDGED_SPURIOUS or LOST_DISCARDED end the tracking of *)
(* a datagram sent from b; b may meanwhile carry another packet.  They, and *)
(* LOST_SUSPECT, leave the block alone.                                      *)
Final(b) ==
    /\ Alive
    /\ tracked[b] > 0
    /\ tracked' = [tracked EXCEPT ![b] = @ - 1]
    /\ UNCHANGED <<side, data, pool_send, sender, sent_blk, in_flight, unread,
                   recvVars, stopVars>>

-----------------------------------------------------------------------------
(* QUIC_CONNECTION_EVENT_DATAGRAM_RECEIVED *)

(* pool_try_get and memcpy; without memory the datagram is dropped. *)
DatagramReceived(c, b, p) ==
    /\ Alive
    /\ callback[c] = NULL
    /\ side = "client" => connected
    /\ b \in pool_recv
    /\ pool_recv' = pool_recv \ {b}
    /\ data' = [data EXCEPT ![b] = p]
    /\ callback' = [callback EXCEPT ![c] = b]
    /\ UNCHANGED <<side, sendVars, queue, receiver, recv_blk, unqueued, stopVars>>

(* Mutant: the block is put back after a push that succeeded. *)
Push_put(c) ==
    /\ Alive
    /\ callback[c] # NULL
    /\ callback' = [callback EXCEPT ![c] = NULL]
    /\ IF Len(queue) < QueueSize
       THEN queue' = Append(queue, callback[c]) /\ UNCHANGED unqueued
       ELSE unqueued' = unqueued \cup {callback[c]} /\ UNCHANGED queue
    /\ PutRecv(callback[c])
    /\ UNCHANGED <<side, sendVars, receiver, recv_blk, stopVars>>

(* queue_try_push, whose result is ignored: in a full queue neither the     *)
(* packet nor its block is kept.                                            *)
Push(c) ==
    /\ Alive
    /\ callback[c] # NULL
    /\ callback' = [callback EXCEPT ![c] = NULL]
    /\ IF Len(queue) < QueueSize
       THEN queue' = Append(queue, callback[c]) /\ UNCHANGED unqueued
       ELSE unqueued' = unqueued \cup {callback[c]} /\ UNCHANGED queue
    /\ UNCHANGED <<side, data, sendVars, pool_recv, receiver, recv_blk,
                   stopVars>>

-----------------------------------------------------------------------------
(* thread_pkt_data_recv *)

RecvLoop ==
    /\ Alive /\ receiver = "loop"
    /\ receiver' = IF running_recv THEN "pop" ELSE "done"
    /\ UNCHANGED <<side, data, sendVars, pool_recv, callback, queue, recv_blk, unqueued,
                   stopVars>>

(* queue_wait_pop; NULL is the sentinel that ends the thread. *)
RecvPop ==
    /\ Alive /\ receiver = "pop"
    /\ queue # <<>>
    /\ queue' = Tail(queue)
    /\ recv_blk' = Head(queue)
    /\ receiver' = IF Head(queue) = NULL THEN "done" ELSE "write"
    /\ UNCHANGED <<side, data, sendVars, pool_recv, callback, unqueued, stopVars>>

(* A bad header, or a write to the TUN device: the block is put back. *)
RecvWrite ==
    /\ Alive /\ receiver = "write"
    /\ PutRecv(recv_blk)
    /\ recv_blk' = NULL
    /\ receiver' = "loop"
    /\ UNCHANGED <<side, sendVars, callback, queue, unqueued, stopVars>>

thread_pkt_data_recv == RecvLoop \/ RecvPop \/ RecvWrite

-----------------------------------------------------------------------------
(* The connection of the client, and vpn_engine_cleanup *)

(* The client's connection has shut down: no event comes after it. *)
ConnectionLost ==
    /\ Alive /\ side = "client" /\ connected
    /\ InCallback = {} /\ InFlight = {}
    /\ connected' = FALSE
    /\ tracked' = [b \in SendBlock |-> 0]
    /\ UNCHANGED <<side, data, pool_send, sender, sent_blk, in_flight, unread, recvVars,
                   running_recv, shutdown_fd, phase>>

CleanupStep(from, to) ==
    /\ phase = from
    /\ phase' = to
    /\ UNCHANGED <<side, data>>

(* Mutant: only the flag is cleared, which a thread in poll does not see. *)
StopSend_flag ==
    /\ CleanupStep("run", "join_send")
    /\ UNCHANGED <<sendVars, recvVars, running_recv, shutdown_fd, connected>>

(* Clears running_pkt_data_send and writes the event descriptor. *)
StopSend ==
    /\ CleanupStep("run", "join_send")
    /\ shutdown_fd' = TRUE
    /\ UNCHANGED <<sendVars, recvVars, running_recv, connected>>

JoinSend ==
    /\ sender = "done"
    /\ CleanupStep("join_send", "stop_recv")
    /\ UNCHANGED <<sendVars, recvVars, running_recv, shutdown_fd, connected>>

StopRecv ==
    /\ CleanupStep("stop_recv", "push_null")
    /\ running_recv' = FALSE
    /\ UNCHANGED <<sendVars, recvVars, shutdown_fd, connected>>

(* queue_wait_push of the sentinel: waits while the queue is full. *)
PushNull ==
    /\ Len(queue) < QueueSize
    /\ CleanupStep("push_null", "join_recv")
    /\ queue' = Append(queue, NULL)
    /\ UNCHANGED <<sendVars, pool_recv, callback, receiver, recv_blk,
                   unqueued, running_recv, shutdown_fd, connected>>

JoinRecv ==
    /\ receiver = "done"
    /\ CleanupStep("join_recv", IF side = "client" THEN "quic" ELSE "destroy")
    /\ UNCHANGED <<sendVars, recvVars, running_recv, shutdown_fd, connected>>

(* The client closes its connection: ConnectionClose returns when no event *)
(* of the connection is left, every datagram having been reported.         *)
MsQuicShutdown ==
    /\ ~connected
    /\ CleanupStep("quic", "destroy")
    /\ UNCHANGED <<sendVars, recvVars, running_recv, shutdown_fd, connected>>

(* pool_destroy of both pools, and queue_destroy. *)
Destroy ==
    /\ CleanupStep("destroy", "destroyed")
    /\ UNCHANGED <<sendVars, recvVars, running_recv, shutdown_fd, connected>>

(* The client frees its session; the server calls exit(0). *)
Exit ==
    /\ CleanupStep("destroyed", "exited")
    /\ UNCHANGED <<sendVars, recvVars, running_recv, shutdown_fd, connected>>

vpn_engine_cleanup ==
    \/ JoinSend
    \/ StopRecv
    \/ PushNull
    \/ JoinRecv
    \/ MsQuicShutdown
    \/ Destroy
    \/ Exit

(* An event that is due, or half done, when pools and queue are gone works *)
(* on freed memory, which may end the process.                             *)
UsesFreed ==
    /\ side = "server" \/ InCallback # {} \/ InFlight # {}
    /\ CleanupStep("destroyed", "crashed")
    /\ UNCHANGED <<sendVars, recvVars, running_recv, shutdown_fd, connected>>

Event ==
    \/ \E b \in SendBlock : Sent(b) \/ Canceled(b) \/ Final(b)
    \/ \E c \in Connections, b \in RecvBlock, p \in Packet : DatagramReceived(c, b, p)
    \/ \E c \in Conn : Push(c)
    \/ ConnectionLost
    \/ UsesFreed

(* The process or session is gone, or the cleanup waits for room in the     *)
(* queue for ever.                                                          *)
Terminated ==
    /\ \/ phase \in {"exited", "crashed"}
       \/ phase = "push_null" /\ receiver = "done" /\ Len(queue) = QueueSize
    /\ UNCHANGED vars

Next ==
    \/ thread_pkt_data_send
    \/ thread_pkt_data_recv
    \/ Event
    \/ StopSend
    \/ vpn_engine_cleanup
    \/ Terminated

(* Threads are scheduled, a callback that runs goes on, and msquic reports  *)
(* every datagram and ends a connection that is being closed.               *)
Fairness ==
    /\ WF_vars(thread_pkt_data_send /\ shutdown_fd)
    /\ WF_vars(thread_pkt_data_recv)
    /\ WF_vars(vpn_engine_cleanup)
    /\ \A c \in Conn : WF_vars(Push(c))
    /\ \A b \in SendBlock : WF_vars(Canceled(b))
    /\ WF_vars(ConnectionLost /\ phase = "quic")

Spec == Init /\ [][Next]_vars /\ Fairness

-----------------------------------------------------------------------------
(* Properties *)

(* The pools and the queue are destroyed when no thread and no event uses   *)
(* them any more.                                                           *)
Quiet ==
    phase \in {"destroyed", "exited", "crashed"} =>
        /\ phase # "crashed"
        /\ sender = "done" /\ receiver = "done"
        /\ InCallback = {} /\ InFlight = {}

(* msquic sends what was read from the TUN device: from DatagramSend to     *)
(* SENT or CANCELED the block is not in the pool and keeps its packet, and  *)
(* no late event of an earlier datagram of the same block puts it back.  On *)
(* the client, where MsQuicShutdown comes before pool_destroy, the pools    *)
(* and the queue outlast all threads and events that use them.              *)
InFlightIntact ==
    /\ \A b \in InFlight :
        /\ in_flight[b] = data[b]
        /\ b \notin pool_send
        /\ b # sent_blk
    /\ side = "client" => Quiet

(* Blocks are given up by a failed read and by a full queue, and nowhere    *)
(* else: every other path of threads and events gives its block back.       *)
BlocksReturned ==
    /\ SendBlock \subseteq pool_send \cup {sent_blk} \cup InFlight \cup unread
    /\ RecvBlock \subseteq
            pool_recv \cup {recv_blk} \cup Queued \cup InCallback \cup unqueued

(* The packet of a block. *)
Holds(b) == IF b = NULL THEN NULL ELSE data[b]

(* The cleanup has pushed the sentinel. *)
Sealed == phase \notin {"run", "join_send", "stop_recv", "push_null"}

(* The number of blocks the receiving thread will still meet: those before   *)
(* the sentinel, and none once it has taken the sentinel out.                *)
Ahead ==
    IF \E i \in 1 .. Len(queue) : queue[i] = NULL
    THEN (CHOOSE i \in 1 .. Len(queue) : queue[i] = NULL) - 1
    ELSE IF Sealed THEN 0 ELSE Len(queue)

Arriving == [c \in Conn |-> Holds(callback[c])]
Chan == [i \in 1 .. Ahead |-> data[queue[i]]]

Channel == INSTANCE PacketChannel WITH
    Size <- QueueSize,
    None <- NULL,
    arriving <- Arriving,
    chan <- Chan,
    leaving <- Holds(recv_blk)

(* From the datagram's arrival to the write to the TUN device a packet may  *)
(* be dropped but is never altered, doubled or overtaken, although blocks   *)
(* are recycled and callbacks of several connections push at once.          *)
PacketsIntactInOrder == Channel!Spec

(* Stopping the engine ends, unless the queue is full and the receiving     *)
(* thread, seeing its flag, has left it so: then the sentinel has no place. *)
StopReturns ==
    phase = "join_send" ~>
        \/ phase \in {"exited", "crashed"}
        \/ phase = "push_null" /\ Len(queue) = QueueSize /\ receiver = "done"
=============================================================================
