------------------------------- MODULE Framing -------------------------------
(***************************************************************************)
(* Control packets on a QUIC stream: the RECEIVE events of the control     *)
(* stream and copy_quic_buffers, on the server and on the client           *)
(* (server/ and client/src/engine/quic.c).                                 *)
(*                                                                         *)
(* The peer sends packets of one length back to back.  msquic hands over   *)
(* what has arrived and was not consumed, in as many buffers as it likes,  *)
(* cut anywhere.  A byte is its position in the stream, so packet i is the *)
(* bytes (i - 1) * PktLen + 1 .. i * PktLen.                               *)
(***************************************************************************)
EXTENDS Naturals, Sequences

CONSTANTS
    PktLen,         \* sizeof(pkt_ctrl_t)
    Packets,        \* bound: the packets the peer sends
    MaxBuffers      \* bound: the buffers of one event

VARIABLES
    side,           \* whose stream callback this is
    arrived,        \* bytes that have arrived
    completed,      \* bytes msquic takes as consumed
    enabled,        \* whether msquic delivers RECEIVE events
    Buffers,        \* Event->RECEIVE.Buffers of the running callback, or <<>>
    bytes_consumed, \* its local variable
    pkts,           \* the packets given to process_ctrl_pkt
    cut,            \* history: some event ended inside a packet
    aborted         \* the client's process_ctrl_pkt failed

vars == <<side, arrived, completed, enabled, Buffers, bytes_consumed, pkts, cut, aborted>>

ASSUME FramingAssumption ==
    /\ PktLen \in Nat \ {0} /\ Packets \in Nat /\ MaxBuffers \in Nat \ {0}

Bytes(from, to) == [k \in 1 .. to - from |-> from + k]
Pkt(i) == Bytes((i - 1) * PktLen, i * PktLen)

Smaller(a, b) == IF a < b THEN a ELSE b

(* TotalBufferLength of buffers. *)
Total(buffers) ==
    LET Sum[i \in 0 .. Len(buffers)] == IF i = 0 THEN 0 ELSE Sum[i - 1] + Len(buffers[i])
    IN  Sum[Len(buffers)]

-----------------------------------------------------------------------------

(* Mutant: the offset is applied to every buffer. *)
copy_quic_buffers_offset(buffers, offset, to_copy) ==
    LET Copy[i \in 0 .. Len(buffers)] ==
            IF i = 0 THEN [offset |-> offset, dest |-> <<>>]
            ELSE LET c == Copy[i - 1]
                     chunk == Smaller(Len(buffers[i]) - c.offset, to_copy - Len(c.dest))
                 IN  IF Len(c.dest) = to_copy THEN c
                     ELSE IF c.offset >= Len(buffers[i])
                     THEN [c EXCEPT !.offset = @ - Len(buffers[i])]
                     ELSE [c EXCEPT !.dest = @ \o SubSeq(buffers[i], c.offset + 1, c.offset + chunk)]
    IN  Copy[Len(buffers)].dest

(* Skips offset bytes, and copies to_copy bytes from then on; the offset      *)
(* applies to the first buffer copied from.                                   *)
copy_quic_buffers(buffers, offset, to_copy) ==
    LET Copy[i \in 0 .. Len(buffers)] ==
            IF i = 0 THEN [offset |-> offset, dest |-> <<>>]
            ELSE LET c == Copy[i - 1]
                     chunk == Smaller(Len(buffers[i]) - c.offset, to_copy - Len(c.dest))
                 IN  IF Len(c.dest) = to_copy THEN c
                     ELSE IF c.offset >= Len(buffers[i])
                     THEN [c EXCEPT !.offset = @ - Len(buffers[i])]
                     ELSE [offset |-> 0,
                           dest |-> c.dest \o SubSeq(buffers[i], c.offset + 1, c.offset + chunk)]
    IN  Copy[Len(buffers)].dest

-----------------------------------------------------------------------------

Init ==
    /\ side \in {"server", "client"}
    /\ arrived = 0 /\ completed = 0 /\ enabled = TRUE
    /\ Buffers = <<>> /\ bytes_consumed = 0
    /\ pkts = <<>>
    /\ cut = FALSE /\ aborted = FALSE

Arrive ==
    /\ \E n \in arrived + 1 .. Packets * PktLen : arrived' = n
    /\ UNCHANGED <<side, completed, enabled, Buffers, bytes_consumed, pkts, cut, aborted>>

(* The ways to cut the bytes that are there into buffers. *)
Cuts ==
    {ends \in UNION {[1 .. n -> completed + 1 .. arrived] : n \in 1 .. MaxBuffers} :
        /\ ends[Len(ends)] = arrived
        /\ \A i \in 1 .. Len(ends) - 1 : ends[i] < ends[i + 1]}

(* msquic indicates what has arrived. *)
Receive ==
    /\ enabled /\ ~aborted /\ Buffers = <<>> /\ completed < arrived
    /\ \E ends \in Cuts :
          Buffers' = [i \in 1 .. Len(ends) |->
                         Bytes(IF i = 1 THEN completed ELSE ends[i - 1], ends[i])]
    /\ bytes_consumed' = 0
    /\ cut' = (cut \/ (arrived - completed) % PktLen # 0)
    /\ UNCHANGED <<side, arrived, completed, enabled, pkts, aborted>>

(* while (total_bytes - bytes_consumed >= sizeof(pkt_ctrl_t)) *)
More ==
    Total(Buffers) - bytes_consumed >= PktLen

(* A packet is copied out and processed.  The server ignores the result; the *)
(* client leaves the callback, and its stream, when it is not zero.          *)
HandlePacket ==
    /\ Buffers # <<>> /\ More
    /\ pkts' = Append(pkts, copy_quic_buffers(Buffers, bytes_consumed, PktLen))
    /\ \/ bytes_consumed' = bytes_consumed + PktLen /\ UNCHANGED <<Buffers, aborted>>
       \/ side = "client" /\ aborted' = TRUE /\ Buffers' = <<>> /\ UNCHANGED bytes_consumed
    /\ UNCHANGED <<side, arrived, completed, enabled, cut>>

(* TotalBufferLength = bytes_consumed, and SUCCESS: when bytes remain, msquic *)
(* waits for StreamReceiveSetEnabled, which nobody calls.                     *)
ReceiveReturns ==
    /\ Buffers # <<>> /\ ~More
    /\ completed' = completed + bytes_consumed
    /\ enabled' = (bytes_consumed = Total(Buffers))
    /\ Buffers' = <<>>
    /\ UNCHANGED <<side, arrived, bytes_consumed, pkts, cut, aborted>>

Idle ==
    /\ arrived = Packets * PktLen /\ Buffers = <<>>
    /\ completed = arrived \/ ~enabled \/ aborted
    /\ UNCHANGED vars

Next == Arrive \/ Receive \/ HandlePacket \/ ReceiveReturns \/ Idle

(* Callbacks are made and run; nothing is assumed of the network. *)
Spec == Init /\ [][Next]_vars /\ WF_vars(Receive \/ HandlePacket \/ ReceiveReturns)

-----------------------------------------------------------------------------
(* Properties *)

(* Type invariant of the receiving side. *)
FramingTypeOK ==
    /\ side \in {"server", "client"}
    /\ arrived \in 0 .. Packets * PktLen
    /\ completed \in 0 .. arrived
    /\ enabled \in BOOLEAN
    /\ Len(Buffers) <= MaxBuffers
    /\ Total(Buffers) <= arrived - completed
    /\ bytes_consumed \in 0 .. Packets * PktLen
    /\ Len(pkts) <= Packets
    /\ cut \in BOOLEAN /\ aborted \in BOOLEAN

(* process_ctrl_pkt is given the peer's packets, each whole, once and in    *)
(* order, however arrivals, events and buffers cut the bytes; and as long   *)
(* as no event ends inside a packet, every packet that has arrived is.      *)
PacketsHandled ==
    /\ [](\A i \in 1 .. Len(pkts) : pkts[i] = Pkt(i))
    /\ \A i \in 1 .. Packets :
        arrived >= i * PktLen ~> Len(pkts) >= i \/ cut \/ aborted

(* The comment in the RECEIVE event says "If unconsumed bytes remain [...]  *)
(* instruct MsQuic to keep buffering": a packet whose bytes come in two     *)
(* events is processed too.                                                 *)
KeepsBuffering ==
    \A i \in 1 .. Packets :
        arrived >= i * PktLen ~> Len(pkts) >= i \/ aborted
=============================================================================
