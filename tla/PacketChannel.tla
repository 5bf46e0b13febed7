--------------------------- MODULE PacketChannel ---------------------------
(***************************************************************************)
(* What the receiving side promises about packets, whatever its blocks and *)
(* buffers do: a packet that arrives on a connection is dropped or enters  *)
(* a channel of at most Size packets; packets leave the channel in their   *)
(* order, one at a time, each as it arrived and each once.                 *)
(***************************************************************************)
EXTENDS Naturals, Sequences

CONSTANTS Conn, Packet, Size, None

VARIABLES
    arriving,   \* arriving[c]: the packet being taken in from connection c
    chan,       \* the packets that were taken in, in their order
    leaving     \* the packet being written

vars == <<arriving, chan, leaving>>

Init ==
    /\ arriving = [c \in Conn |-> None]
    /\ chan = <<>>
    /\ leaving = None

Arrive(c, p) ==
    /\ arriving[c] = None
    /\ arriving' = [arriving EXCEPT ![c] = p]
    /\ UNCHANGED <<chan, leaving>>

Enter(c) ==
    /\ arriving[c] # None
    /\ arriving' = [arriving EXCEPT ![c] = None]
    /\ IF Len(chan) < Size THEN chan' \in {chan, Append(chan, arriving[c])}
                           ELSE UNCHANGED chan
    /\ UNCHANGED leaving

Leave ==
    /\ leaving = None
    /\ chan # <<>>
    /\ leaving' = Head(chan)
    /\ chan' = Tail(chan)
    /\ UNCHANGED arriving

Leaves ==
    /\ leaving # None
    /\ leaving' = None
    /\ UNCHANGED <<arriving, chan>>

Next ==
    \/ \E c \in Conn : Enter(c) \/ \E p \in Packet : Arrive(c, p)
    \/ Leave
    \/ Leaves

Spec == Init /\ [][Next]_vars
=============================================================================
