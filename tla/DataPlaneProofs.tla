--------------------------- MODULE DataPlaneProofs ---------------------------
(***************************************************************************)
(* Proofs about DataPlane, for every number of blocks and connections and  *)
(* every size of the queue: who owns a block at each moment, and that the  *)
(* receiving side implements PacketChannel.                                *)
(***************************************************************************)
EXTENDS DataPlane, TLAPS

(* The sending side: the thread's block and the blocks msquic reads are apart  *)
(* from each other and from the pool, and hold the packet that was read.       *)
SendOwned ==
    /\ sender # "route" => sent_blk = NULL
    /\ sender = "route" => /\ sent_blk \in SendBlock \ pool_send
                           /\ data[sent_blk] \in Packet
                           /\ in_flight[sent_blk] = NULL
    /\ \A b \in SendBlock : in_flight[b] # NULL =>
          in_flight[b] = data[b] /\ b \notin pool_send

(* The receiving side: a block is in the pool, in one callback, at one place   *)
(* of the queue or with the thread, and outside the pool it holds a packet.    *)
(* The sentinel is in the queue at most once, from its push until the thread,  *)
(* which ends with it, has taken it out.                                       *)
RecvOwned ==
    /\ receiver # "write" => recv_blk = NULL
    /\ receiver = "write" => recv_blk \in RecvBlock \ pool_recv /\ data[recv_blk] \in Packet
    /\ \A c \in Conn : callback[c] # NULL =>
          /\ callback[c] \notin pool_recv
          /\ callback[c] # recv_blk
          /\ data[callback[c]] \in Packet
          /\ \A d \in Conn : callback[d] = callback[c] => d = c
          /\ \A i \in 1 .. Len(queue) : queue[i] # callback[c]
    /\ \A i \in 1 .. Len(queue) : queue[i] # NULL =>
          /\ queue[i] \notin pool_recv
          /\ queue[i] # recv_blk
          /\ data[queue[i]] \in Packet
    /\ \A i, j \in 1 .. Len(queue) : queue[i] = queue[j] => i = j
    /\ ~Sealed => \A i \in 1 .. Len(queue) : queue[i] # NULL
    /\ Sealed /\ receiver # "done" => \E i \in 1 .. Len(queue) : queue[i] = NULL

(* Where the blocks are, block by block. *)
SendPlace(b) == b \in pool_send \/ b = sent_blk \/ in_flight[b] # NULL \/ b \in unread
RecvPlace(b) ==
    \/ b \in pool_recv \cup unqueued
    \/ b = recv_blk
    \/ \E i \in 1 .. Len(queue) : queue[i] = b
    \/ \E c \in Conn : callback[c] = b
Placed == (\A b \in SendBlock : SendPlace(b)) /\ (\A b \in RecvBlock : RecvPlace(b))

(* How far the cleanup is, and what it has waited for. *)
Stopping ==
    /\ phase \notin {"run", "join_send"} => sender = "done"
    /\ phase \notin {"run", "join_send", "stop_recv", "push_null", "join_recv"} => receiver = "done"
    /\ ~connected => /\ side = "client"
                     /\ \A b \in SendBlock : in_flight[b] = NULL
                     /\ \A c \in Conn : callback[c] = NULL
    /\ side = "client" /\ phase \in {"destroy", "destroyed", "exited", "crashed"} => ~connected
    /\ side = "client" => phase # "crashed"

(* The inductive invariant. *)
DInv == DataTypeOK /\ SendOwned /\ RecvOwned /\ Placed /\ Stopping

USE DataAssumption DEF DataAssumption

LEMMA DInit == Init => DInv
  <1> SUFFICES ASSUME Init PROVE DInv
    OBVIOUS
  <1> USE DEF Init
  <1>1. DataTypeOK
    <2>1. tracked \in [SendBlock -> 0 .. MaxTracked] /\ queue \in Seq(RecvBlock \cup {NULL})
      OBVIOUS
    <2> QED
      BY <2>1 DEF DataTypeOK, Block
  <1>2. SendOwned /\ Stopping
    BY DEF SendOwned, Stopping
  <1>3. RecvOwned
    BY DEF RecvOwned, Sealed
  <1>4. Placed
    BY DEF Placed, SendPlace, RecvPlace
  <1> QED
    BY <1>1, <1>2, <1>3, <1>4 DEF DInv

-----------------------------------------------------------------------------
(* Steps of one side leave the other's blocks alone. *)

LEMMA RecvFrame ==
    ASSUME DInv, UNCHANGED <<pool_recv, callback, queue, receiver, recv_blk, unqueued>>,
           UNCHANGED Sealed,
           \A b \in RecvBlock : data'[b] = data[b]
    PROVE  RecvOwned' /\ \A b \in RecvBlock : RecvPlace(b)'
  <1>1. RecvOwned'
    <2>1. /\ recv_blk # NULL => recv_blk \in RecvBlock
          /\ \A c \in Conn : callback[c] # NULL => callback[c] \in RecvBlock
          /\ \A i \in 1 .. Len(queue) : queue[i] # NULL => queue[i] \in RecvBlock
      BY DEF DInv, DataTypeOK
    <2>2. /\ ~Sealed' => \A i \in 1 .. Len(queue') : queue'[i] # NULL
          /\ Sealed' /\ receiver' # "done" => \E i \in 1 .. Len(queue') : queue'[i] = NULL
      BY DEF DInv, RecvOwned
    <2> QED
      BY <2>1, <2>2 DEF DInv, RecvOwned
  <1>2. \A b \in RecvBlock : RecvPlace(b)'
    BY DEF DInv, Placed, RecvPlace
  <1> QED
    BY <1>1, <1>2

LEMMA SendFrame ==
    ASSUME DInv, UNCHANGED <<pool_send, sender, sent_blk, in_flight, unread>>,
           \A b \in SendBlock : data'[b] = data[b]
    PROVE  SendOwned' /\ \A b \in SendBlock : SendPlace(b)'
  <1>1. SendOwned'
    BY DEF DInv, DataTypeOK, SendOwned
  <1>2. \A b \in SendBlock : SendPlace(b)'
    BY DEF DInv, Placed, SendPlace
  <1> QED
    BY <1>1, <1>2

-----------------------------------------------------------------------------
(* The sending thread, and the states of sent datagrams. *)

LEMMA SendSideInv ==
    ASSUME DInv,
           \/ thread_pkt_data_send
           \/ \E b \in SendBlock : Sent(b) \/ Canceled(b) \/ Final(b)
    PROVE  DInv'
  <1> USE DEF DInv, DataTypeOK, Block
  <1>1. /\ UNCHANGED <<side, pool_recv, callback, queue, receiver, recv_blk, unqueued,
                       running_recv, shutdown_fd, connected, phase>>
        /\ Alive
    BY DEF thread_pkt_data_send, SendEnds, SendRead, SendReadError, SendDrop, DatagramSend,
           Sent, Canceled, Final, recvVars, stopVars
  <1>2. UNCHANGED Sealed
    BY <1>1 DEF Sealed
  <1>3. ASSUME DataTypeOK', SendOwned', \A b \in SendBlock : SendPlace(b)', Stopping',
               \A b \in RecvBlock : data'[b] = data[b]
        PROVE  DInv'
    BY <1>1, <1>2, <1>3, RecvFrame DEF Placed
  <1> USE DEF SendOwned, recvVars, stopVars
  <1>4. CASE SendEnds
    BY <1>1, <1>3, <1>4 DEF SendEnds, Placed, SendPlace, Stopping
  <1>5. ASSUME NEW b \in SendBlock, NEW p \in Packet, SendRead(b, p) PROVE DInv'
    <2>1. DataTypeOK'
      BY <1>1, <1>5 DEF SendRead
    <2>2. SendOwned'
      BY <1>5 DEF SendRead
    <2>3. \A x \in SendBlock : SendPlace(x)'
      BY <1>5 DEF SendRead, Placed, SendPlace
    <2>4. Stopping'
      BY <1>1, <1>5 DEF SendRead, Stopping
    <2> QED
      BY <1>3, <1>5, <2>1, <2>2, <2>3, <2>4 DEF SendRead
  <1>6. CASE SendReadError
    <2>1. DataTypeOK' /\ SendOwned'
      BY <1>1, <1>6 DEF SendReadError
    <2>2. \A x \in SendBlock : SendPlace(x)'
      BY <1>6 DEF SendReadError, Placed, SendPlace
    <2>3. Stopping'
      BY <1>1, <1>6 DEF SendReadError, Stopping
    <2> QED
      BY <1>3, <1>6, <2>1, <2>2, <2>3 DEF SendReadError
  <1>7. CASE SendDrop
    <2>1. DataTypeOK'
      BY <1>1, <1>7 DEF SendDrop, PutSend
    <2>2. SendOwned'
      BY <1>7 DEF SendDrop, PutSend
    <2>3. \A x \in SendBlock : SendPlace(x)'
      BY <1>7 DEF SendDrop, PutSend, Placed, SendPlace
    <2>4. Stopping'
      BY <1>1, <1>7 DEF SendDrop, Stopping
    <2> QED
      BY <1>3, <1>7, <2>1, <2>2, <2>3, <2>4 DEF SendDrop, PutSend
  <1>8. CASE DatagramSend
    <2>1. DataTypeOK'
      BY <1>1, <1>8 DEF DatagramSend
    <2>2. SendOwned'
      BY <1>8 DEF DatagramSend
    <2>3. \A x \in SendBlock : SendPlace(x)'
      BY <1>8 DEF DatagramSend, Placed, SendPlace
    <2>4. Stopping'
      BY <1>1, <1>8 DEF DatagramSend, Stopping
    <2> QED
      BY <1>3, <1>8, <2>1, <2>2, <2>3, <2>4 DEF DatagramSend
  <1>9. ASSUME NEW b \in SendBlock, Sent(b) \/ Canceled(b) PROVE DInv'
    <2>1. /\ in_flight[b] # NULL
          /\ in_flight' = [in_flight EXCEPT ![b] = NULL]
          /\ PutSend(b)
          /\ UNCHANGED <<sender, sent_blk, unread>>
      BY <1>9 DEF Sent, Canceled
    <2>2. tracked' \in [SendBlock -> 0 .. MaxTracked]
      <3>1. CASE Sent(b)
        <4>1. tracked[b] + 1 \in 0 .. MaxTracked
          BY <3>1 DEF Sent
        <4>2. tracked' = [tracked EXCEPT ![b] = tracked[b] + 1]
          BY <3>1 DEF Sent
        <4> QED
          BY <4>1, <4>2
      <3> QED
        BY <1>9, <3>1 DEF Canceled
    <2>3. DataTypeOK'
      <3>1. /\ data' \in [Block -> Packet \cup {NULL}]
            /\ pool_send' \subseteq SendBlock
            /\ in_flight' \in [SendBlock -> Packet \cup {NULL}]
        BY <2>1 DEF PutSend
      <3> QED
        BY <1>1, <2>1, <2>2, <3>1
    <2>4. SendOwned'
      BY <2>1 DEF PutSend
    <2>5. \A x \in SendBlock : SendPlace(x)'
      BY <2>1 DEF PutSend, Placed, SendPlace
    <2>6. Stopping'
      BY <1>1, <2>1 DEF Stopping
    <2> QED
      BY <1>3, <2>1, <2>3, <2>4, <2>5, <2>6 DEF PutSend
  <1>10. ASSUME NEW b \in SendBlock, Final(b) PROVE DInv'
    <2>1. DataTypeOK'
      BY <1>1, <1>10 DEF Final
    <2>2. UNCHANGED <<data, pool_send, sender, sent_blk, in_flight, unread>>
      BY <1>10 DEF Final
    <2>3. Stopping'
      BY <1>1, <2>2 DEF Stopping
    <2> QED
      BY <1>3, <2>1, <2>2, <2>3, SendFrame
  <1> QED
    BY <1>4, <1>5, <1>6, <1>7, <1>8, <1>9, <1>10 DEF thread_pkt_data_send

-----------------------------------------------------------------------------
(* The receiving events and the receiving thread. *)

LEMMA AppendFacts ==
    ASSUME NEW S, NEW s \in Seq(S), NEW x \in S
    PROVE  /\ Append(s, x) \in Seq(S)
           /\ Len(s) \in Nat
           /\ Len(Append(s, x)) = Len(s) + 1
           /\ \A i \in 1 .. Len(s) : Append(s, x)[i] = s[i]
           /\ Append(s, x)[Len(s) + 1] = x
  OBVIOUS

(* What is queued is the sentinel or a block in use by the queue alone. *)
LEMMA QueueHolds ==
    ASSUME DInv
    PROVE  /\ queue \in Seq(RecvBlock \cup {NULL})
           /\ \A i \in 1 .. Len(queue) : queue[i] # NULL =>
                 queue[i] \in RecvBlock \ pool_recv /\ queue[i] # recv_blk
  <1>1. queue \in Seq(RecvBlock \cup {NULL})
    BY DEF DInv, DataTypeOK
  <1>2. \A i \in 1 .. Len(queue) : queue[i] \in RecvBlock \cup {NULL}
    BY <1>1
  <1>3. \A i \in 1 .. Len(queue) : queue[i] # NULL => queue[i] \notin pool_recv /\ queue[i] # recv_blk
    BY DEF DInv, RecvOwned
  <1> QED
    BY <1>1, <1>2, <1>3

LEMMA TailFacts ==
    ASSUME NEW S, NEW s \in Seq(S), s # <<>>
    PROVE  /\ Tail(s) \in Seq(S)
           /\ Len(s) \in Nat \ {0}
           /\ Len(Tail(s)) = Len(s) - 1
           /\ \A i \in 1 .. Len(Tail(s)) : Tail(s)[i] = s[i + 1]
           /\ Head(s) = s[1]
           /\ Head(s) \in S
  OBVIOUS

LEMMA DatagramReceivedInv ==
    ASSUME DInv, NEW c \in Conn, NEW b \in RecvBlock, NEW p \in Packet,
           DatagramReceived(c, b, p)
    PROVE  DInv'
  <1> USE DEF DInv, DataTypeOK, Block
  <1>1. /\ UNCHANGED <<side, pool_send, sender, sent_blk, in_flight, tracked, unread, queue,
                       receiver, recv_blk, unqueued, running_recv, shutdown_fd, connected,
                       phase>>
        /\ callback[c] = NULL
        /\ side = "client" => connected
        /\ b \in pool_recv
        /\ pool_recv' = pool_recv \ {b}
        /\ data' = [data EXCEPT ![b] = p]
        /\ callback' = [callback EXCEPT ![c] = b]
    BY DEF DatagramReceived, sendVars, stopVars
  <1>2. DataTypeOK'
    <2>1. /\ pool_recv' \subseteq RecvBlock
          /\ data' \in [Block -> Packet \cup {NULL}]
          /\ callback' \in [Conn -> RecvBlock \cup {NULL}]
      BY <1>1
    <2> QED
      BY <1>1, <2>1
  <1>3. SendOwned' /\ \A x \in SendBlock : SendPlace(x)'
    BY <1>1, SendFrame
  <1>4. RecvOwned'
    <2>1. Sealed' = Sealed
      BY <1>1 DEF Sealed
    <2>2. \A x \in Block \ {b} : data'[x] = data[x]
      BY <1>1
    <2>3. data'[b] = p
      BY <1>1
    <2>4. receiver = "write" => recv_blk # b /\ recv_blk \in RecvBlock
      BY <1>1 DEF RecvOwned
    <2>5. \A d \in Conn : callback[d] # NULL => callback[d] # b /\ callback[d] \in RecvBlock
      BY <1>1 DEF RecvOwned
    <2>6. \A i \in 1 .. Len(queue) : /\ queue[i] \in RecvBlock \cup {NULL}
                                      /\ queue[i] # b
      BY <1>1 DEF RecvOwned
    <2>7. \A d \in Conn : callback'[d] = IF d = c THEN b ELSE callback[d]
      BY <1>1
    <2>8. \A d \in Conn : callback'[d] # NULL =>
              /\ callback'[d] \notin pool_recv'
              /\ callback'[d] # recv_blk'
              /\ data'[callback'[d]] \in Packet
              /\ \A e \in Conn : callback'[e] = callback'[d] => e = d
              /\ \A i \in 1 .. Len(queue) : queue[i] # callback'[d]
      BY <1>1, <2>2, <2>3, <2>4, <2>5, <2>6, <2>7 DEF RecvOwned
    <2>9. \A i \in 1 .. Len(queue) : queue[i] # NULL =>
              queue[i] \notin pool_recv' /\ queue[i] # recv_blk /\ data'[queue[i]] \in Packet
      BY <1>1, <2>2, <2>6 DEF RecvOwned
    <2>10. receiver = "write" => recv_blk \in RecvBlock \ pool_recv' /\ data'[recv_blk] \in Packet
      BY <1>1, <2>2, <2>4 DEF RecvOwned
    <2> QED
      BY <1>1, <2>1, <2>8, <2>9, <2>10 DEF RecvOwned
  <1>5. \A x \in RecvBlock : RecvPlace(x)'
    <2>1. \A d \in Conn : callback[d] # NULL => callback'[d] = callback[d]
      BY <1>1
    <2> QED
      BY <1>1, <2>1 DEF Placed, RecvPlace
  <1>6. Stopping'
    BY <1>1 DEF Stopping
  <1> QED
    BY <1>2, <1>3, <1>4, <1>5, <1>6 DEF Placed

LEMMA PushInv ==
    ASSUME DInv, NEW c \in Conn, Push(c)
    PROVE  DInv'
  <1> USE DEF DInv, DataTypeOK, Block
  <1>1. /\ UNCHANGED <<side, data, pool_send, sender, sent_blk, in_flight, tracked, unread,
                       pool_recv, receiver, recv_blk, running_recv, shutdown_fd, connected,
                       phase>>
        /\ callback[c] # NULL
        /\ callback' = [callback EXCEPT ![c] = NULL]
        /\ \/ queue' = Append(queue, callback[c]) /\ UNCHANGED unqueued
           \/ unqueued' = unqueued \cup {callback[c]} /\ UNCHANGED queue
    BY DEF Push, sendVars, stopVars
  <1>2. /\ callback[c] \in RecvBlock \ pool_recv
        /\ callback[c] # recv_blk
        /\ data[callback[c]] \in Packet
        /\ \A d \in Conn : callback[d] = callback[c] => d = c
        /\ \A i \in 1 .. Len(queue) : queue[i] # callback[c]
    BY <1>1 DEF RecvOwned
  <1>3. \A d \in Conn : callback'[d] = IF d = c THEN NULL ELSE callback[d]
    BY <1>1
  <1>4. Sealed' = Sealed
    BY <1>1 DEF Sealed
  <1>5. SendOwned' /\ \A x \in SendBlock : SendPlace(x)'
    BY <1>1, SendFrame
  <1>6. Stopping'
    BY <1>1, <1>3 DEF Stopping
  <1>7. callback' \in [Conn -> RecvBlock \cup {NULL}]
    BY <1>1
  <1>8. CASE queue' = Append(queue, callback[c]) /\ UNCHANGED unqueued
    <2>1. /\ queue' \in Seq(RecvBlock \cup {NULL})
          /\ Len(queue) \in Nat
          /\ Len(queue') = Len(queue) + 1
          /\ \A i \in 1 .. Len(queue) : queue'[i] = queue[i]
          /\ queue'[Len(queue) + 1] = callback[c]
      BY <1>2, <1>8, AppendFacts
    <2>2. DataTypeOK'
      BY <1>1, <1>7, <1>8, <2>1
    <2>3. \A i \in 1 .. Len(queue') : i \in 1 .. Len(queue) \/ i = Len(queue) + 1
      BY <2>1
    <2>4. RecvOwned'
      <3>1. \A d \in Conn : callback'[d] # NULL =>
                /\ callback'[d] \notin pool_recv
                /\ callback'[d] # recv_blk
                /\ data[callback'[d]] \in Packet
                /\ \A e \in Conn : callback'[e] = callback'[d] => e = d
                /\ \A i \in 1 .. Len(queue') : queue'[i] # callback'[d]
        <4> SUFFICES ASSUME NEW d \in Conn, callback'[d] # NULL
                     PROVE  /\ callback'[d] \notin pool_recv
                            /\ callback'[d] # recv_blk
                            /\ data[callback'[d]] \in Packet
                            /\ \A e \in Conn : callback'[e] = callback'[d] => e = d
                            /\ \A i \in 1 .. Len(queue') : queue'[i] # callback'[d]
          OBVIOUS
        <4>1. d # c /\ callback'[d] = callback[d] /\ callback[d] # callback[c]
          BY <1>2, <1>3
        <4>2. /\ callback[d] \notin pool_recv
              /\ callback[d] # recv_blk
              /\ data[callback[d]] \in Packet
              /\ \A e \in Conn : callback[e] = callback[d] => e = d
              /\ \A i \in 1 .. Len(queue) : queue[i] # callback[d]
          BY <4>1 DEF RecvOwned
        <4>3. \A i \in 1 .. Len(queue') : queue'[i] # callback[d]
          BY <2>1, <2>3, <4>1, <4>2
        <4> QED
          BY <1>3, <4>1, <4>2, <4>3
      <3>2. \A i \in 1 .. Len(queue') : queue'[i] # NULL =>
                queue'[i] \notin pool_recv /\ queue'[i] # recv_blk /\ data[queue'[i]] \in Packet
        BY <1>2, <2>1, <2>3 DEF RecvOwned
      <3>3. \A i, j \in 1 .. Len(queue') : queue'[i] = queue'[j] => i = j
        <4>1. /\ \A i, j \in 1 .. Len(queue) : queue[i] = queue[j] => i = j
              /\ \A i \in 1 .. Len(queue) : queue[i] # callback[c]
          BY <1>2 DEF RecvOwned
        <4> SUFFICES ASSUME NEW i \in 1 .. Len(queue'), NEW j \in 1 .. Len(queue'),
                            queue'[i] = queue'[j]
                     PROVE  i = j
          OBVIOUS
        <4>2. CASE i \in 1 .. Len(queue) /\ j \in 1 .. Len(queue)
          BY <2>1, <4>1, <4>2
        <4>3. CASE i \in 1 .. Len(queue) /\ j = Len(queue) + 1
          BY <2>1, <4>1, <4>3
        <4>4. CASE i = Len(queue) + 1 /\ j \in 1 .. Len(queue)
          BY <2>1, <4>1, <4>4
        <4>5. CASE i = Len(queue) + 1 /\ j = Len(queue) + 1
          BY <4>5
        <4> QED
          BY <2>3, <4>2, <4>3, <4>4, <4>5
      <3>4. ~Sealed => \A i \in 1 .. Len(queue') : queue'[i] # NULL
        BY <1>1, <2>1, <2>3 DEF RecvOwned
      <3>5. Sealed /\ receiver # "done" => \E i \in 1 .. Len(queue') : queue'[i] = NULL
        <4>1. 1 .. Len(queue) \subseteq 1 .. Len(queue')
          BY <2>1
        <4> QED
          BY <2>1, <4>1 DEF RecvOwned
      <3> QED
        BY <1>1, <1>4, <3>1, <3>2, <3>3, <3>4, <3>5 DEF RecvOwned
    <2>5. \A x \in RecvBlock : RecvPlace(x)'
      <3> SUFFICES ASSUME NEW x \in RecvBlock PROVE RecvPlace(x)'
        OBVIOUS
      <3>1. RecvPlace(x)
        BY DEF Placed
      <3>2. 1 .. Len(queue) \subseteq 1 .. Len(queue') /\ Len(queue) + 1 \in 1 .. Len(queue')
        BY <2>1
      <3>3. CASE x = callback[c]
        BY <2>1, <3>2, <3>3 DEF RecvPlace
      <3>4. CASE x # callback[c]
        BY <1>1, <1>3, <1>8, <2>1, <3>1, <3>2, <3>4 DEF RecvPlace
      <3> QED
        BY <3>3, <3>4
    <2> QED
      BY <1>5, <1>6, <2>2, <2>4, <2>5 DEF Placed
  <1>9. CASE unqueued' = unqueued \cup {callback[c]} /\ UNCHANGED queue
    <2>1. DataTypeOK'
      BY <1>1, <1>2, <1>7, <1>9
    <2>2. RecvOwned'
      BY <1>1, <1>3, <1>4, <1>9 DEF RecvOwned
    <2>3. \A x \in RecvBlock : RecvPlace(x)'
      BY <1>1, <1>3, <1>9 DEF Placed, RecvPlace
    <2> QED
      BY <1>5, <1>6, <2>1, <2>2, <2>3 DEF Placed
  <1> QED
    BY <1>1, <1>8, <1>9

LEMMA RecvThreadInv ==
    ASSUME DInv, thread_pkt_data_recv
    PROVE  DInv'
  <1> USE DEF DInv, DataTypeOK, Block
  <1>1. /\ UNCHANGED <<side, pool_send, sender, sent_blk, in_flight, tracked, unread, callback,
                       unqueued, running_recv, shutdown_fd, connected, phase>>
        /\ receiver # "done"
        /\ \A x \in SendBlock : data'[x] = data[x]
    BY DEF thread_pkt_data_recv, RecvLoop, RecvPop, RecvWrite, PutRecv, sendVars, stopVars,
           RecvOwned
  <1>2. SendOwned' /\ \A x \in SendBlock : SendPlace(x)'
    BY <1>1, SendFrame
  <1>3. Sealed' = Sealed
    BY <1>1 DEF Sealed
  <1>4. Stopping'
    BY <1>1 DEF Stopping
  <1>5. CASE RecvLoop
    <2>1. /\ UNCHANGED <<data, pool_recv, queue, recv_blk>>
          /\ receiver = "loop" /\ receiver' \in {"pop", "done"}
          /\ receiver' = "done" => ~running_recv
      BY <1>5 DEF RecvLoop
    <2>2. DataTypeOK'
      BY <1>1, <2>1
    <2> QED
      BY <1>1, <1>2, <1>3, <1>4, <2>1, <2>2 DEF RecvOwned, Placed, RecvPlace
  <1>6. CASE RecvPop
    <2>1. /\ receiver = "pop" /\ recv_blk = NULL /\ queue # <<>>
          /\ queue' = Tail(queue)
          /\ recv_blk' = Head(queue)
          /\ receiver' = IF Head(queue) = NULL THEN "done" ELSE "write"
          /\ UNCHANGED <<data, pool_recv>>
      BY <1>6 DEF RecvPop, RecvOwned
    <2>2. /\ queue' \in Seq(RecvBlock \cup {NULL})
          /\ Len(queue) \in Nat \ {0}
          /\ Len(queue') = Len(queue) - 1
          /\ \A i \in 1 .. Len(queue') : queue'[i] = queue[i + 1]
          /\ recv_blk' = queue[1]
          /\ recv_blk' \in RecvBlock \cup {NULL}
      BY <2>1, TailFacts
    <2>3. DataTypeOK'
      BY <1>1, <2>1, <2>2
    <2>4. \A i \in 1 .. Len(queue') : i + 1 \in 1 .. Len(queue) /\ i + 1 # 1
      BY <2>2
    <2>5. 1 \in 1 .. Len(queue)
      BY <2>2
    <2>6. RecvOwned'
      <3>1. \A d \in Conn : callback[d] # NULL =>
                /\ callback[d] # recv_blk'
                /\ \A i \in 1 .. Len(queue') : queue'[i] # callback[d]
        <4> SUFFICES ASSUME NEW d \in Conn, callback[d] # NULL
                     PROVE  /\ callback[d] # recv_blk'
                            /\ \A i \in 1 .. Len(queue') : queue'[i] # callback[d]
          OBVIOUS
        <4>1. \A i \in 1 .. Len(queue) : queue[i] # callback[d]
          BY DEF RecvOwned
        <4> QED
          BY <2>2, <2>4, <2>5, <4>1
      <3>2. \A i \in 1 .. Len(queue') : queue'[i] # NULL =>
                queue'[i] \notin pool_recv /\ queue'[i] # recv_blk' /\ data[queue'[i]] \in Packet
        BY <2>2, <2>4, <2>5 DEF RecvOwned
      <3>3. \A i, j \in 1 .. Len(queue') : queue'[i] = queue'[j] => i = j
        <4> SUFFICES ASSUME NEW i \in 1 .. Len(queue'), NEW j \in 1 .. Len(queue'),
                            queue'[i] = queue'[j]
                     PROVE  i = j
          OBVIOUS
        <4>0. \A k, l \in 1 .. Len(queue) : queue[k] = queue[l] => k = l
          BY DEF RecvOwned
        <4>1. i + 1 = j + 1
          <5>1. queue[i + 1] = queue[j + 1]
            BY <2>2
          <5>2. i + 1 \in 1 .. Len(queue) /\ j + 1 \in 1 .. Len(queue)
            BY <2>2, <2>4
          <5> QED
            BY <4>0, <5>1, <5>2
        <4> QED
          BY <4>1, <2>2
      <3>4. ~Sealed => \A i \in 1 .. Len(queue') : queue'[i] # NULL
        BY <2>2, <2>4 DEF RecvOwned
      <3>5. /\ receiver' # "write" => recv_blk' = NULL
            /\ receiver' = "write" => recv_blk' \in RecvBlock \ pool_recv /\ data[recv_blk'] \in Packet
        BY <2>1, <2>2, <2>5 DEF RecvOwned
      <3>6. Sealed /\ receiver' # "done" => \E i \in 1 .. Len(queue') : queue'[i] = NULL
        <4> SUFFICES ASSUME Sealed, receiver' # "done"
                     PROVE  \E i \in 1 .. Len(queue') : queue'[i] = NULL
          OBVIOUS
        <4>1. PICK i \in 1 .. Len(queue) : queue[i] = NULL
          BY <2>1 DEF RecvOwned
        <4>2. queue[1] # NULL
          BY <2>1, <2>2
        <4>3. i - 1 \in 1 .. Len(queue') /\ (i - 1) + 1 = i
          BY <2>2, <4>1, <4>2
        <4> QED
          BY <2>2, <4>1, <4>3
      <3> QED
        BY <1>1, <1>3, <2>1, <3>1, <3>2, <3>3, <3>4, <3>5, <3>6 DEF RecvOwned
    <2>7. \A x \in RecvBlock : RecvPlace(x)'
      <3> SUFFICES ASSUME NEW x \in RecvBlock, \E i \in 1 .. Len(queue) : queue[i] = x
                   PROVE  x = recv_blk' \/ \E i \in 1 .. Len(queue') : queue'[i] = x
        BY <1>1, <2>1 DEF Placed, RecvPlace
      <3>1. PICK i \in 1 .. Len(queue) : queue[i] = x
        OBVIOUS
      <3>2. CASE i = 1
        BY <2>2, <3>1, <3>2
      <3>3. CASE i # 1
        <4>1. i - 1 \in 1 .. Len(queue') /\ (i - 1) + 1 = i
          BY <2>2, <3>3
        <4> QED
          BY <2>2, <3>1, <4>1
      <3> QED
        BY <3>2, <3>3
    <2> QED
      BY <1>2, <1>4, <2>3, <2>6, <2>7 DEF Placed
  <1>7. CASE RecvWrite
    <2>1. /\ receiver = "write" /\ recv_blk \in RecvBlock
          /\ pool_recv' = pool_recv \cup {recv_blk}
          /\ data' = [data EXCEPT ![recv_blk] = NULL]
          /\ recv_blk' = NULL
          /\ receiver' = "loop"
          /\ UNCHANGED queue
      BY <1>7 DEF RecvWrite, PutRecv, RecvOwned
    <2>2. pool_recv' \subseteq RecvBlock /\ data' \in [Block -> Packet \cup {NULL}]
      BY <2>1
    <2>3. DataTypeOK'
      BY <1>1, <2>1, <2>2
    <2>4. \A x \in RecvBlock : x # recv_blk => data'[x] = data[x]
      BY <2>1
    <2>5. RecvOwned'
      <3>1. \A d \in Conn : callback[d] # NULL =>
                callback[d] \notin pool_recv' /\ data'[callback[d]] \in Packet
        BY <2>1, <2>4 DEF RecvOwned
      <3>2. \A i \in 1 .. Len(queue) : queue[i] # NULL =>
                queue[i] \notin pool_recv' /\ data'[queue[i]] \in Packet
        <4> SUFFICES ASSUME NEW i \in 1 .. Len(queue), queue[i] # NULL
                     PROVE  queue[i] \notin pool_recv' /\ data'[queue[i]] \in Packet
          OBVIOUS
        <4>1. queue[i] \in RecvBlock
          OBVIOUS
        <4> QED
          BY <2>1, <2>4, <4>1 DEF RecvOwned
      <3> QED
        BY <1>1, <1>3, <2>1, <3>1, <3>2 DEF RecvOwned
    <2>6. \A x \in RecvBlock : RecvPlace(x)'
      BY <1>1, <2>1 DEF Placed, RecvPlace
    <2> QED
      BY <1>2, <1>4, <2>3, <2>5, <2>6 DEF Placed
  <1> QED
    BY <1>5, <1>6, <1>7 DEF thread_pkt_data_recv

-----------------------------------------------------------------------------
(* The end of the client's connection, and the cleanup. *)

LEMMA ConnectionLostInv ==
    ASSUME DInv, ConnectionLost
    PROVE  DInv'
  <1> USE DEF DInv, DataTypeOK, Block
  <1>1. /\ UNCHANGED <<side, data, pool_send, sender, sent_blk, in_flight, unread, pool_recv,
                       callback, queue, receiver, recv_blk, unqueued, running_recv,
                       shutdown_fd, phase>>
        /\ side = "client" /\ connected' = FALSE
        /\ tracked' = [b \in SendBlock |-> 0]
    BY DEF ConnectionLost, recvVars
  <1>2. DataTypeOK'
    <2>1. tracked' \in [SendBlock -> 0 .. MaxTracked]
      BY <1>1
    <2>2. /\ UNCHANGED <<side, data, pool_send, sender, sent_blk, in_flight, unread, pool_recv,
                         callback, queue, receiver, recv_blk, unqueued, running_recv,
                         shutdown_fd, phase>>
          /\ connected' \in BOOLEAN
      BY <1>1, Zenon
    <2> QED
      BY <2>1, <2>2
  <1>3. /\ \A b \in SendBlock : in_flight[b] = NULL
        /\ \A c \in Conn : callback[c] = NULL
    BY DEF ConnectionLost, InFlight, InCallback
  <1>4. SendOwned' /\ \A b \in SendBlock : SendPlace(b)'
    BY <1>1, SendFrame
  <1>5. RecvOwned' /\ \A b \in RecvBlock : RecvPlace(b)'
    BY <1>1, RecvFrame DEF Sealed
  <1>6. Stopping'
    BY <1>1, <1>3 DEF Stopping
  <1> QED
    BY <1>2, <1>4, <1>5, <1>6 DEF Placed

(* PushNull: the only sentinel, at the end of the queue. *)
LEMMA PushNullInv ==
    ASSUME DInv, PushNull
    PROVE  DInv'
  <1> USE DEF DInv, DataTypeOK, Block
  <1>1. /\ UNCHANGED <<side, data, pool_send, sender, sent_blk, in_flight, tracked, unread,
                       pool_recv, callback, receiver, recv_blk, unqueued, running_recv,
                       shutdown_fd, connected>>
        /\ phase = "push_null" /\ phase' = "join_recv"
        /\ queue' = Append(queue, NULL)
    BY DEF PushNull, CleanupStep, sendVars
  <1>2. /\ queue' \in Seq(RecvBlock \cup {NULL})
        /\ Len(queue) \in Nat
        /\ Len(queue') = Len(queue) + 1
        /\ \A i \in 1 .. Len(queue) : queue'[i] = queue[i]
        /\ queue'[Len(queue) + 1] = NULL
    BY <1>1, AppendFacts
  <1>3. DataTypeOK'
    BY <1>1, <1>2
  <1>4. SendOwned' /\ \A b \in SendBlock : SendPlace(b)'
    BY <1>1, SendFrame
  <1>5. \A i \in 1 .. Len(queue') : i \in 1 .. Len(queue) \/ i = Len(queue) + 1
    BY <1>2
  <1>6. \A i \in 1 .. Len(queue) : queue[i] # NULL
    BY <1>1 DEF RecvOwned, Sealed
  <1>7. RecvOwned'
    <2>1. \A d \in Conn : callback[d] # NULL =>
              \A i \in 1 .. Len(queue') : queue'[i] # callback[d]
      <3>1. \A d \in Conn : callback[d] # NULL =>
                \A i \in 1 .. Len(queue) : queue[i] # callback[d]
        BY DEF RecvOwned
      <3> QED
        BY <1>2, <1>5, <3>1
    <2>2. \A i \in 1 .. Len(queue') : queue'[i] # NULL =>
              queue'[i] \notin pool_recv /\ queue'[i] # recv_blk /\ data[queue'[i]] \in Packet
      BY <1>2, <1>5 DEF RecvOwned
    <2>3. \A i, j \in 1 .. Len(queue') : queue'[i] = queue'[j] => i = j
      <3>1. \A i, j \in 1 .. Len(queue) : queue[i] = queue[j] => i = j
        BY DEF RecvOwned
      <3> QED
        BY <1>2, <1>5, <1>6, <3>1
    <2>4. Sealed'
      BY <1>1 DEF Sealed
    <2>5. \E i \in 1 .. Len(queue') : queue'[i] = NULL
      BY <1>2
    <2> QED
      BY <1>1, <2>1, <2>2, <2>3, <2>4, <2>5 DEF RecvOwned
  <1>8. \A x \in RecvBlock : RecvPlace(x)'
    <2>1. 1 .. Len(queue) \subseteq 1 .. Len(queue')
      BY <1>2
    <2> QED
      BY <1>1, <1>2, <2>1 DEF Placed, RecvPlace
  <1>9. Stopping'
    BY <1>1 DEF Stopping
  <1> QED
    BY <1>3, <1>4, <1>7, <1>8, <1>9 DEF Placed

LEMMA CleanupInv ==
    ASSUME DInv,
           StopSend \/ JoinSend \/ StopRecv \/ JoinRecv \/ MsQuicShutdown \/ Destroy
             \/ Exit \/ UsesFreed
    PROVE  DInv'
  <1> USE DEF DInv, DataTypeOK, Block
  <1> USE DEF StopSend, JoinSend, StopRecv, JoinRecv, MsQuicShutdown, Destroy, Exit, UsesFreed,
              CleanupStep
  <1>1. UNCHANGED <<side, data, pool_send, sender, sent_blk, in_flight, tracked, unread,
                    pool_recv, callback, queue, receiver, recv_blk, unqueued, connected>>
    BY DEF sendVars, recvVars
  <1>2. UNCHANGED Sealed
    BY DEF Sealed
  <1>3. SendOwned' /\ \A b \in SendBlock : SendPlace(b)'
    BY <1>1, SendFrame
  <1>4. RecvOwned' /\ \A b \in RecvBlock : RecvPlace(b)'
    BY <1>1, <1>2, RecvFrame
  <1>5. DataTypeOK'
    <2>1. phase' \in {"run", "join_send", "stop_recv", "push_null", "join_recv", "quic",
                      "destroy", "destroyed", "exited", "crashed"}
      OBVIOUS
    <2>2. running_recv' \in BOOLEAN /\ shutdown_fd' \in BOOLEAN
      OBVIOUS
    <2> QED
      BY <1>1, <2>1, <2>2
  <1>6. Stopping'
    <2>1. CASE UsesFreed
      <3>1. phase = "destroyed" /\ phase' = "crashed"
        BY <2>1
      <3>2. side = "client" => InCallback = {} /\ InFlight = {}
        BY <3>1 DEF Stopping, InCallback, InFlight
      <3>3. side = "server"
        BY <2>1, <3>2
      <3> QED
        BY <1>1, <3>1, <3>3 DEF Stopping
    <2>2. CASE ~UsesFreed
      <3> HIDE DEF UsesFreed
      <3> QED
        BY <1>1, <2>2 DEF Stopping
    <2> QED
      BY <2>1, <2>2
  <1> QED
    BY <1>3, <1>4, <1>5, <1>6 DEF Placed

LEMMA DNext == DInv /\ [Next]_vars => DInv'
  <1> SUFFICES ASSUME DInv, [Next]_vars PROVE DInv'
    OBVIOUS
  <1>1. CASE UNCHANGED vars
    <2>1. UNCHANGED <<side, data, pool_send, sender, sent_blk, in_flight, tracked, unread,
                      pool_recv, callback, queue, receiver, recv_blk, unqueued, running_recv,
                      shutdown_fd, connected, phase>>
      BY <1>1 DEF vars, sendVars, recvVars, stopVars
    <2>2. SendOwned' /\ \A b \in SendBlock : SendPlace(b)'
      BY <2>1, SendFrame
    <2>3. RecvOwned' /\ \A b \in RecvBlock : RecvPlace(b)'
      BY <2>1, RecvFrame DEF Sealed
    <2>4. DataTypeOK'
      BY <2>1 DEF DInv, DataTypeOK
    <2>5. Stopping'
      BY <2>1 DEF DInv, Stopping
    <2> QED
      BY <2>2, <2>3, <2>4, <2>5 DEF DInv, Placed
  <1>2. CASE thread_pkt_data_send
    BY <1>2, SendSideInv
  <1>3. CASE thread_pkt_data_recv
    BY <1>3, RecvThreadInv
  <1>4. CASE Event
    <2>1. Connections \subseteq Conn
      BY DEF Connections
    <2> QED
      BY <1>4, <2>1, SendSideInv, DatagramReceivedInv, PushInv, ConnectionLostInv, CleanupInv
      DEF Event
  <1>5. CASE StopSend \/ vpn_engine_cleanup
    BY <1>5, CleanupInv, PushNullInv DEF vpn_engine_cleanup
  <1> QED
    BY <1>1, <1>2, <1>3, <1>4, <1>5 DEF Next, Terminated

LEMMA DataInvariant == Spec => []DInv
  BY DInit, DNext, PTL DEF Spec

(* DataTypeOK: pools, queue and threads of the packet path keep their types.   *)
THEOREM DataTypes == Spec => []DataTypeOK
  <1>1. DInv => DataTypeOK
    BY DEF DInv
  <1> QED
    BY <1>1, DataInvariant, PTL

(* InFlightIntact: a block given to DatagramSend stays out of the pool and     *)
(* keeps its packet until msquic reports it, and the client's cleanup destroys *)
(* pools and queue only when no thread and no event uses them.                 *)
THEOREM InFlightAlwaysIntact == Spec => []InFlightIntact
  <1>1. DInv => InFlightIntact
    <2> SUFFICES ASSUME DInv PROVE InFlightIntact
      OBVIOUS
    <2>1. \A b \in InFlight : in_flight[b] = data[b] /\ b \notin pool_send /\ b # sent_blk
      BY DEF DInv, DataTypeOK, SendOwned, InFlight
    <2>2. ASSUME side = "client" PROVE Quiet
      <3> SUFFICES ASSUME phase \in {"destroyed", "exited", "crashed"}
                   PROVE  /\ phase # "crashed"
                          /\ sender = "done" /\ receiver = "done"
                          /\ InCallback = {} /\ InFlight = {}
        BY DEF Quiet
      <3>1. phase # "crashed" /\ sender = "done" /\ receiver = "done" /\ ~connected
        BY <2>2 DEF DInv, Stopping
      <3> QED
        BY <3>1 DEF DInv, Stopping, InCallback, InFlight
    <2> QED
      BY <2>1, <2>2 DEF InFlightIntact
  <1> QED
    BY <1>1, DataInvariant, PTL

(* BlocksReturned: the two known leaks, a failed read of the client and a full *)
(* queue, are the only ones of threads.c and quic.c.                           *)
THEOREM BlocksAlwaysReturned == Spec => []BlocksReturned
  <1>1. DInv => BlocksReturned
    <2> SUFFICES ASSUME DInv PROVE BlocksReturned
      OBVIOUS
    <2>1. ASSUME NEW b \in SendBlock
          PROVE  b \in pool_send \cup {sent_blk} \cup InFlight \cup unread
      BY DEF DInv, Placed, SendPlace, InFlight
    <2>2. ASSUME NEW b \in RecvBlock
          PROVE  b \in pool_recv \cup {recv_blk} \cup Queued \cup InCallback \cup unqueued
      BY DEF DInv, Placed, RecvPlace, Queued, InCallback
    <2> QED
      BY <2>1, <2>2 DEF BlocksReturned
  <1> QED
    BY <1>1, DataInvariant, PTL

-----------------------------------------------------------------------------
(* The receiving side implements PacketChannel.  First, what the channel is in *)
(* terms of the queue.                                                         *)

LEMMA AheadSentinel ==
    ASSUME DInv, NEW k \in 1 .. Len(queue), queue[k] = NULL
    PROVE  Ahead = k - 1
  <1>1. \A i \in 1 .. Len(queue) : queue[i] = NULL => i = k
    BY DEF DInv, RecvOwned
  <1>2. (CHOOSE i \in 1 .. Len(queue) : queue[i] = NULL) = k
    BY <1>1
  <1> QED
    BY <1>2 DEF Ahead

LEMMA AheadPlain ==
    ASSUME \A i \in 1 .. Len(queue) : queue[i] # NULL
    PROVE  Ahead = IF Sealed THEN 0 ELSE Len(queue)
  BY DEF Ahead

(* The blocks ahead are the first ones of the queue, and hold packets. *)
LEMMA AheadFacts ==
    ASSUME DInv
    PROVE  /\ Len(queue) \in Nat
           /\ Ahead \in 0 .. Len(queue)
           /\ \A i \in 1 .. Ahead : /\ i \in 1 .. Len(queue)
                                    /\ queue[i] \in RecvBlock
                                    /\ data[queue[i]] \in Packet
  <1>1. queue \in Seq(RecvBlock \cup {NULL}) /\ Len(queue) \in Nat
    BY DEF DInv, DataTypeOK
  <1>2. \A i \in 1 .. Len(queue) :
            /\ queue[i] \in RecvBlock \cup {NULL}
            /\ queue[i] # NULL => data[queue[i]] \in Packet
    BY <1>1 DEF DInv, RecvOwned
  <1>3. CASE \E i \in 1 .. Len(queue) : queue[i] = NULL
    <2>1. PICK k \in 1 .. Len(queue) : queue[k] = NULL
      BY <1>3
    <2>2. Ahead = k - 1
      BY <2>1, AheadSentinel
    <2>3. \A i \in 1 .. Len(queue) : queue[i] = NULL => i = k
      BY <2>1 DEF DInv, RecvOwned
    <2> QED
      BY <1>1, <1>2, <2>2, <2>3
  <1>4. CASE \A i \in 1 .. Len(queue) : queue[i] # NULL
    <2>1. Ahead \in {0, Len(queue)}
      BY <1>4, AheadPlain
    <2> QED
      BY <1>1, <1>2, <1>4, <2>1
  <1> QED
    BY <1>3, <1>4

LEMMA ChanFacts ==
    ASSUME DInv
    PROVE  /\ Chan \in Seq(Packet)
           /\ Len(Chan) = Ahead
           /\ \A i \in 1 .. Ahead : Chan[i] = data[queue[i]]
  <1>1. Ahead \in Nat
    BY AheadFacts
  <1>2. Chan \in [1 .. Ahead -> Packet]
    BY AheadFacts DEF Chan
  <1> QED
    BY <1>1, <1>2 DEF Chan

(* Nothing happens to the channel while queue, sentinel and queued packets     *)
(* stay as they are.                                                           *)
LEMMA ChanFrame ==
    ASSUME DInv, UNCHANGED queue, UNCHANGED Sealed,
           \A i \in 1 .. Len(queue) : queue[i] # NULL => data'[queue[i]] = data[queue[i]]
    PROVE  Chan' = Chan
  <1>1. Ahead' = Ahead
    BY DEF Ahead
  <1>2. \A i \in 1 .. Ahead : data'[queue[i]] = data[queue[i]]
    BY AheadFacts
  <1> QED
    BY <1>1, <1>2 DEF Chan

(* The same of the whole abstract state. *)
LEMMA ChannelFrame ==
    ASSUME DInv, UNCHANGED <<queue, callback, recv_blk>>, UNCHANGED Sealed,
           \A b \in RecvBlock : data'[b] = data[b]
    PROVE  UNCHANGED Channel!vars
  <1>1. \A i \in 1 .. Len(queue) : queue[i] # NULL => data'[queue[i]] = data[queue[i]]
    BY DEF DInv, DataTypeOK
  <1>2. Chan' = Chan
    BY <1>1, ChanFrame
  <1>3. Arriving' = Arriving
    BY DEF DInv, DataTypeOK, Arriving, Holds
  <1>4. Holds(recv_blk)' = Holds(recv_blk)
    BY DEF DInv, DataTypeOK, Holds
  <1> QED
    BY <1>2, <1>3, <1>4 DEF Channel!vars

-----------------------------------------------------------------------------
(* Each action is a step of the channel. *)

LEMMA ReceivedIsArrive ==
    ASSUME DInv, NEW c \in Conn, NEW b \in RecvBlock, NEW p \in Packet,
           DatagramReceived(c, b, p)
    PROVE  Channel!Arrive(c, p)
  <1>1. /\ UNCHANGED <<queue, recv_blk, phase>>
        /\ callback[c] = NULL
        /\ b \in pool_recv
        /\ data' = [data EXCEPT ![b] = p]
        /\ callback' = [callback EXCEPT ![c] = b]
    BY DEF DatagramReceived, stopVars
  <1>2. \A x \in RecvBlock : x # b => data'[x] = data[x]
    BY <1>1 DEF DInv, DataTypeOK, Block
  <1>3. data'[b] = p
    BY <1>1 DEF DInv, DataTypeOK, Block
  <1>4. Chan' = Chan
    <2>1. \A i \in 1 .. Len(queue) : queue[i] # NULL => queue[i] \in RecvBlock /\ queue[i] # b
      BY <1>1, QueueHolds
    <2> QED
      BY <1>1, <1>2, <2>1, ChanFrame DEF Sealed
  <1>5. Holds(recv_blk)' = Holds(recv_blk)
    BY <1>1, <1>2 DEF DInv, DataTypeOK, RecvOwned, Holds
  <1>6. Arriving[c] = NULL
    BY <1>1 DEF Arriving, Holds
  <1>7. Arriving' = [Arriving EXCEPT ![c] = p]
    <2>1. \A d \in Conn : Arriving'[d] = IF d = c THEN p ELSE Arriving[d]
      <3> SUFFICES ASSUME NEW d \in Conn
                   PROVE  Arriving'[d] = IF d = c THEN p ELSE Arriving[d]
        OBVIOUS
      <3>1. CASE d = c
        BY <1>1, <1>3, <3>1 DEF DInv, DataTypeOK, Arriving, Holds
      <3>2. CASE d # c
        <4>1. callback'[d] = callback[d] /\ callback[d] \in RecvBlock \cup {NULL}
          BY <1>1, <3>2 DEF DInv, DataTypeOK
        <4>2. callback[d] # b
          BY <1>1 DEF DInv, RecvOwned
        <4> QED
          BY <1>2, <3>2, <4>1, <4>2 DEF Arriving, Holds
      <3> QED
        BY <3>1, <3>2
    <2> QED
      BY <2>1 DEF Arriving
  <1> QED
    BY <1>4, <1>5, <1>6, <1>7 DEF Channel!Arrive

LEMMA PushIsEnter ==
    ASSUME DInv, DInv', NEW c \in Conn, Push(c)
    PROVE  Channel!Enter(c)
  <1>1. /\ UNCHANGED <<data, recv_blk, phase>>
        /\ callback[c] # NULL
        /\ callback' = [callback EXCEPT ![c] = NULL]
        /\ \/ Len(queue) < QueueSize /\ queue' = Append(queue, callback[c])
           \/ UNCHANGED queue
    BY DEF Push, stopVars
  <1>2. callback[c] \in RecvBlock /\ data[callback[c]] \in Packet
    BY <1>1 DEF DInv, DataTypeOK, RecvOwned
  <1>3. Arriving[c] = data[callback[c]] /\ Arriving[c] # NULL
    BY <1>1, <1>2 DEF Arriving, Holds
  <1>4. Arriving' = [Arriving EXCEPT ![c] = NULL]
    BY <1>1 DEF Arriving, Holds, DInv, DataTypeOK
  <1>5. Holds(recv_blk)' = Holds(recv_blk)
    BY <1>1 DEF Holds
  <1>6. Sealed' = Sealed
    BY <1>1 DEF Sealed
  <1>7. CASE UNCHANGED queue
    <2>1. Chan' = Chan
      BY <1>1, <1>6, <1>7, ChanFrame
    <2> QED
      BY <1>3, <1>4, <1>5, <2>1 DEF Channel!Enter
  <1>8. CASE Len(queue) < QueueSize /\ queue' = Append(queue, callback[c])
    <2>1. /\ Len(queue) \in Nat
          /\ Len(queue') = Len(queue) + 1
          /\ \A i \in 1 .. Len(queue) : queue'[i] = queue[i]
          /\ queue'[Len(queue) + 1] = callback[c]
      BY <1>2, <1>8, AppendFacts, QueueHolds
    <2>2. Ahead \in 0 .. Len(queue)
      BY AheadFacts
    <2>3. Len(Chan) < QueueSize
      BY <1>8, <2>1, <2>2, ChanFacts
    <2>4. CASE \E k \in 1 .. Len(queue) : queue[k] = NULL
      <3>1. PICK k \in 1 .. Len(queue) : queue[k] = NULL
        BY <2>4
      <3>2. k \in 1 .. Len(queue') /\ queue'[k] = NULL
        BY <2>1, <3>1
      <3>3. Ahead' = k - 1
        <4>1. \A i \in 1 .. Len(queue') : queue'[i] = NULL => i = k
          BY <3>2 DEF DInv, RecvOwned
        <4>2. (CHOOSE i \in 1 .. Len(queue') : queue'[i] = NULL) = k
          BY <3>2, <4>1
        <4> QED
          BY <3>2, <4>2 DEF Ahead
      <3>4. Ahead = k - 1
        BY <3>1, AheadSentinel
      <3>5. Chan' = Chan
        BY <1>1, <2>1, <3>3, <3>4 DEF Chan
      <3> QED
        BY <1>3, <1>4, <1>5, <2>3, <3>5 DEF Channel!Enter
    <2>5. CASE \A k \in 1 .. Len(queue) : queue[k] # NULL
      <3>1. \A k \in 1 .. Len(queue') : queue'[k] # NULL
        BY <1>1, <2>1, <2>5
      <3>2. Ahead' = IF Sealed' THEN 0 ELSE Len(queue')
        BY <3>1 DEF Ahead
      <3>3. Ahead = IF Sealed THEN 0 ELSE Len(queue)
        BY <2>5, AheadPlain
      <3>4. CASE Sealed
        <4>1. Chan' = Chan
          BY <1>6, <3>2, <3>3, <3>4 DEF Chan
        <4> QED
          BY <1>3, <1>4, <1>5, <2>3, <4>1 DEF Channel!Enter
      <3>5. CASE ~Sealed
        <4>1. Ahead = Len(queue) /\ Ahead' = Len(queue) + 1
          BY <1>6, <2>1, <3>2, <3>3, <3>5
        <4>2. Chan' = [i \in 1 .. Len(queue) + 1 |-> data[queue'[i]]]
          BY <1>1, <4>1 DEF Chan
        <4>3. Append(Chan, Arriving[c])
                = [i \in 1 .. Len(queue) + 1 |-> IF i = Len(queue) + 1 THEN Arriving[c] ELSE Chan[i]]
          BY <2>1, <4>1 DEF Chan
        <4>4. \A i \in 1 .. Len(queue) + 1 :
                  data[queue'[i]] = IF i = Len(queue) + 1 THEN Arriving[c] ELSE Chan[i]
          <5> SUFFICES ASSUME NEW i \in 1 .. Len(queue) + 1
                       PROVE  data[queue'[i]] = IF i = Len(queue) + 1 THEN Arriving[c] ELSE Chan[i]
            OBVIOUS
          <5>1. CASE i = Len(queue) + 1
            BY <1>3, <2>1, <5>1
          <5>2. CASE i # Len(queue) + 1
            <6>1. i \in 1 .. Len(queue)
              BY <2>1, <5>2
            <6> QED
              BY <2>1, <4>1, <5>2, <6>1, ChanFacts
          <5> QED
            BY <5>1, <5>2
        <4>5. Chan' = Append(Chan, Arriving[c])
          BY <4>2, <4>3, <4>4
        <4> QED
          BY <1>3, <1>4, <1>5, <2>3, <4>5 DEF Channel!Enter
      <3> QED
        BY <3>4, <3>5
    <2> QED
      BY <2>4, <2>5
  <1> QED
    BY <1>1, <1>7, <1>8

(* The sentinel is invisible: its push and its pop change nothing. *)
LEMMA PushNullHidden ==
    ASSUME DInv, DInv', PushNull
    PROVE  UNCHANGED Channel!vars
  <1>1. /\ UNCHANGED <<data, callback, recv_blk>>
        /\ phase = "push_null" /\ phase' = "join_recv"
        /\ queue' = Append(queue, NULL)
    BY DEF PushNull, CleanupStep
  <1>2. /\ Len(queue) \in Nat
        /\ Len(queue') = Len(queue) + 1
        /\ \A i \in 1 .. Len(queue) : queue'[i] = queue[i]
        /\ queue'[Len(queue) + 1] = NULL
    BY <1>1, AppendFacts, QueueHolds
  <1>3. ~Sealed /\ \A i \in 1 .. Len(queue) : queue[i] # NULL
    BY <1>1 DEF DInv, RecvOwned, Sealed
  <1>4. Ahead = Len(queue)
    BY <1>3, AheadPlain
  <1>5. Ahead' = Len(queue)
    <2>1. Len(queue) + 1 \in 1 .. Len(queue')
      BY <1>2
    <2>2. \A i \in 1 .. Len(queue') : queue'[i] = NULL => i = Len(queue) + 1
      BY <1>2, <2>1 DEF DInv, RecvOwned
    <2>3. (CHOOSE i \in 1 .. Len(queue') : queue'[i] = NULL) = Len(queue) + 1
      BY <1>2, <2>1, <2>2
    <2>4. \E i \in 1 .. Len(queue') : queue'[i] = NULL
      BY <1>2, <2>1
    <2>5. Ahead' = (CHOOSE i \in 1 .. Len(queue') : queue'[i] = NULL) - 1
      BY <2>4 DEF Ahead
    <2>6. Ahead' = (Len(queue) + 1) - 1
      BY <2>3, <2>5
    <2>7. Len(queue) \in Nat
      BY <1>2
    <2> QED
      BY <2>6, <2>7
  <1>6. Chan' = Chan
    BY <1>1, <1>2, <1>4, <1>5 DEF Chan
  <1>7. Arriving' = Arriving /\ Holds(recv_blk)' = Holds(recv_blk)
    BY <1>1 DEF Arriving, Holds
  <1> QED
    BY <1>6, <1>7 DEF Channel!vars

LEMMA PopIsLeave ==
    ASSUME DInv, DInv', RecvPop
    PROVE  Channel!Leave \/ UNCHANGED Channel!vars
  <1>1. /\ receiver = "pop" /\ queue # <<>>
        /\ queue' = Tail(queue)
        /\ recv_blk' = Head(queue)
        /\ UNCHANGED <<data, callback, phase>>
    BY DEF RecvPop, stopVars
  <1>2. /\ Len(queue) \in Nat \ {0}
        /\ Len(queue') = Len(queue) - 1
        /\ \A i \in 1 .. Len(queue') : queue'[i] = queue[i + 1]
        /\ recv_blk' = queue[1]
        /\ 1 \in 1 .. Len(queue)
    BY <1>1, TailFacts DEF DInv, DataTypeOK
  <1>3. recv_blk = NULL /\ Holds(recv_blk) = NULL
    BY <1>1 DEF DInv, RecvOwned, Holds
  <1>4. Arriving' = Arriving
    BY <1>1 DEF Arriving, Holds
  <1>5. Sealed' = Sealed
    BY <1>1 DEF Sealed
  <1>6. \A i, j \in 1 .. Len(queue) : queue[i] = queue[j] => i = j
    BY DEF DInv, RecvOwned
  <1>7. CASE queue[1] = NULL
    <2>1. Ahead = 0
      BY <1>2, <1>7, AheadSentinel
    <2>2. \A i \in 1 .. Len(queue') : queue'[i] # NULL
      <3> SUFFICES ASSUME NEW i \in 1 .. Len(queue'), queue'[i] = NULL PROVE FALSE
        OBVIOUS
      <3>1. i + 1 \in 1 .. Len(queue) /\ i + 1 # 1 /\ queue[i + 1] = queue[1]
        BY <1>2, <1>7
      <3> QED
        BY <1>2, <1>6, <3>1
    <2>3. Sealed
      BY <1>2, <1>7 DEF DInv, RecvOwned
    <2>4. Ahead' = 0
      BY <1>5, <2>2, <2>3 DEF Ahead
    <2>5. Chan' = Chan
      BY <2>1, <2>4 DEF Chan
    <2>6. Holds(recv_blk)' = Holds(recv_blk)
      BY <1>2, <1>3, <1>7 DEF Holds
    <2> QED
      BY <1>4, <2>5, <2>6 DEF Channel!vars
  <1>8. CASE queue[1] # NULL /\ Ahead = 0
    (* The sentinel is gone, so the thread that took it is no longer popping. *)
    <2>1. Sealed /\ \A i \in 1 .. Len(queue) : queue[i] # NULL
      <3>1. CASE \E i \in 1 .. Len(queue) : queue[i] = NULL
        BY <1>2, <1>8, <3>1, AheadSentinel
      <3>2. CASE \A i \in 1 .. Len(queue) : queue[i] # NULL
        BY <1>2, <1>8, <3>2, AheadPlain
      <3> QED
        BY <3>1, <3>2
    <2> QED
      BY <1>1, <2>1 DEF DInv, RecvOwned
  <1>9. CASE queue[1] # NULL /\ Ahead # 0
    <2>1. /\ Ahead \in 1 .. Len(queue)
          /\ data[queue[1]] \in Packet
      BY <1>2, <1>9, AheadFacts
    <2>2. Ahead' = Ahead - 1
      <3>1. CASE \E k \in 1 .. Len(queue) : queue[k] = NULL
        <4>1. PICK k \in 1 .. Len(queue) : queue[k] = NULL
          BY <3>1
        <4>2. k # 1 /\ Ahead = k - 1
          BY <1>9, <4>1, AheadSentinel
        <4>3. k - 1 \in 1 .. Len(queue') /\ (k - 1) + 1 = k
          BY <1>2, <4>2
        <4>4. queue'[k - 1] = NULL
          BY <1>2, <4>1, <4>3
        <4>5. \A i \in 1 .. Len(queue') : queue'[i] = NULL => i = k - 1
          BY <4>3, <4>4 DEF DInv, RecvOwned
        <4>6. (CHOOSE i \in 1 .. Len(queue') : queue'[i] = NULL) = k - 1
          BY <4>3, <4>4, <4>5
        <4> QED
          BY <4>2, <4>3, <4>4, <4>6 DEF Ahead
      <3>2. CASE \A k \in 1 .. Len(queue) : queue[k] # NULL
        <4>1. ~Sealed /\ Ahead = Len(queue)
          BY <1>9, <3>2, AheadPlain
        <4>2. \A i \in 1 .. Len(queue') : queue'[i] # NULL
          <5>1. \A i \in 1 .. Len(queue') : i + 1 \in 1 .. Len(queue)
            BY <1>2
          <5> QED
            BY <1>2, <3>2, <5>1
        <4> QED
          BY <1>2, <1>5, <4>1, <4>2 DEF Ahead
      <3> QED
        BY <3>1, <3>2
    <2>3. Chan \in Seq(Packet) /\ Len(Chan) = Ahead /\ Chan[1] = data[queue[1]] /\ Chan # <<>>
      BY <2>1, ChanFacts
    <2>4. Head(Chan) = data[queue[1]]
      BY <2>3
    <2>5. Holds(recv_blk)' = Head(Chan)
      BY <1>1, <1>2, <1>9, <2>4 DEF Holds
    <2>6. Chan' = Tail(Chan)
      <3>1. /\ Tail(Chan) \in Seq(Packet)
            /\ Len(Tail(Chan)) = Ahead - 1
            /\ \A i \in 1 .. Ahead - 1 : Tail(Chan)[i] = Chan[i + 1]
        BY <2>3, TailFacts
      <3>2. Chan' = [i \in 1 .. Ahead - 1 |-> data[queue'[i]]]
        BY <1>1, <2>2 DEF Chan
      <3>3. ASSUME NEW i \in 1 .. Ahead - 1
            PROVE  data[queue'[i]] = Tail(Chan)[i]
        <4>1. i \in 1 .. Len(queue') /\ i + 1 \in 1 .. Ahead
          BY <1>2, <2>1
        <4> QED
          BY <1>2, <3>1, <4>1, ChanFacts, ZenonT(60)
      <3>4. Tail(Chan) = [i \in 1 .. Ahead - 1 |-> Tail(Chan)[i]]
        <4>1. \A q \in Seq(Packet) : q = [i \in 1 .. Len(q) |-> q[i]]
          OBVIOUS
        <4> QED
          BY <3>1, <4>1
      <3> QED
        BY <3>2, <3>3, <3>4
    <2> QED
      BY <1>3, <1>4, <2>3, <2>5, <2>6 DEF Channel!Leave
  <1> QED
    BY <1>7, <1>8, <1>9

LEMMA WriteIsLeaves ==
    ASSUME DInv, RecvWrite
    PROVE  Channel!Leaves
  <1>1. /\ receiver = "write"
        /\ data' = [data EXCEPT ![recv_blk] = NULL]
        /\ recv_blk' = NULL
        /\ UNCHANGED <<queue, callback, phase>>
    BY DEF RecvWrite, PutRecv, stopVars
  <1>2. recv_blk \in RecvBlock /\ data[recv_blk] \in Packet
    BY <1>1 DEF DInv, RecvOwned
  <1>3. \A x \in RecvBlock : x # recv_blk => data'[x] = data[x]
    BY <1>1 DEF DInv, DataTypeOK, Block
  <1>4. Chan' = Chan
    <2>1. \A i \in 1 .. Len(queue) : queue[i] # NULL =>
              queue[i] \in RecvBlock /\ queue[i] # recv_blk
      BY QueueHolds
    <2> QED
      BY <1>1, <1>3, <2>1, ChanFrame DEF Sealed
  <1>5. Arriving' = Arriving
    <2>1. \A c \in Conn : callback[c] # NULL =>
              callback[c] \in RecvBlock /\ callback[c] # recv_blk
      BY DEF DInv, DataTypeOK, RecvOwned
    <2> QED
      BY <1>1, <1>3, <2>1 DEF Arriving, Holds
  <1> QED
    BY <1>1, <1>2, <1>4, <1>5 DEF Channel!Leaves, Holds

(* Every step of the packet path is a step of the channel, or invisible. *)
LEMMA ChannelNext == DInv /\ DInv' /\ [Next]_vars => [Channel!Next]_(Channel!vars)
  <1> SUFFICES ASSUME DInv, DInv', [Next]_vars PROVE [Channel!Next]_(Channel!vars)
    OBVIOUS
  <1> USE DEF sendVars, recvVars, stopVars
  <1>1. CASE UNCHANGED vars
    BY <1>1, ChannelFrame DEF vars, Sealed
  <1>2. CASE thread_pkt_data_send \/ \E b \in SendBlock : Sent(b) \/ Canceled(b) \/ Final(b)
    <2>1. UNCHANGED <<queue, callback, recv_blk, phase>>
      BY <1>2 DEF thread_pkt_data_send, SendEnds, SendRead, SendReadError, SendDrop,
                  DatagramSend, Sent, Canceled, Final
    <2>2. \A b \in RecvBlock : data'[b] = data[b]
      <3>1. UNCHANGED data \/ \E b \in SendBlock : \E x : data' = [data EXCEPT ![b] = x]
        BY <1>2 DEF thread_pkt_data_send, SendEnds, SendRead, SendReadError, SendDrop, PutSend,
                    DatagramSend, Sent, Canceled, Final, DInv, SendOwned
      <3> QED
        BY <3>1 DEF DInv, DataTypeOK, Block
    <2> QED
      BY <2>1, <2>2, ChannelFrame DEF Sealed
  <1>3. CASE RecvLoop \/ ConnectionLost
    BY <1>3, ChannelFrame DEF RecvLoop, ConnectionLost, Sealed
  <1>4. CASE StopSend \/ JoinSend \/ StopRecv \/ JoinRecv \/ MsQuicShutdown \/ Destroy
               \/ Exit \/ UsesFreed
    <2>1. UNCHANGED <<queue, callback, recv_blk, data>> /\ UNCHANGED Sealed
      BY <1>4 DEF StopSend, JoinSend, StopRecv, JoinRecv, MsQuicShutdown, Destroy, Exit,
                  UsesFreed, CleanupStep, Sealed
    <2> QED
      BY <2>1, ChannelFrame
  <1>5. CASE PushNull
    BY <1>5, PushNullHidden
  <1>6. CASE RecvPop \/ RecvWrite
    BY <1>6, PopIsLeave, WriteIsLeaves DEF Channel!Next
  <1>7. ASSUME NEW c \in Connections, NEW b \in RecvBlock, NEW p \in Packet,
               DatagramReceived(c, b, p)
        PROVE  Channel!Next
    <2>1. c \in Conn
      BY DEF Connections
    <2> QED
      BY <1>7, <2>1, ReceivedIsArrive DEF Channel!Next
  <1>8. ASSUME NEW c \in Conn, Push(c) PROVE Channel!Next
    BY <1>8, PushIsEnter DEF Channel!Next
  <1> QED
    BY <1>1, <1>2, <1>3, <1>4, <1>5, <1>6, <1>7, <1>8
    DEF Next, Event, thread_pkt_data_recv, vpn_engine_cleanup, Terminated

(* PacketsIntactInOrder: for every number of blocks, connections and queue     *)
(* slots, what thread_pkt_data_recv writes are the packets that the            *)
(* DATAGRAM_RECEIVED events took in, unaltered, once each and in their order.  *)
THEOREM PacketsStayIntactInOrder == Spec => PacketsIntactInOrder
  <1>1. Init => Channel!Init
    <2> SUFFICES ASSUME Init PROVE Channel!Init
      OBVIOUS
    <2>1. Chan = <<>>
      BY AheadPlain DEF Init, Chan
    <2> QED
      BY <2>1 DEF Init, Channel!Init, Arriving, Holds
  <1> QED
    BY <1>1, DataInvariant, ChannelNext, PTL DEF Spec, PacketsIntactInOrder, Channel!Spec
=============================================================================
