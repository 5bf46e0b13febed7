----------------------------- MODULE ServerProofs -----------------------------
(***************************************************************************)
(* Proofs about the server's connections (ServerConn), for every number of *)
(* connections and addresses; about the control stream (ServerControl),    *)
(* which keeps their invariants, tells a client its own configuration and  *)
(* shuts down its own connection only; and about the thread that routes    *)
(* packets to clients (ServerRouting), between whose search for a client   *)
(* and use of its handle any number of callbacks may run.                  *)
(***************************************************************************)
EXTENDS ServerControl, ServerRouting, FiniteSetTheorems, WellFoundedInduction, TLAPS

(* The callbacks reach a block only through a context that was set, a block   *)
(* that is free or held was allocated, and only a connection that was given   *)
(* an address (or has just given it back) has an entry in its block.          *)
Contexts ==
    /\ \A c \in Conn : conn[c] \in Holding \cup {"s_clear", "s_close"} => ctx[c] \in Block
    /\ \A i \in 1 .. Len(free_list) : free_list[i] \in 1 .. total_blocks
    /\ \A c \in Conn : conn[c] \in Holding \ {"uid", "connected", "s_reset"}
                          => ip_entry[ctx[c]] = NULL

(* The inductive invariant. *)
IInv == TypeOK /\ Contexts /\ BlockOwnership /\ IpOwnership /\ HandleNotForeign

USE IpPoolAssumption, ClientListAssumption DEF IpPoolAssumption, ClientListAssumption

(* Taking the first block off the free list and putting one back. *)
LEMMA TailFacts ==
    ASSUME NEW S, NEW s \in Seq(S), s # <<>>
    PROVE  /\ Tail(s) \in Seq(S)
           /\ Len(s) \in Nat \ {0}
           /\ Len(Tail(s)) = Len(s) - 1
           /\ \A i \in 1 .. Len(Tail(s)) : Tail(s)[i] = s[i + 1]
           /\ Head(s) = s[1]
           /\ Head(s) \in S
  OBVIOUS

LEMMA PutFacts ==
    ASSUME NEW S, NEW s \in Seq(S), NEW b \in S
    PROVE  /\ <<b>> \o s \in Seq(S)
           /\ Len(<<b>> \o s) = Len(s) + 1
           /\ (<<b>> \o s)[1] = b
           /\ \A i \in 2 .. Len(s) + 1 : (<<b>> \o s)[i] = s[i - 1]
  OBVIOUS

LEMMA InitIInv == Init => IInv
  <1> SUFFICES ASSUME Init PROVE IInv
    OBVIOUS
  <1> USE DEF Init, ip_pool_create, ListInit, ConnInit
  <1>1. TypeOK
    BY DEF TypeOK, IpTypeOK, ListTypeOK, ConnTypeOK, Entry, Reserved, Block, ConnState
  <1>2. Contexts
    BY DEF Contexts, Holding, Resting
  <1>3. BlockOwnership
    BY DEF BlockOwnership, Holding, Resting
  <1>4. IpOwnership
    <2>1. Leased = {} /\ Usable \cap ip_used = {} /\ Reserved \subseteq Entry
      BY DEF Leased, Usable, Reserved, Entry
    <2> QED
      BY <2>1 DEF IpOwnership
  <1>5. HandleNotForeign
    BY DEF HandleNotForeign, Holding, Resting
  <1> QED
    BY <1>1, <1>2, <1>3, <1>4, <1>5 DEF IInv

-----------------------------------------------------------------------------
(* One lemma per action. *)

(* The block pool_try_get returns is nobody's, and no longer on the free list. *)
LEMMA GetFacts ==
    ASSUME IInv, NEW b \in Block, pool_try_get(b)
    PROVE  /\ free_list' \in Seq(Block)
           /\ total_blocks' \in 0 .. MaxClients
           /\ total_blocks <= total_blocks'
           /\ uid' \in [Block -> Nat]
           /\ b \in 1 .. total_blocks'
           /\ \A d \in Conn : conn[d] \in Holding => ctx[d] # b
           /\ \A i \in 1 .. Len(free_list') : free_list'[i] # b
           /\ \A i \in 1 .. Len(free_list') : \E j \in 1 .. Len(free_list) : free_list'[i] = free_list[j]
           /\ \A i, j \in 1 .. Len(free_list') : free_list'[i] = free_list'[j] => i = j
  <1> USE DEF IInv, TypeOK, ListTypeOK, Block
  <1>1. CASE free_list # <<>> /\ b = Head(free_list) /\ free_list' = Tail(free_list)
             /\ UNCHANGED <<total_blocks, uid>>
    <2>1. /\ Tail(free_list) \in Seq(Block)
          /\ Len(free_list) \in Nat \ {0}
          /\ Len(Tail(free_list)) = Len(free_list) - 1
          /\ \A i \in 1 .. Len(Tail(free_list)) : Tail(free_list)[i] = free_list[i + 1]
          /\ b = free_list[1]
      BY <1>1, TailFacts
    <2>2. b \in 1 .. total_blocks
      BY <2>1 DEF Contexts
    <2>3. \A d \in Conn : conn[d] \in Holding => ctx[d] # b
      BY <2>1 DEF BlockOwnership
    <2>4. \A i, j \in 1 .. Len(free_list) : free_list[i] = free_list[j] => i = j
      BY DEF BlockOwnership
    <2>5. /\ \A i \in 1 .. Len(free_list') : free_list'[i] # b
          /\ \A i \in 1 .. Len(free_list') : \E j \in 1 .. Len(free_list) : free_list'[i] = free_list[j]
          /\ \A i, j \in 1 .. Len(free_list') : free_list'[i] = free_list'[j] => i = j
      BY <1>1, <2>1, <2>4, SMTT(30)
    <2> QED
      BY <1>1, <2>1, <2>2, <2>3, <2>5, SMTT(30)
  <1>2. CASE free_list = <<>> /\ total_blocks < MaxClients /\ b = total_blocks + 1
             /\ total_blocks' = total_blocks + 1
             /\ (\E g \in Garbage : uid' = [uid EXCEPT ![b] = g])
             /\ UNCHANGED free_list
    <2>1. \A d \in Conn : conn[d] \in Holding => ctx[d] # b
      BY <1>2 DEF BlockOwnership
    <2> QED
      BY <1>2, <2>1
  <1> QED
    BY <1>1, <1>2 DEF pool_try_get

LEMMA NewConnectionInv ==
    ASSUME IInv, NEW c \in Conn, NewConnection(c)
    PROVE  IInv'
  <1>1. PICK b \in Block : list_add_client(c, b) /\ ctx' = [ctx EXCEPT ![c] = b]
    BY DEF NewConnection
  <1>2. PICK idx \in Entry :
            /\ pool_try_get(b)
            /\ slot_idx' = [slot_idx EXCEPT ![b] = idx]
            /\ ConnectionHandle' = [ConnectionHandle EXCEPT ![b] = c]
            /\ ip_entry' = [ip_entry EXCEPT ![b] = NULL]
            /\ client_list' = [client_list EXCEPT ![idx] = b]
            /\ UNCHANGED client_cnt
    BY <1>1 DEF list_add_client
  <1>3. /\ conn[c] = "none"
        /\ conn' = [conn EXCEPT ![c] = "listener"]
        /\ UNCHANGED <<ip_used, ip_client, next_idx, closed, refused, released>>
    BY DEF NewConnection, Go, ipVars
  <1>4. /\ free_list' \in Seq(Block)
        /\ total_blocks' \in 0 .. MaxClients
        /\ total_blocks <= total_blocks'
        /\ uid' \in [Block -> Nat]
        /\ b \in 1 .. total_blocks'
        /\ \A d \in Conn : conn[d] \in Holding => ctx[d] # b
        /\ \A i \in 1 .. Len(free_list') : free_list'[i] # b
        /\ \A i \in 1 .. Len(free_list') : \E j \in 1 .. Len(free_list) : free_list'[i] = free_list[j]
        /\ \A i, j \in 1 .. Len(free_list') : free_list'[i] = free_list'[j] => i = j
    BY <1>2, GetFacts
  <1>5. TypeOK'
    BY <1>1, <1>2, <1>3, <1>4
    DEF IInv, TypeOK, IpTypeOK, ListTypeOK, ConnTypeOK, ConnState, Block
  <1>6. Contexts'
    <2>1. \A d \in Conn : conn'[d] \in Holding \cup {"s_clear", "s_close"} => ctx'[d] \in Block
      BY <1>1, <1>3 DEF IInv, TypeOK, ConnTypeOK, Contexts
    <2>2. ASSUME NEW i \in 1 .. Len(free_list')
          PROVE  free_list'[i] \in 1 .. total_blocks'
      <3>1. PICK j \in 1 .. Len(free_list) : free_list'[i] = free_list[j]
        BY <1>4
      <3>2. free_list[j] \in 1 .. total_blocks
        BY DEF IInv, Contexts
      <3> QED
        BY <1>4, <3>1, <3>2 DEF IInv, TypeOK, ListTypeOK
    <2>3. ASSUME NEW d \in Conn, conn'[d] \in Holding \ {"uid", "connected", "s_reset"}
          PROVE  ip_entry'[ctx'[d]] = NULL
      <3>1. CASE d = c
        BY <1>1, <1>2, <3>1 DEF IInv, TypeOK, ListTypeOK, ConnTypeOK
      <3>2. CASE d # c
        <4>1. conn[d] \in Holding /\ ip_entry[ctx[d]] = NULL /\ ctx'[d] = ctx[d]
          BY <1>1, <1>3, <2>3, <3>2 DEF IInv, TypeOK, ConnTypeOK, Contexts
        <4> QED
          BY <1>2, <1>4, <2>1, <4>1 DEF IInv, TypeOK, ListTypeOK
      <3> QED
        BY <3>1, <3>2
    <2> QED
      BY <2>1, <2>2, <2>3 DEF Contexts
  <1>7. BlockOwnership'
    BY <1>1, <1>2, <1>3, <1>4, SMTT(30)
    DEF IInv, TypeOK, ListTypeOK, ConnTypeOK, BlockOwnership, Holding, Resting
  <1>8. IpOwnership'
    <2>1. Leased' = Leased
      BY <1>3 DEF Leased, IInv, TypeOK, ConnTypeOK
    <2>2. ASSUME NEW d \in Leased
          PROVE  ctx'[d] = ctx[d] /\ ip_entry'[ctx[d]] = ip_entry[ctx[d]]
      <3>1. d \in Conn /\ d # c /\ conn[d] \in Holding
        BY <1>3 DEF Leased, Holding, Resting
      <3>2. ctx[d] \in Block /\ ctx[d] # b
        BY <1>4, <3>1 DEF IInv, Contexts
      <3> QED
        BY <1>1, <1>2, <3>1, <3>2 DEF IInv, TypeOK, ListTypeOK, ConnTypeOK
    <2> QED
      BY <1>3, <2>1, <2>2 DEF IInv, IpOwnership, Usable, Reserved, Entry
  <1>9. HandleNotForeign'
    BY <1>1, <1>2, <1>3, <1>4
    DEF IInv, TypeOK, ListTypeOK, ConnTypeOK, HandleNotForeign, Holding, Resting
  <1> QED
    BY <1>5, <1>6, <1>7, <1>8, <1>9 DEF IInv

(* A step of c that moves c between two states that agree on what c holds, and *)
(* leaves the tables alone, except fields the invariant does not relate.        *)
LEMMA QuietInv ==
    ASSUME IInv, NEW c \in Conn, NEW t \in ConnState, TypeOK',
           conn' = [conn EXCEPT ![c] = t],
           UNCHANGED <<ip_used, ip_client, free_list, total_blocks, ip_entry,
                       ConnectionHandle, ctx>>,
           t \in Holding => conn[c] \in Holding,
           t \in {"s_clear", "s_close"} => conn[c] \in Holding \cup {"s_clear", "s_close"},
           t \in {"uid", "connected"} <=> conn[c] \in {"uid", "connected"},
           t \in Holding \ {"uid", "connected", "s_reset"} => ip_entry[ctx[c]] = NULL
    PROVE  IInv'
  <1> USE DEF IInv, TypeOK, ConnTypeOK
  <1>1. Contexts'
    BY DEF Contexts
  <1>2. BlockOwnership'
    BY DEF BlockOwnership
  <1>3. IpOwnership'
    <2>1. Leased' = Leased
      BY DEF Leased
    <2> QED
      BY <2>1 DEF IpOwnership, Usable, Reserved, Entry
  <1>4. HandleNotForeign'
    BY DEF HandleNotForeign
  <1> QED
    BY <1>1, <1>2, <1>3, <1>4

LEMMA NewConnectionRejectedInv ==
    ASSUME IInv, NEW c \in Conn, NewConnectionRejected(c)
    PROVE  IInv'
  <1> USE DEF NewConnectionRejected, Go, list_add_client_null, ipVars, listVars, clientVars,
              poolVars
  <1>1. TypeOK'
    BY DEF IInv, TypeOK, IpTypeOK, ListTypeOK, ConnTypeOK, ConnState
  <1> QED
    BY <1>1, QuietInv DEF ConnState, Holding, Resting

LEMMA SetConfigurationInv ==
    ASSUME IInv, NEW c \in Conn, SetConfiguration(c)
    PROVE  IInv'
  <1> USE DEF SetConfiguration, Go, ipVars, listVars, clientVars, poolVars
  <1>1. TypeOK'
    BY DEF IInv, TypeOK, IpTypeOK, ListTypeOK, ConnTypeOK, ConnState, Resting, ListenerFails
  <1>2. conn[c] = "listener" /\ ip_entry[ctx[c]] = NULL
    BY DEF IInv, Contexts, Holding
  <1>3. PICK t \in {"pending", "l_reset"} : conn' = [conn EXCEPT ![c] = t]
    OBVIOUS
  <1> QED
    BY <1>1, <1>2, <1>3, QuietInv DEF ConnState, Holding, Resting, ListenerFails

LEMMA ListenerCloseInv ==
    ASSUME IInv, NEW c \in Conn, ListenerClose(c)
    PROVE  IInv'
  <1> USE DEF ListenerClose, Go, ipVars, listVars, clientVars, poolVars
  <1>1. TypeOK'
    BY DEF IInv, TypeOK, IpTypeOK, ListTypeOK, ConnTypeOK, ConnState
  <1> QED
    BY <1>1, QuietInv DEF ConnState, Holding, Resting

LEMMA AssignUidInv ==
    ASSUME IInv, NEW c \in Conn, AssignUid(c)
    PROVE  IInv'
  <1> USE DEF AssignUid, initialize_client_uid, Go, ipVars, poolVars
  <1>1. TypeOK'
    <2>1. ctx[c] \in Block
      BY DEF IInv, Contexts, Holding
    <2> QED
      BY <2>1 DEF IInv, TypeOK, IpTypeOK, ListTypeOK, ConnTypeOK, ConnState, Resting
  <1> QED
    BY <1>1, QuietInv DEF ConnState, Holding, Resting

LEMMA CloseHandleInv ==
    ASSUME IInv, NEW c \in Conn, CloseHandle(c)
    PROVE  IInv'
  <1> USE DEF CloseHandle, Go, ipVars, listVars, clientVars, poolVars
  <1>1. TypeOK'
    <2>1. ctx[c] \in Block
      BY DEF IInv, Contexts
    <2>2. closed' \subseteq Conn
      BY <2>1 DEF IInv, TypeOK, ListTypeOK, ConnTypeOK
    <2> QED
      BY <2>2 DEF IInv, TypeOK, IpTypeOK, ListTypeOK, ConnTypeOK, ConnState
  <1> QED
    BY <1>1, QuietInv DEF ConnState, Holding, Resting

(* Two connections that hold a block hold different ones. *)
LEMMA HeldApart ==
    ASSUME IInv, NEW c \in Conn, NEW d \in Conn, c # d,
           conn[c] \in Holding, conn[d] \in Holding
    PROVE  ctx[c] \in Block /\ ctx[d] \in Block /\ ctx[c] # ctx[d]
  BY DEF IInv, Contexts, BlockOwnership

LEMMA ConnectedInv ==
    ASSUME IInv, NEW c \in Conn, Connected(c)
    PROVE  IInv'
  <1>1. PICK e \in Entry :
            /\ e \notin ip_used
            /\ ip_used' = ip_used \cup {e}
            /\ ip_client' = [ip_client EXCEPT ![e] = ctx[c]]
            /\ next_idx' = (e + 1) % MaxClients
            /\ ip_entry' = [ip_entry EXCEPT ![ctx[c]] = e]
    BY DEF Connected, initialize_client_ip, ip_acquire
  <1>2. /\ conn[c] = "pending"
        /\ conn' = [conn EXCEPT ![c] = "uid"]
        /\ UNCHANGED <<client_list, slot_idx, uid, ConnectionHandle, free_list, total_blocks,
                       client_cnt, ctx, closed, refused, released>>
    BY DEF Connected, initialize_client_ip, Go, poolVars
  <1>3. conn[c] \in Holding /\ ctx[c] \in Block
    BY <1>2 DEF IInv, Contexts, Holding, Resting
  <1>4. next_idx' \in Entry
    BY <1>1 DEF Entry
  <1>5. TypeOK'
    BY <1>1, <1>2, <1>3, <1>4
    DEF IInv, TypeOK, IpTypeOK, ListTypeOK, ConnTypeOK, ConnState
  <1>6. \A d \in Conn : conn'[d] \in Holding => conn[d] \in Holding
    BY <1>2, <1>3 DEF IInv, TypeOK, ConnTypeOK
  <1>7. \A d \in Conn \ {c} : conn[d] \in Holding => ip_entry'[ctx[d]] = ip_entry[ctx[d]]
    BY <1>1, <1>3, HeldApart DEF IInv, TypeOK, ListTypeOK
  <1>8. Contexts'
    BY <1>1, <1>2, <1>3, <1>6, <1>7 DEF IInv, TypeOK, ConnTypeOK, Contexts
  <1>9. BlockOwnership'
    BY <1>2, <1>6 DEF IInv, BlockOwnership
  <1>10. IpOwnership'
    <2>1. e \in Usable
      BY <1>1 DEF IInv, IpOwnership, Usable
    <2>2. Leased' = Leased \cup {c} /\ c \notin Leased /\ Leased \subseteq Conn
      BY <1>2 DEF Leased, IInv, TypeOK, ConnTypeOK
    <2>3. ip_entry'[ctx[c]] = e /\ ip_client'[e] = ctx[c]
      BY <1>1, <1>3 DEF IInv, TypeOK, IpTypeOK, ListTypeOK
    <2>4. \A d \in Leased : ip_entry'[ctx[d]] = ip_entry[ctx[d]]
      BY <1>7, <2>2 DEF Leased, Holding, Resting
    <2>5. \A f \in Entry \ {e} : ip_client'[f] = ip_client[f]
      BY <1>1 DEF IInv, TypeOK, IpTypeOK
    <2>6. ASSUME NEW d \in Leased'
          PROVE  LET g == ip_entry'[ctx'[d]]
                 IN  g \in Usable \cap ip_used' /\ ip_client'[g] = ctx'[d]
      BY <1>1, <1>2, <2>1, <2>2, <2>3, <2>4, <2>5 DEF IInv, IpOwnership, Usable
    <2>7. ASSUME NEW f \in Usable \cap ip_used'
          PROVE  \E d \in Leased' : ip_client'[f] = ctx'[d] /\ ip_entry'[ctx'[d]] = f
      <3>1. CASE f = e
        BY <1>2, <2>2, <2>3, <3>1
      <3>2. CASE f # e
        BY <1>1, <1>2, <2>2, <2>4, <2>5, <3>2 DEF IInv, IpOwnership, Usable
      <3> QED
        BY <3>1, <3>2
    <2>8. \A f \in Reserved : f \in ip_used' /\ ip_client'[f] = NULL
      BY <1>1, <2>1, <2>5 DEF IInv, IpOwnership, Usable, Reserved, Entry
    <2> QED
      BY <2>6, <2>7, <2>8 DEF IpOwnership, Usable, Reserved, Entry
  <1>11. HandleNotForeign'
    BY <1>2, <1>6 DEF IInv, HandleNotForeign
  <1> QED
    BY <1>5, <1>8, <1>9, <1>10, <1>11 DEF IInv

LEMMA ConnectedFullInv ==
    ASSUME IInv, NEW c \in Conn, ConnectedFull(c)
    PROVE  IInv'
  <1>1. conn[c] = "pending" /\ ctx[c] \in Block /\ ip_entry[ctx[c]] = NULL
    BY DEF ConnectedFull, Go, IInv, Contexts, Holding, Resting
  <1>2. ip_entry' = ip_entry
    BY <1>1 DEF ConnectedFull, IInv, TypeOK, ListTypeOK
  <1>3. TypeOK'
    BY <1>2 DEF ConnectedFull, ip_acquire_null, Go, ipVars, poolVars,
                IInv, TypeOK, IpTypeOK, ListTypeOK, ConnTypeOK, ConnState, Resting
  <1> QED
    BY <1>1, <1>2, <1>3, QuietInv
    DEF ConnectedFull, ip_acquire_null, Go, ipVars, poolVars, ConnState, Holding, Resting

LEMMA ShutdownCompleteInv ==
    ASSUME IInv, NEW c \in Conn, ShutdownComplete(c)
    PROVE  IInv'
  <1> DEFINE e == ip_entry[ctx[c]]
  <1>1. /\ conn[c] \in Resting
        /\ conn' = [conn EXCEPT ![c] = "s_reset"]
        /\ UNCHANGED <<next_idx, client_list, slot_idx, uid, ip_entry, ConnectionHandle,
                       free_list, total_blocks, client_cnt, ctx, closed, refused>>
    BY DEF ShutdownComplete, ip_release, ipVars, listVars, clientVars, poolVars
  <1>2. conn[c] \in Holding /\ ctx[c] \in Block
    BY <1>1 DEF IInv, Contexts, Holding
  <1>3. /\ e = NULL => UNCHANGED <<ip_used, ip_client>>
        /\ e # NULL => /\ ip_used' = ip_used \ {e}
                       /\ ip_client' = [ip_client EXCEPT ![e] = NULL]
    BY DEF ShutdownComplete, ip_release, ipVars
  <1>4. /\ e = NULL => c \notin Leased
        /\ e # NULL => /\ c \in Leased
                       /\ e \in Usable \cap ip_used
                       /\ ip_client[e] = ctx[c]
    <2>1. CASE conn[c] = "connected"
      <3>1. c \in Leased
        BY <2>1 DEF Leased
      <3> QED
        BY <3>1 DEF IInv, IpOwnership, Usable, Entry
    <2>2. CASE conn[c] # "connected"
      BY <1>1, <1>2, <2>2 DEF IInv, Contexts, Leased, Resting
    <2> QED
      BY <2>1, <2>2
  <1>5. TypeOK'
    <2>1. ip_used' \subseteq Entry /\ ip_client' \in [Entry -> Block \cup {NULL}]
      BY <1>3, <1>4 DEF IInv, TypeOK, IpTypeOK
    <2>2. released' \subseteq Conn
      BY DEF ShutdownComplete, IInv, TypeOK, ConnTypeOK
    <2>3. conn' \in [Conn -> ConnState]
      BY <1>1 DEF IInv, TypeOK, ConnTypeOK, ConnState, ShuttingDown
    <2> QED
      BY <1>1, <2>1, <2>2, <2>3 DEF IInv, TypeOK, IpTypeOK, ListTypeOK, ConnTypeOK
  <1>6. \A d \in Conn : conn'[d] \in Holding => conn[d] \in Holding
    BY <1>1, <1>2 DEF IInv, TypeOK, ConnTypeOK
  <1>7. Contexts'
    BY <1>1, <1>2, <1>6 DEF IInv, TypeOK, ConnTypeOK, Contexts
  <1>8. BlockOwnership'
    BY <1>1, <1>6 DEF IInv, BlockOwnership
  <1>9. IpOwnership'
    <2>1. Leased' = Leased \ {c} /\ Leased \subseteq Conn
      BY <1>1 DEF Leased, IInv, TypeOK, ConnTypeOK
    <2>2. \A d \in Leased : conn[d] \in Holding
      BY DEF Leased, Holding, Resting
    <2>3. CASE e = NULL
      <3>1. Leased' = Leased
        BY <1>4, <2>1, <2>3
      <3> QED
        BY <1>1, <1>3, <2>3, <3>1 DEF IInv, IpOwnership, Usable, Reserved, Entry
    <2>4. CASE e # NULL
      <3>1. \A f \in Entry \ {e} : ip_client'[f] = ip_client[f]
        BY <1>3, <2>4 DEF IInv, TypeOK, IpTypeOK
      <3>2. ASSUME NEW d \in Leased'
            PROVE  LET g == ip_entry'[ctx'[d]]
                   IN  g \in Usable \cap ip_used' /\ ip_client'[g] = ctx'[d]
        <4>1. ctx[d] # ctx[c]
          BY <1>2, <2>1, <2>2, HeldApart
        <4>2. ip_entry[ctx[d]] \in Usable \cap ip_used /\ ip_client[ip_entry[ctx[d]]] = ctx[d]
          BY <2>1 DEF IInv, IpOwnership
        <4>3. ip_entry[ctx[d]] # e
          BY <1>4, <2>4, <4>1, <4>2
        <4> QED
          BY <1>1, <1>3, <2>4, <3>1, <4>2, <4>3 DEF Usable
      <3>3. ASSUME NEW f \in Usable \cap ip_used'
            PROVE  \E d \in Leased' : ip_client'[f] = ctx'[d] /\ ip_entry'[ctx'[d]] = f
        <4>1. f \in Usable \cap ip_used /\ f # e
          BY <1>3, <2>4
        <4>2. PICK d \in Leased : ip_client[f] = ctx[d] /\ ip_entry[ctx[d]] = f
          BY <4>1 DEF IInv, IpOwnership
        <4>3. d # c
          BY <4>1, <4>2
        <4> QED
          BY <1>1, <2>1, <3>1, <4>1, <4>2, <4>3 DEF Usable
      <3>4. \A f \in Reserved : f \in ip_used' /\ ip_client'[f] = NULL
        BY <1>3, <1>4, <2>4, <3>1 DEF IInv, IpOwnership, Usable, Reserved, Entry
      <3> QED
        BY <3>2, <3>3, <3>4 DEF IpOwnership, Usable, Reserved, Entry
    <2> QED
      BY <2>3, <2>4
  <1>10. HandleNotForeign'
    BY <1>1, <1>6 DEF IInv, HandleNotForeign
  <1> QED
    BY <1>5, <1>7, <1>8, <1>9, <1>10 DEF IInv

LEMMA RemoveResetInv ==
    ASSUME IInv, NEW c \in Conn, NEW t \in {"l_unlink", "s_unlink"},
           conn[c] \in {"l_reset", "s_reset"}, conn' = [conn EXCEPT ![c] = t],
           list_remove_reset(ctx[c]),
           UNCHANGED <<ipVars, ctx, closed, refused, released>>
    PROVE  IInv'
  <1> USE DEF list_remove_reset, ipVars, poolVars
  <1>1. conn[c] \in Holding /\ ctx[c] \in Block
    BY DEF IInv, Contexts, Holding
  <1>2. TypeOK'
    BY <1>1 DEF IInv, TypeOK, IpTypeOK, ListTypeOK, ConnTypeOK, ConnState, ShuttingDown,
                ListenerFails, Entry
  <1>3. \A d \in Conn : conn'[d] \in Holding => conn[d] \in Holding
    BY <1>1 DEF IInv, TypeOK, ConnTypeOK
  <1>4. \A d \in Conn \ {c} : conn[d] \in Holding => ip_entry'[ctx[d]] = ip_entry[ctx[d]]
    BY <1>1, HeldApart DEF IInv, TypeOK, ListTypeOK
  <1>5. Contexts'
    BY <1>1, <1>3, <1>4 DEF IInv, TypeOK, ListTypeOK, ConnTypeOK, Contexts
  <1>6. BlockOwnership'
    BY <1>3 DEF IInv, BlockOwnership
  <1>7. IpOwnership'
    <2>1. Leased' = Leased /\ c \notin Leased /\ Leased \subseteq Conn
      BY DEF Leased, IInv, TypeOK, ConnTypeOK
    <2>2. \A d \in Leased : ip_entry'[ctx[d]] = ip_entry[ctx[d]]
      BY <1>4, <2>1 DEF Leased, Holding, Resting
    <2> QED
      BY <2>1, <2>2 DEF IInv, IpOwnership, Usable, Reserved, Entry
  <1>8. HandleNotForeign'
    BY <1>3 DEF IInv, HandleNotForeign
  <1> QED
    BY <1>2, <1>5, <1>6, <1>7, <1>8 DEF IInv

LEMMA RemoveUnlinkInv ==
    ASSUME IInv, NEW c \in Conn, NEW t \in {"l_put", "s_put"},
           conn[c] \in {"l_unlink", "s_unlink"}, conn' = [conn EXCEPT ![c] = t],
           list_remove_unlink(ctx[c]),
           UNCHANGED <<ipVars, ctx, closed, refused, released>>
    PROVE  IInv'
  <1> USE DEF list_remove_unlink, ipVars, poolVars, clientVars
  <1>1. conn[c] \in Holding /\ ctx[c] \in Block /\ ip_entry[ctx[c]] = NULL
    BY DEF IInv, Contexts, Holding
  <1>2. TypeOK'
    BY <1>1 DEF IInv, TypeOK, IpTypeOK, ListTypeOK, ConnTypeOK, ConnState, ShuttingDown,
                ListenerFails
  <1> QED
    BY <1>1, <1>2, QuietInv DEF ConnState, Holding, Resting, ShuttingDown, ListenerFails

LEMMA RemovePutInv ==
    ASSUME IInv, NEW c \in Conn, NEW t \in {"l_close", "s_clear"},
           conn[c] \in {"l_put", "s_put"}, conn' = [conn EXCEPT ![c] = t],
           list_remove_put(ctx[c]),
           UNCHANGED <<ipVars, ctx, closed, refused, released>>
    PROVE  IInv'
  <1> USE DEF ipVars, clientVars
  <1>1. /\ free_list' = <<ctx[c]>> \o free_list
        /\ UNCHANGED <<total_blocks, client_list, slot_idx, uid, ip_entry, ConnectionHandle,
                       client_cnt>>
    BY DEF list_remove_put, pool_put
  <1>2. conn[c] \in Holding /\ ctx[c] \in Block /\ t \notin Holding
    BY DEF IInv, Contexts, Holding, Resting
  <1>3. /\ free_list \in Seq(Block) /\ Len(free_list) \in Nat
        /\ free_list' \in Seq(Block)
        /\ Len(free_list') = Len(free_list) + 1
        /\ free_list'[1] = ctx[c]
        /\ \A i \in 2 .. Len(free_list) + 1 : free_list'[i] = free_list[i - 1]
    BY <1>1, <1>2, PutFacts DEF IInv, TypeOK, ListTypeOK
  <1>4. TypeOK'
    BY <1>1, <1>3 DEF IInv, TypeOK, IpTypeOK, ListTypeOK, ConnTypeOK, ConnState,
                      ShuttingDown, ListenerFails
  <1>5. \A d \in Conn : conn'[d] \in Holding => d # c /\ conn[d] \in Holding
    BY <1>2 DEF IInv, TypeOK, ConnTypeOK
  <1>6. Contexts'
    <2>1. \A d \in Conn : conn'[d] \in Holding \cup {"s_clear", "s_close"} => ctx'[d] \in Block
      BY <1>2 DEF IInv, TypeOK, ConnTypeOK, Contexts
    <2>2. \A i \in 1 .. Len(free_list') : free_list'[i] \in 1 .. total_blocks'
      <3>1. ctx[c] \in 1 .. total_blocks
        BY <1>2 DEF IInv, BlockOwnership
      <3> QED
        BY <1>1, <1>3, <3>1 DEF IInv, Contexts
    <2>3. \A d \in Conn : conn'[d] \in Holding \ {"uid", "connected", "s_reset"}
                             => ip_entry'[ctx'[d]] = NULL
      BY <1>1, <1>5 DEF IInv, TypeOK, ConnTypeOK, Contexts
    <2> QED
      BY <2>1, <2>2, <2>3 DEF Contexts
  <1>7. BlockOwnership'
    <2>1. ASSUME NEW d \in Conn, conn'[d] \in Holding
          PROVE  /\ ctx'[d] \in 1 .. total_blocks'
                 /\ \A i \in 1 .. Len(free_list') : free_list'[i] # ctx'[d]
                 /\ \A f \in Conn : conn'[f] \in Holding /\ ctx'[f] = ctx'[d] => f = d
      <3>1. ctx[d] # ctx[c]
        BY <1>2, <1>5, <2>1, HeldApart
      <3>2. /\ ctx[d] \in 1 .. total_blocks
            /\ \A i \in 1 .. Len(free_list) : free_list[i] # ctx[d]
            /\ \A f \in Conn : conn[f] \in Holding /\ ctx[f] = ctx[d] => f = d
        BY <1>5, <2>1 DEF IInv, BlockOwnership
      <3>3. \A i \in 1 .. Len(free_list') : free_list'[i] # ctx[d]
        BY <1>3, <3>1, <3>2, SMTT(30)
      <3> QED
        BY <1>1, <1>5, <3>2, <3>3
    <2>2. ASSUME NEW i \in 1 .. Len(free_list'), NEW j \in 1 .. Len(free_list'),
                 free_list'[i] = free_list'[j]
          PROVE  i = j
      <3>1. \A k \in 1 .. Len(free_list) : free_list[k] # ctx[c]
        BY <1>2 DEF IInv, BlockOwnership
      <3>2. \A k, l \in 1 .. Len(free_list) : free_list[k] = free_list[l] => k = l
        BY DEF IInv, BlockOwnership
      <3>3. CASE i = 1 \/ j = 1
        BY <1>3, <2>2, <3>1, <3>3
      <3>4. CASE i # 1 /\ j # 1
        <4>1. i - 1 \in 1 .. Len(free_list) /\ j - 1 \in 1 .. Len(free_list)
          BY <1>3, <3>4
        <4>2. free_list[i - 1] = free_list[j - 1]
          BY <1>3, <2>2, <3>4
        <4> QED
          BY <3>2, <4>1, <4>2
      <3> QED
        BY <3>3, <3>4
    <2> QED
      BY <2>1, <2>2 DEF BlockOwnership
  <1>8. IpOwnership'
    <2>1. Leased' = Leased
      BY DEF Leased, IInv, TypeOK, ConnTypeOK
    <2> QED
      BY <1>1, <2>1 DEF IInv, IpOwnership, Usable, Reserved, Entry
  <1>9. HandleNotForeign'
    BY <1>1, <1>5 DEF IInv, HandleNotForeign
  <1> QED
    BY <1>4, <1>6, <1>7, <1>8, <1>9 DEF IInv

LEMMA ListRemoveInv ==
    ASSUME IInv, NEW c \in Conn, ListRemove(c)
    PROVE  IInv'
  BY RemoveResetInv, RemoveUnlinkInv, RemovePutInv DEF ListRemove, Go

LEMMA ClearHandleInv ==
    ASSUME IInv, NEW c \in Conn, ClearHandle(c)
    PROVE  IInv'
  <1> USE DEF ClearHandle, Go, ipVars, poolVars
  <1>1. ctx[c] \in Block
    BY DEF IInv, Contexts
  <1>2. TypeOK'
    BY <1>1 DEF IInv, TypeOK, IpTypeOK, ListTypeOK, ConnTypeOK, ConnState, ShuttingDown
  <1>3. \A d \in Conn : conn'[d] \in Holding => d # c /\ conn[d] \in Holding
    BY DEF IInv, TypeOK, ConnTypeOK, Holding, Resting
  <1>4. Contexts'
    BY <1>1, <1>3 DEF IInv, TypeOK, ConnTypeOK, Contexts
  <1>5. BlockOwnership'
    BY <1>3 DEF IInv, BlockOwnership
  <1>6. IpOwnership'
    <2>1. Leased' = Leased
      BY DEF Leased, IInv, TypeOK, ConnTypeOK
    <2> QED
      BY <2>1 DEF IInv, IpOwnership, Usable, Reserved, Entry
  <1>7. HandleNotForeign'
    <2>1. \A b \in Block : ConnectionHandle'[b] \in {ConnectionHandle[b], NULL}
      BY <1>1 DEF IInv, TypeOK, ListTypeOK
    <2> QED
      BY <1>3, <2>1 DEF IInv, Contexts, HandleNotForeign
  <1> QED
    BY <1>2, <1>4, <1>5, <1>6, <1>7 DEF IInv

-----------------------------------------------------------------------------

LEMMA NextIInv == IInv /\ [Next]_vars => IInv'
  <1> SUFFICES ASSUME IInv, [Next]_vars PROVE IInv'
    OBVIOUS
  <1>1. CASE UNCHANGED vars
    BY <1>1 DEF vars, ipVars, listVars, clientVars, poolVars, connVars, IInv, TypeOK, IpTypeOK,
                ListTypeOK, ConnTypeOK, Contexts, BlockOwnership, IpOwnership, Leased,
                HandleNotForeign
  <1>2. ASSUME NEW c \in Conn, Event(c) PROVE IInv'
    BY <1>2, NewConnectionInv, NewConnectionRejectedInv, ConnectedInv, ConnectedFullInv,
       ShutdownCompleteInv DEF Event
  <1>3. ASSUME NEW c \in Conn, HandlerStep(c) PROVE IInv'
    BY <1>3, SetConfigurationInv, ListenerCloseInv, AssignUidInv, ListRemoveInv,
       ClearHandleInv, CloseHandleInv DEF HandlerStep
  <1> QED
    BY <1>1, <1>2, <1>3 DEF Next, Terminated

(* The inductive invariant holds of the server for every set of connections    *)
(* and every size of the subnet.                                               *)
THEOREM ServerInvariant == Spec => []IInv
  BY InitIInv, NextIInv, PTL DEF Spec

(* TypeOK: list, pool and callback states keep their types.                    *)
THEOREM TypeCorrect == Spec => []TypeOK
  <1>1. IInv => TypeOK
    BY DEF IInv
  <1> QED
    BY <1>1, ServerInvariant, PTL

(* BlockOwnership: a client_t never belongs to two live connections, nor to a  *)
(* live connection and the free list.                                          *)
THEOREM BlocksOwnedOnce == Spec => []BlockOwnership
  <1>1. IInv => BlockOwnership
    BY DEF IInv
  <1> QED
    BY <1>1, ServerInvariant, PTL

(* IpOwnership: addresses and clients point at each other, one to one.         *)
THEOREM AddressesOwnedOnce == Spec => []IpOwnership
  <1>1. IInv => IpOwnership
    BY DEF IInv
  <1> QED
    BY <1>1, ServerInvariant, PTL

(* HandleNotForeign: a live client's block never holds another's handle.       *)
THEOREM HandlesOwn == Spec => []HandleNotForeign
  <1>1. IInv => HandleNotForeign
    BY DEF IInv
  <1> QED
    BY <1>1, ServerInvariant, PTL

-----------------------------------------------------------------------------
(* No block is lost.  Each step gives one connection a block, takes one back,  *)
(* or leaves the holders, the free list and the number of blocks alone.        *)

Holders == {c \in Conn : conn[c] \in Holding}

(* NoBlockLeak counts the holders, so their set has to be known finite. *)
LeakInv == NoBlockLeak /\ IsFiniteSet(Holders)

LEMMA InitLeakInv == Init => LeakInv
  <1> SUFFICES ASSUME Init PROVE LeakInv
    OBVIOUS
  <1>1. Holders = {}
    BY DEF Init, ConnInit, Holders, Holding, Resting
  <1>2. Len(free_list) = 0 /\ total_blocks = 0
    BY DEF Init, ListInit
  <1> QED
    BY <1>1, <1>2, FS_EmptySet DEF LeakInv, NoBlockLeak, Holders

LEMMA SameHoldersLeak ==
    ASSUME IInv, LeakInv, UNCHANGED <<free_list, total_blocks>>, NEW c \in Conn, NEW t,
           conn' = [conn EXCEPT ![c] = t], t \in Holding <=> conn[c] \in Holding
    PROVE  LeakInv'
  <1>1. Holders' = Holders
    BY DEF Holders, IInv, TypeOK, ConnTypeOK
  <1> QED
    BY <1>1 DEF LeakInv, NoBlockLeak, Holders

LEMMA GetLeak ==
    ASSUME IInv, LeakInv, NEW c \in Conn, NewConnection(c)
    PROVE  LeakInv'
  <1>1. PICK b \in Block : pool_try_get(b)
    BY DEF NewConnection, list_add_client
  <1>2. conn[c] = "none" /\ conn' = [conn EXCEPT ![c] = "listener"]
    BY DEF NewConnection, Go
  <1>3. Holders' = Holders \cup {c} /\ c \notin Holders
    BY <1>2 DEF Holders, Holding, Resting, IInv, TypeOK, ConnTypeOK
  <1>4. IsFiniteSet(Holders') /\ Cardinality(Holders') = Cardinality(Holders) + 1
    BY <1>3, FS_AddElement DEF LeakInv
  <1>5. Len(free_list') - total_blocks' = Len(free_list) - total_blocks - 1
    <2>1. free_list \in Seq(Block) /\ total_blocks \in Nat
      BY DEF IInv, TypeOK, ListTypeOK
    <2>2. CASE free_list # <<>> /\ free_list' = Tail(free_list) /\ total_blocks' = total_blocks
      BY <2>1, <2>2, TailFacts
    <2>3. CASE free_list' = free_list /\ total_blocks' = total_blocks + 1
      BY <2>1, <2>3
    <2> QED
      BY <1>1, <2>2, <2>3 DEF pool_try_get
  <1>6. Cardinality(Holders) \in Nat /\ Cardinality(Holders') \in Nat
    BY <1>4, FS_CardinalityType DEF LeakInv
  <1>7. Len(free_list) \in Nat /\ total_blocks \in Nat /\ Len(free_list') \in Nat /\ total_blocks' \in Nat
    BY <1>1, GetFacts DEF IInv, TypeOK, ListTypeOK
  <1> QED
    BY <1>4, <1>5, <1>6, <1>7, SMTT(30) DEF LeakInv, NoBlockLeak, Holders

LEMMA PutLeak ==
    ASSUME IInv, LeakInv, NEW c \in Conn, NEW t \in {"l_close", "s_clear"},
           conn[c] \in {"l_put", "s_put"}, conn' = [conn EXCEPT ![c] = t],
           list_remove_put(ctx[c])
    PROVE  LeakInv'
  <1>1. Holders' = Holders \ {c} /\ c \in Holders
    BY DEF Holders, Holding, Resting, IInv, TypeOK, ConnTypeOK
  <1>2. IsFiniteSet(Holders') /\ Cardinality(Holders') = Cardinality(Holders) - 1
    BY <1>1, FS_RemoveElement DEF LeakInv
  <1>3. ctx[c] \in Block /\ free_list \in Seq(Block) /\ total_blocks \in Nat
    BY DEF IInv, TypeOK, ListTypeOK, Contexts, Holding
  <1>4. Len(free_list') = Len(free_list) + 1 /\ total_blocks' = total_blocks
    BY <1>3, PutFacts DEF list_remove_put, pool_put
  <1>5. Cardinality(Holders) \in Nat /\ Len(free_list) \in Nat
    BY <1>3, FS_CardinalityType DEF LeakInv
  <1> QED
    BY <1>2, <1>3, <1>4, <1>5 DEF LeakInv, NoBlockLeak, Holders

LEMMA ListRemoveLeak ==
    ASSUME IInv, LeakInv, NEW c \in Conn, ListRemove(c)
    PROVE  LeakInv'
  <1>1. CASE /\ Go(c, "l_reset", "l_unlink") \/ Go(c, "s_reset", "s_unlink")
             /\ list_remove_reset(ctx[c])
    BY <1>1, SameHoldersLeak DEF Go, list_remove_reset, poolVars, Holding
  <1>2. CASE /\ Go(c, "l_unlink", "l_put") \/ Go(c, "s_unlink", "s_put")
             /\ list_remove_unlink(ctx[c])
    BY <1>2, SameHoldersLeak DEF Go, list_remove_unlink, poolVars, Holding
  <1>3. CASE /\ Go(c, "l_put", "l_close") \/ Go(c, "s_put", "s_clear")
             /\ list_remove_put(ctx[c])
    BY <1>3, PutLeak DEF Go
  <1> QED
    BY <1>1, <1>2, <1>3 DEF ListRemove

LEMMA NextLeakInv == IInv /\ LeakInv /\ [Next]_vars => LeakInv'
  <1> SUFFICES ASSUME IInv, LeakInv, [Next]_vars PROVE LeakInv'
    OBVIOUS
  <1>1. CASE UNCHANGED vars
    BY <1>1 DEF vars, listVars, poolVars, connVars, LeakInv, NoBlockLeak, Holders
  <1> USE DEF Go, ipVars, listVars, poolVars, Holding, Resting
  <1>2. ASSUME NEW c \in Conn, Event(c) PROVE LeakInv'
    <2>1. CASE NewConnection(c)
      BY <2>1, GetLeak
    <2>2. CASE NewConnectionRejected(c)
      BY <2>2, SameHoldersLeak DEF NewConnectionRejected, list_add_client_null
    <2>3. CASE Connected(c)
      BY <2>3, SameHoldersLeak DEF Connected, initialize_client_ip
    <2>4. CASE ConnectedFull(c)
      BY <2>4, SameHoldersLeak DEF ConnectedFull
    <2>5. CASE ShutdownComplete(c)
      BY <2>5, SameHoldersLeak DEF ShutdownComplete
    <2> QED
      BY <1>2, <2>1, <2>2, <2>3, <2>4, <2>5 DEF Event
  <1>3. ASSUME NEW c \in Conn, HandlerStep(c) PROVE LeakInv'
    <2>1. CASE SetConfiguration(c)
      BY <2>1, SameHoldersLeak DEF SetConfiguration
    <2>2. CASE ListenerClose(c)
      BY <2>2, SameHoldersLeak DEF ListenerClose
    <2>3. CASE AssignUid(c)
      BY <2>3, SameHoldersLeak DEF AssignUid, initialize_client_uid
    <2>4. CASE ListRemove(c)
      BY <2>4, ListRemoveLeak
    <2>5. CASE ClearHandle(c)
      BY <2>5, SameHoldersLeak DEF ClearHandle
    <2>6. CASE CloseHandle(c)
      BY <2>6, SameHoldersLeak DEF CloseHandle
    <2> QED
      BY <1>3, <2>1, <2>2, <2>3, <2>4, <2>5, <2>6 DEF HandlerStep
  <1> QED
    BY <1>1, <1>2, <1>3 DEF Next, Terminated

(* NoBlockLeak: every client_t ever allocated is free or held by a connection. *)
THEOREM NoBlockLost == Spec => []NoBlockLeak
  <1>1. LeakInv => NoBlockLeak
    BY DEF LeakInv
  <1> QED
    BY <1>1, InitIInv, NextIInv, InitLeakInv, NextLeakInv, PTL DEF Spec

-----------------------------------------------------------------------------
(* The callbacks implement the address lease: every step of ServerConn is a  *)
(* step of AddressLease or leaves it unchanged.                              *)

LEMMA ModFacts ==
    ASSUME NEW n \in Nat \ {0}, NEW e \in 0 .. n - 1
    PROVE  e % n = e /\ (e + n) % n = e
  OBVIOUS

(* The search loop of ip_acquire looks at every entry. *)
LEMMA ProbeReachesAll ==
    ASSUME next_idx \in Entry, NEW e \in Entry
    PROVE  \E i \in Entry : Probe(i) = e
  <1>1. CASE e >= next_idx
    <2>1. e - next_idx \in Entry /\ next_idx + (e - next_idx) = e
      BY <1>1 DEF Entry
    <2>2. Probe(e - next_idx) = e
      BY <2>1, ModFacts DEF Probe, Entry
    <2> QED
      BY <2>1, <2>2
  <1>2. CASE e < next_idx
    <2>1. e - next_idx + MaxClients \in Entry /\ next_idx + (e - next_idx + MaxClients) = e + MaxClients
      BY <1>2 DEF Entry
    <2>2. Probe(e - next_idx + MaxClients) = e
      BY <2>1, ModFacts DEF Probe, Entry
    <2> QED
      BY <2>1, <2>2
  <1> QED
    BY <1>1, <1>2 DEF Entry

-----------------------------------------------------------------------------

(* A connection that was turned away, or gave its address back, is past its    *)
(* CONNECTED event.                                                            *)
Outcomes ==
    /\ \A c \in refused : conn[c] \in {"full", "done"} \cup ShuttingDown
    /\ \A c \in released : conn[c] \in {"done"} \cup ShuttingDown

(* OwnerOf names the connection that holds a block. *)
OwnerIs == \A c \in Conn : conn[c] \in Holding => OwnerOf(ctx[c]) = c

(* What the mapped lease of an address is. *)
LeaseIs ==
    \A e \in Usable :
        /\ e \in ip_used => /\ LeaseMap[e] \in Leased
                            /\ ip_client[e] = ctx[LeaseMap[e]]
                            /\ ip_entry[ctx[LeaseMap[e]]] = e
        /\ e \notin ip_used => LeaseMap[e] = NULL

LEMMA OwnerLemma == IInv => OwnerIs
  <1> SUFFICES ASSUME IInv, NEW c \in Conn, conn[c] \in Holding
               PROVE  OwnerOf(ctx[c]) = c
    BY DEF OwnerIs
  <1>1. \A d \in Conn : conn[d] \in Holding /\ ctx[d] = ctx[c] => d = c
    BY DEF IInv, BlockOwnership
  <1>2. OwnerOf(ctx[c]) \in Conn /\ conn[OwnerOf(ctx[c])] \in Holding /\ ctx[OwnerOf(ctx[c])] = ctx[c]
    BY DEF OwnerOf
  <1> QED
    BY <1>1, <1>2

LEMMA LeaseLemma == IInv => LeaseIs
  <1> SUFFICES ASSUME IInv, NEW e \in Usable
               PROVE  /\ e \in ip_used => /\ LeaseMap[e] \in Leased
                                          /\ ip_client[e] = ctx[LeaseMap[e]]
                                          /\ ip_entry[ctx[LeaseMap[e]]] = e
                      /\ e \notin ip_used => LeaseMap[e] = NULL
    BY DEF LeaseIs
  <1>1. CASE e \in ip_used
    <2>1. PICK c \in Leased : ip_client[e] = ctx[c] /\ ip_entry[ctx[c]] = e
      BY <1>1 DEF IInv, IpOwnership
    <2>2. c \in Conn /\ conn[c] \in Holding
      BY DEF Leased, Holding, Resting
    <2>3. LeaseMap[e] = c
      BY <1>1, <2>1, <2>2, OwnerLemma DEF LeaseMap, OwnerIs
    <2> QED
      BY <1>1, <2>1, <2>3
  <1>2. CASE e \notin ip_used
    BY <1>2 DEF LeaseMap
  <1> QED
    BY <1>1, <1>2

(* A step that keeps the entries, and the contexts of the connections that     *)
(* have an address, keeps the mapped lease.                                    *)
LEMMA LeaseFrame ==
    ASSUME IInv, IInv', UNCHANGED <<ip_used, ip_client>>,
           \A c \in Leased : c \in Leased' /\ ctx'[c] = ctx[c]
    PROVE  LeaseMap' = LeaseMap
  <1>1. OwnerIs' /\ LeaseIs
    BY OwnerLemma, LeaseLemma, PTL
  <1>2. ASSUME NEW e \in Usable, e \in ip_used
        PROVE  LeaseMap'[e] = LeaseMap[e]
    <2>1. PICK c \in Leased : LeaseMap[e] = c /\ ip_client[e] = ctx[c]
      BY <1>1, <1>2 DEF LeaseIs
    <2>2. c \in Conn /\ conn'[c] \in Holding /\ ctx'[c] = ip_client'[e]
      BY <2>1 DEF Leased, Holding, Resting
    <2>3. OwnerOf(ip_client[e])' = c
      BY <1>1, <2>2 DEF OwnerIs
    <2> QED
      BY <1>2, <2>1, <2>3 DEF LeaseMap, Usable, Reserved, Entry
  <1>3. \A e \in Usable : e \notin ip_used => LeaseMap'[e] = LeaseMap[e]
    BY DEF LeaseMap
  <1> QED
    BY <1>2, <1>3 DEF LeaseMap

-----------------------------------------------------------------------------

LEMMA OutcomesInit == Init => Outcomes
  BY DEF Init, ConnInit, Outcomes

LEMMA OutcomesNext == IInv /\ Outcomes /\ [Next]_vars => Outcomes'
  <1> SUFFICES ASSUME IInv, Outcomes, [Next]_vars PROVE Outcomes'
    OBVIOUS
  <1> USE DEF Outcomes, ShuttingDown, IInv, TypeOK, ConnTypeOK
  <1>1. CASE UNCHANGED vars
    BY <1>1 DEF vars, connVars
  <1>2. ASSUME NEW c \in Conn, ConnectedFull(c) PROVE Outcomes'
    BY <1>2 DEF ConnectedFull, Go
  <1>3. ASSUME NEW c \in Conn, ShutdownComplete(c) PROVE Outcomes'
    BY <1>3 DEF ShutdownComplete
  <1>4. ASSUME NEW c \in Conn,
               \/ NewConnection(c) \/ NewConnectionRejected(c) \/ Connected(c)
               \/ SetConfiguration(c) \/ ListenerClose(c) \/ AssignUid(c)
        PROVE  Outcomes'
    BY <1>4 DEF NewConnection, NewConnectionRejected, Connected, SetConfiguration,
                ListenerClose, AssignUid, Go
  <1>5. ASSUME NEW c \in Conn, ListRemove(c) \/ ClearHandle(c) \/ CloseHandle(c)
        PROVE  Outcomes'
    BY <1>5 DEF ListRemove, ClearHandle, CloseHandle, Go
  <1> QED
    BY <1>1, <1>2, <1>3, <1>4, <1>5 DEF Next, Event, HandlerStep, Terminated

LEMMA LeaseInit == Init => Lease!Init
  BY DEF Init, ip_pool_create, ConnInit, Lease!Init, LeaseMap, Usable

LEMMA ConnectedGrants ==
    ASSUME IInv, IInv', Outcomes, NEW c \in Conn, Connected(c)
    PROVE  Lease!Next
  <1>1. PICK e \in Entry :
            /\ e \notin ip_used
            /\ ip_used' = ip_used \cup {e}
            /\ ip_client' = [ip_client EXCEPT ![e] = ctx[c]]
    BY DEF Connected, initialize_client_ip, ip_acquire
  <1>2. conn[c] = "pending" /\ conn' = [conn EXCEPT ![c] = "uid"] /\ UNCHANGED <<ctx, refused, released>>
    BY DEF Connected, Go
  <1>3. OwnerIs' /\ LeaseIs
    BY OwnerLemma, LeaseLemma, PTL
  <1>4. e \in Usable
    BY <1>1 DEF IInv, IpOwnership, Usable
  <1>5. LeaseMap[e] = NULL
    BY <1>1, <1>3, <1>4 DEF LeaseIs
  <1>6. \A a \in Usable : LeaseMap[a] # c
    BY <1>2, <1>3 DEF LeaseIs, Leased
  <1>7. c \notin refused \cup released
    BY <1>2 DEF Outcomes, ShuttingDown
  <1>8. LeaseMap' = [LeaseMap EXCEPT ![e] = c]
    <2>1. OwnerOf(ip_client[e])' = c
      <3>1. ip_client'[e] = ctx'[c] /\ conn'[c] \in Holding
        BY <1>1, <1>2 DEF IInv, TypeOK, IpTypeOK, ConnTypeOK, Holding
      <3> QED
        BY <1>3, <3>1 DEF OwnerIs
    <2>2. ASSUME NEW a \in Usable, a # e, a \in ip_used
          PROVE  LeaseMap'[a] = LeaseMap[a]
      <3>1. PICK d \in Leased : LeaseMap[a] = d /\ ip_client[a] = ctx[d]
        BY <1>3, <2>2 DEF LeaseIs
      <3>2. d \in Conn /\ conn'[d] \in Holding /\ ctx'[d] = ip_client'[a]
        BY <1>1, <1>2, <2>2, <3>1
        DEF Leased, Holding, Resting, Usable, IInv, TypeOK, IpTypeOK, ConnTypeOK
      <3>3. OwnerOf(ip_client[a])' = d
        BY <1>3, <3>2 DEF OwnerIs
      <3> QED
        BY <1>1, <2>2, <3>1, <3>3 DEF LeaseMap, Usable, Reserved, Entry
    <2>3. \A a \in Usable : a # e /\ a \notin ip_used => LeaseMap'[a] = LeaseMap[a]
      BY <1>1 DEF LeaseMap, Usable, Reserved, Entry
    <2>4. LeaseMap'[e] = c
      BY <1>1, <1>4, <2>1 DEF LeaseMap, Usable, Reserved, Entry
    <2> QED
      BY <1>4, <2>2, <2>3, <2>4 DEF LeaseMap, Usable, Reserved, Entry
  <1>9. Lease!Grant(c, e)
    BY <1>2, <1>5, <1>6, <1>7, <1>8 DEF Lease!Grant, Lease!Holds
  <1> QED
    BY <1>4, <1>9 DEF Lease!Next

LEMMA FullRefuses ==
    ASSUME IInv, IInv', NEW c \in Conn, ConnectedFull(c)
    PROVE  Lease!Next
  <1>1. conn[c] = "pending" /\ conn' = [conn EXCEPT ![c] = "full"]
        /\ refused' = refused \cup {c}
        /\ UNCHANGED <<ip_used, ip_client, ctx, released>>
    BY DEF ConnectedFull, ip_acquire_null, Go, ipVars
  <1>2. Entry \subseteq ip_used
    BY ProbeReachesAll DEF ConnectedFull, ip_acquire_null, IInv, TypeOK, IpTypeOK
  <1>3. LeaseIs
    BY LeaseLemma
  <1>4. \A a \in Usable : LeaseMap[a] \in Leased
    BY <1>2, <1>3 DEF LeaseIs, Usable
  <1>5. \A a \in Usable : LeaseMap[a] # NULL /\ LeaseMap[a] # c
    BY <1>1, <1>4 DEF Leased
  <1>6. LeaseMap' = LeaseMap
    BY <1>1, LeaseFrame DEF Leased, IInv, TypeOK, ConnTypeOK
  <1>7. Lease!Refuse(c)
    BY <1>1, <1>5, <1>6 DEF Lease!Refuse, Lease!Holds
  <1> QED
    BY <1>7 DEF Lease!Next

LEMMA ShutdownReleases ==
    ASSUME IInv, IInv', NEW c \in Conn, ShutdownComplete(c)
    PROVE  [Lease!Next]_Lease!vars
  <1>1. /\ conn[c] \in Resting
        /\ conn' = [conn EXCEPT ![c] = "s_reset"]
        /\ UNCHANGED <<ip_entry, ctx, refused>>
    BY DEF ShutdownComplete, listVars, clientVars
  <1>2. OwnerIs' /\ LeaseIs
    BY OwnerLemma, LeaseLemma, PTL
  <1>3. CASE ip_entry[ctx[c]] = NULL
    <2>1. c \notin Leased
      BY <1>3 DEF IInv, IpOwnership, Usable, Entry
    <2>2. UNCHANGED <<ip_used, ip_client, released>>
      BY <1>3 DEF ShutdownComplete, ip_release, ipVars
    <2>3. LeaseMap' = LeaseMap
      BY <1>1, <2>1, <2>2, LeaseFrame DEF Leased, IInv, TypeOK, ConnTypeOK
    <2> QED
      BY <1>1, <2>2, <2>3 DEF Lease!vars
  <1>4. CASE ip_entry[ctx[c]] # NULL
    <2>1. PICK e \in Entry : e = ip_entry[ctx[c]]
      BY <1>1, <1>4 DEF IInv, TypeOK, ListTypeOK, Contexts, Holding
    <2>2. /\ ip_used' = ip_used \ {e}
          /\ ip_client' = [ip_client EXCEPT ![e] = NULL]
          /\ released' = released \cup {c}
      BY <1>4, <2>1 DEF ShutdownComplete, ip_release
    <2>3. c \in Leased
      BY <1>1, <1>4 DEF Leased, IInv, Contexts, Holding, Resting
    <2>4. e \in Usable /\ e \in ip_used /\ ip_client[e] = ctx[c]
      BY <2>1, <2>3 DEF IInv, IpOwnership
    <2>5. LeaseMap[e] = c
      <3>1. PICK d \in Leased : LeaseMap[e] = d /\ ip_client[e] = ctx[d]
        BY <1>2, <2>4 DEF LeaseIs
      <3>2. conn[c] \in Holding /\ conn[d] \in Holding /\ d \in Conn
        BY <1>1 DEF Leased, Holding, Resting
      <3> QED
        BY <2>4, <3>1, <3>2, HeldApart
    <2>6. LeaseMap' = [LeaseMap EXCEPT ![e] = NULL]
      <3>1. ASSUME NEW a \in Usable, a # e, a \in ip_used
            PROVE  LeaseMap'[a] = LeaseMap[a]
        <4>1. PICK d \in Leased : LeaseMap[a] = d /\ ip_client[a] = ctx[d] /\ ip_entry[ctx[d]] = a
          BY <1>2, <3>1 DEF LeaseIs
        <4>2. d # c
          BY <2>1, <3>1, <4>1
        <4>3. d \in Conn /\ conn'[d] \in Holding /\ ctx'[d] = ip_client'[a]
          BY <1>1, <2>2, <3>1, <4>1, <4>2
          DEF Leased, Holding, Resting, Usable, IInv, TypeOK, IpTypeOK, ConnTypeOK
        <4>4. OwnerOf(ip_client[a])' = d
          BY <1>2, <4>3 DEF OwnerIs
        <4> QED
          BY <2>2, <3>1, <4>1, <4>4 DEF LeaseMap, Usable, Reserved, Entry
      <3>2. \A a \in Usable : a # e /\ a \notin ip_used => LeaseMap'[a] = LeaseMap[a]
        BY <2>2 DEF LeaseMap, Usable, Reserved, Entry
      <3>3. LeaseMap'[e] = NULL
        BY <2>2, <2>4 DEF LeaseMap, Usable, Reserved, Entry
      <3> QED
        BY <2>4, <3>1, <3>2, <3>3 DEF LeaseMap, Usable, Reserved, Entry
    <2>7. Lease!Release(c, e)
      BY <1>1, <2>2, <2>5, <2>6 DEF Lease!Release
    <2> QED
      BY <2>4, <2>7 DEF Lease!Next
  <1> QED
    BY <1>3, <1>4

(* Every other step leaves the lease as it is. *)
LEMMA OthersKeep ==
    ASSUME IInv, IInv', NEW c \in Conn,
           \/ NewConnection(c) \/ NewConnectionRejected(c) \/ HandlerStep(c)
    PROVE  UNCHANGED Lease!vars
  <1>1. UNCHANGED <<ip_used, ip_client, refused, released>>
    BY DEF NewConnection, NewConnectionRejected, HandlerStep, SetConfiguration, ListenerClose,
           AssignUid, ListRemove, ClearHandle, CloseHandle, ipVars
  <1>2. \A d \in Leased : d \in Leased' /\ ctx'[d] = ctx[d]
    <2>1. CASE NewConnection(c)
      BY <2>1 DEF NewConnection, Go, Leased, IInv, TypeOK, ConnTypeOK
    <2>2. CASE NewConnectionRejected(c) \/ SetConfiguration(c) \/ ListenerClose(c) \/ AssignUid(c)
      BY <2>2 DEF NewConnectionRejected, SetConfiguration, ListenerClose, AssignUid, Go,
                  Leased, IInv, TypeOK, ConnTypeOK
    <2>3. CASE ListRemove(c) \/ ClearHandle(c) \/ CloseHandle(c)
      BY <2>3 DEF ListRemove, ClearHandle, CloseHandle, Go, Leased, IInv, TypeOK, ConnTypeOK
    <2> QED
      BY <2>1, <2>2, <2>3 DEF HandlerStep
  <1>3. LeaseMap' = LeaseMap
    BY <1>1, <1>2, LeaseFrame
  <1> QED
    BY <1>1, <1>3 DEF Lease!vars

LEMMA LeaseNext ==
    IInv /\ IInv' /\ Outcomes /\ [Next]_vars => [Lease!Next]_Lease!vars
  <1> SUFFICES ASSUME IInv, IInv', Outcomes, [Next]_vars
               PROVE  [Lease!Next]_Lease!vars
    OBVIOUS
  <1>1. CASE UNCHANGED vars
    <2>1. UNCHANGED <<ip_used, ip_client, conn, ctx, refused, released>>
      BY <1>1 DEF vars, ipVars, connVars
    <2>2. LeaseMap' = LeaseMap
      BY <2>1, LeaseFrame DEF Leased
    <2> QED
      BY <2>1, <2>2 DEF Lease!vars
  <1>2. ASSUME NEW c \in Conn, Event(c) PROVE [Lease!Next]_Lease!vars
    BY <1>2, ConnectedGrants, FullRefuses, ShutdownReleases, OthersKeep DEF Event
  <1>3. ASSUME NEW c \in Conn, HandlerStep(c) PROVE [Lease!Next]_Lease!vars
    BY <1>3, OthersKeep
  <1> QED
    BY <1>1, <1>2, <1>3 DEF Next, Terminated

(* ImplementsLease: for every number of connections and every subnet, the      *)
(* callbacks lease each address to at most one connection and answer           *)
(* SERVER_ERROR_FULL only while every usable address is leased.                *)
THEOREM ServerLeasesAddresses == Spec => ImplementsLease
  <1>1. Spec => []Outcomes
    BY OutcomesInit, OutcomesNext, ServerInvariant, PTL DEF Spec
  <1> QED
    BY <1>1, LeaseInit, LeaseNext, ServerInvariant, PTL DEF Spec, ImplementsLease, Lease!Spec

-----------------------------------------------------------------------------
(* The control stream *)

(* Before CONNECTED has been handled no stream event is delivered. *)
Early == {"none", "listener", "pending", "uid"}

(* The uids of connected clients were handed out by client_cnt, so they are    *)
(* not 0 and pairwise different, although uids in other blocks are arbitrary.  *)
UidsDiffer ==
    /\ \A c \in Conn : conn[c] = "connected" => uid[ctx[c]] \in 1 .. client_cnt - 1
    /\ \A c, d \in Conn : conn[c] = "connected" /\ conn[d] = "connected" /\ c # d
                             => uid[ctx[c]] # uid[ctx[d]]

(* Where a stream can be, given its connection, and what its handler found. *)
StreamFits ==
    \A c \in Conn :
        /\ conn[c] \in Early => stream[c] = "none"
        /\ stream[c] = "none" => found[c] = NULL
        /\ stream[c] = "reply" => found[c] \in Block

(* A client found by its own uid was told its own address. *)
ToldOwn ==
    \A c \in Conn :
        conn[c] = "connected" /\ stream[c] = "open" /\ found[c] = ctx[c]
            => resp[c] = ip_entry[ctx[c]]

(* The inductive invariant. *)
CtrlInv == CtrlTypeOK /\ UidsDiffer /\ StreamFits /\ ToldOwn

(* What a step of connection c changes of itself. *)
LEMMA OwnStep ==
    ASSUME IInv, NEW c \in Conn, Event(c) \/ HandlerStep(c)
    PROVE  /\ client_cnt' \in Nat /\ client_cnt <= client_cnt'
           /\ conn'[c] \in Early => conn[c] \in Early
           /\ conn'[c] = "connected" => /\ conn[c] = "uid"
                                        /\ ctx'[c] = ctx[c]
                                        /\ uid'[ctx[c]] = client_cnt
                                        /\ client_cnt' = client_cnt + 1
  <1> USE DEF IInv, TypeOK, ConnTypeOK, ListTypeOK, Go, Early
  <1>1. CASE AssignUid(c)
    <2>1. ctx[c] \in Block
      BY <1>1 DEF AssignUid, Contexts, Holding
    <2> QED
      BY <1>1, <2>1 DEF AssignUid, initialize_client_uid
  <1>2. CASE NewConnection(c)
    BY <1>2 DEF NewConnection, list_add_client
  <1>3. CASE NewConnectionRejected(c)
    BY <1>3 DEF NewConnectionRejected, list_add_client_null, listVars
  <1>4. CASE Connected(c)
    BY <1>4 DEF Connected, initialize_client_ip
  <1>5. CASE ConnectedFull(c)
    BY <1>5 DEF ConnectedFull
  <1>6. CASE ShutdownComplete(c)
    BY <1>6 DEF ShutdownComplete, listVars
  <1>7. CASE SetConfiguration(c) \/ ListenerClose(c) \/ ClearHandle(c) \/ CloseHandle(c)
    <2>1. CASE SetConfiguration(c)
      BY <2>1 DEF SetConfiguration, listVars
    <2>2. CASE ListenerClose(c)
      BY <2>2 DEF ListenerClose, listVars
    <2>3. CASE ClearHandle(c)
      BY <2>3 DEF ClearHandle, listVars
    <2>4. CASE CloseHandle(c)
      BY <2>4 DEF CloseHandle, listVars
    <2> QED
      BY <1>7, <2>1, <2>2, <2>3, <2>4
  <1>8. CASE ListRemove(c)
    <2>1. client_cnt' = client_cnt
      BY <1>8 DEF ListRemove, list_remove_reset, list_remove_unlink, list_remove_put
    <2>2. \E s \in {"l_unlink", "s_unlink", "l_put", "s_put", "l_close", "s_clear"} :
             conn' = [conn EXCEPT ![c] = s]
      BY <1>8 DEF ListRemove
    <2>3. conn'[c] \in {"l_unlink", "s_unlink", "l_put", "s_put", "l_close", "s_clear"}
      BY <2>2
    <2> QED
      BY <2>1, <2>3
  <1> HIDE DEF IInv, TypeOK, ConnTypeOK, ListTypeOK, Go, Early
  <1> QED
    BY <1>1, <1>2, <1>3, <1>4, <1>5, <1>6, <1>7, <1>8 DEF Event, HandlerStep

(* What a step of connection c leaves alone: the block of every other          *)
(* connection that holds one.                                                  *)
LEMMA OthersStep ==
    ASSUME IInv, NEW c \in Conn, Event(c) \/ HandlerStep(c),
           NEW d \in Conn, d # c
    PROVE  /\ conn'[d] = conn[d] /\ ctx'[d] = ctx[d]
           /\ conn[d] \in Holding => /\ uid'[ctx[d]] = uid[ctx[d]]
                                     /\ ip_entry'[ctx[d]] = ip_entry[ctx[d]]
  <1> USE DEF IInv, TypeOK, ConnTypeOK, ListTypeOK, Go
  <1>1. conn'[d] = conn[d]
    <2>1. ASSUME Event(c) PROVE conn'[d] = conn[d]
      BY <2>1 DEF Event, NewConnection, NewConnectionRejected, Connected, ConnectedFull,
                  ShutdownComplete
    <2>2. ASSUME HandlerStep(c) PROVE conn'[d] = conn[d]
      <3>1. \E s : conn' = [conn EXCEPT ![c] = s]
        BY <2>2 DEF HandlerStep, SetConfiguration, ListenerClose, AssignUid, ListRemove,
                    ClearHandle, CloseHandle
      <3> QED
        BY <3>1
    <2> QED
      BY <2>1, <2>2
  <1>2. ctx'[d] = ctx[d]
    <2>1. ASSUME Event(c) PROVE ctx'[d] = ctx[d]
      BY <2>1 DEF Event, NewConnection, NewConnectionRejected, Connected, ConnectedFull,
                  ShutdownComplete
    <2>2. ASSUME HandlerStep(c) PROVE ctx'[d] = ctx[d]
      BY <2>2 DEF HandlerStep, SetConfiguration, ListenerClose, AssignUid, ListRemove,
                  ClearHandle, CloseHandle
    <2> QED
      BY <2>1, <2>2
  <1>3. ASSUME conn[d] \in Holding
        PROVE  uid'[ctx[d]] = uid[ctx[d]] /\ ip_entry'[ctx[d]] = ip_entry[ctx[d]]
    <2>1. ctx[d] \in Block
      BY <1>3 DEF Contexts
    <2>2. CASE UNCHANGED <<uid, ip_entry>>
      BY <2>2
    <2>3. CASE NewConnection(c)
      <3>1. PICK b \in Block : list_add_client(c, b)
        BY <2>3 DEF NewConnection
      <3>2. pool_try_get(b) /\ ip_entry' = [ip_entry EXCEPT ![b] = NULL]
        BY <3>1 DEF list_add_client
      <3>3. ctx[d] # b
        BY <1>3, <3>2, GetFacts
      <3>4. uid' = uid \/ \E g \in Garbage : uid' = [uid EXCEPT ![b] = g]
        BY <3>2 DEF pool_try_get
      <3> QED
        BY <2>1, <3>2, <3>3, <3>4
    <2>4. CASE Connected(c) \/ ConnectedFull(c) \/ AssignUid(c)
               \/ /\ Go(c, "l_reset", "l_unlink") \/ Go(c, "s_reset", "s_unlink")
                  /\ list_remove_reset(ctx[c])
      <3>1. conn[c] \in Holding
        BY <2>4 DEF Connected, ConnectedFull, AssignUid, Holding, Resting
      <3>2. ctx[c] \in Block /\ ctx[c] # ctx[d]
        BY <1>3, <3>1, HeldApart
      <3> QED
        BY <2>1, <2>4, <3>2
        DEF Connected, initialize_client_ip, ConnectedFull, AssignUid, initialize_client_uid,
            list_remove_reset
    <2>5. CASE ListRemove(c)
      BY <2>2, <2>4, <2>5 DEF ListRemove, list_remove_unlink, list_remove_put, clientVars
    <2>6. CASE NewConnectionRejected(c) \/ ShutdownComplete(c) \/ SetConfiguration(c)
               \/ ListenerClose(c) \/ ClearHandle(c) \/ CloseHandle(c)
      BY <2>2, <2>6
      DEF NewConnectionRejected, list_add_client_null, ShutdownComplete, SetConfiguration,
          ListenerClose, ClearHandle, CloseHandle, listVars, clientVars
    <2> QED
      BY <2>3, <2>4, <2>5, <2>6 DEF Event, HandlerStep
  <1> QED
    BY <1>1, <1>2, <1>3

LEMMA CtrlInitInv == CtrlInit => CtrlInv
  <1> SUFFICES ASSUME CtrlInit PROVE CtrlInv
    OBVIOUS
  <1> USE DEF CtrlInit, Init, ConnInit
  <1>1. CtrlTypeOK
    BY DEF CtrlTypeOK, StreamState
  <1>2. UidsDiffer
    BY DEF UidsDiffer
  <1>3. StreamFits /\ ToldOwn
    BY DEF StreamFits, ToldOwn
  <1> QED
    BY <1>1, <1>2, <1>3 DEF CtrlInv

(* The steps of the connection's own callbacks. *)
LEMMA ConnStepInv ==
    ASSUME IInv, IInv', CtrlInv, NEW c \in Conn, ConnStep(c)
    PROVE  CtrlInv'
  <1>1. Event(c) \/ HandlerStep(c)
    BY DEF ConnStep
  <1>2. UNCHANGED <<stream, found, resp, asked, crashed>> /\ stream[c] # "reply"
    BY DEF ConnStep, ctrlVars
  <1>3. CtrlTypeOK'
    BY <1>2 DEF CtrlInv, CtrlTypeOK, Entry, Block
  <1>4. /\ client_cnt' \in Nat /\ client_cnt <= client_cnt'
        /\ conn'[c] \in Early => conn[c] \in Early
        /\ conn'[c] = "connected" => /\ conn[c] = "uid"
                                     /\ ctx'[c] = ctx[c]
                                     /\ uid'[ctx[c]] = client_cnt
                                     /\ client_cnt' = client_cnt + 1
    BY <1>1, OwnStep
  <1>5. \A d \in Conn \ {c} :
            /\ conn'[d] = conn[d] /\ ctx'[d] = ctx[d]
            /\ conn[d] \in Holding => /\ uid'[ctx[d]] = uid[ctx[d]]
                                      /\ ip_entry'[ctx[d]] = ip_entry[ctx[d]]
    BY <1>1, OthersStep
  <1>6. client_cnt \in Nat \ {0}
    BY DEF IInv, TypeOK, ListTypeOK
  <1>7. UidsDiffer'
    <2>1. ASSUME NEW d \in Conn, conn'[d] = "connected"
          PROVE  /\ uid'[ctx'[d]] \in 1 .. client_cnt' - 1
                 /\ d # c => conn[d] = "connected" /\ uid'[ctx'[d]] = uid[ctx[d]]
                                 /\ uid[ctx[d]] \in 1 .. client_cnt - 1
      <3>1. CASE d = c
        BY <1>4, <1>6, <2>1, <3>1
      <3>2. CASE d # c
        <4>1. conn[d] = "connected" /\ uid'[ctx'[d]] = uid[ctx[d]]
          BY <1>5, <2>1, <3>2 DEF Holding, Resting
        <4>2. uid[ctx[d]] \in 1 .. client_cnt - 1
          BY <4>1 DEF CtrlInv, UidsDiffer
        <4> QED
          BY <1>4, <1>6, <4>1, <4>2
      <3> QED
        BY <3>1, <3>2
    <2>2. ASSUME NEW d \in Conn, NEW e \in Conn, conn'[d] = "connected",
                 conn'[e] = "connected", d # e
          PROVE  uid'[ctx'[d]] # uid'[ctx'[e]]
      <3>1. CASE d # c /\ e # c
        <4>1. /\ conn[d] = "connected" /\ uid'[ctx'[d]] = uid[ctx[d]]
              /\ conn[e] = "connected" /\ uid'[ctx'[e]] = uid[ctx[e]]
          BY <2>1, <2>2, <3>1
        <4>2. uid[ctx[d]] # uid[ctx[e]]
          BY <2>2, <4>1 DEF CtrlInv, UidsDiffer
        <4> QED
          BY <4>1, <4>2
      <3>2. CASE d = c
        BY <1>4, <1>6, <2>1, <2>2, <3>2
      <3>3. CASE e = c
        BY <1>4, <1>6, <2>1, <2>2, <3>3
      <3> QED
        BY <3>1, <3>2, <3>3
    <2> QED
      BY <2>1, <2>2 DEF UidsDiffer
  <1>8. StreamFits'
    BY <1>2, <1>4, <1>5 DEF CtrlInv, StreamFits, Block
  <1>9. ToldOwn'
    <2> SUFFICES ASSUME NEW d \in Conn, conn'[d] = "connected", stream'[d] = "open",
                        found'[d] = ctx'[d]
                 PROVE  resp'[d] = ip_entry'[ctx'[d]]
      BY DEF ToldOwn
    <2>1. d # c
      BY <1>2, <1>4 DEF CtrlInv, StreamFits, Early
    <2>2. conn'[d] = conn[d] /\ ctx'[d] = ctx[d]
      BY <1>5, <2>1
    <2>3. conn[d] \in Holding
      BY <2>2 DEF Holding, Resting
    <2>4. ip_entry'[ctx[d]] = ip_entry[ctx[d]]
      BY <1>5, <2>1, <2>3
    <2>5. resp[d] = ip_entry[ctx[d]]
      BY <1>2, <2>2 DEF CtrlInv, ToldOwn
    <2> QED
      BY <1>2, <2>2, <2>4, <2>5
  <1> QED
    BY <1>3, <1>7, <1>8, <1>9 DEF CtrlInv

(* A set of numbers that is not empty has a least one. *)
LEMMA LeastNumber ==
    ASSUME NEW T, T \subseteq Nat, T # {}
    PROVE  \E m \in T : \A k \in T : m <= k
  <1> DEFINE R == OpToRel(<, Nat)
  <1>1. IsWellFoundedOn(R, Nat)
    BY NatLessThanWellFounded
  <1>2. \A x, y \in Nat : <<y, x>> \in R <=> y < x
    BY DEF OpToRel
  <1> HIDE DEF R
  <1>3. PICK x \in T : \A y \in T : ~(<<y, x>> \in R)
    BY <1>1, WFMin
  <1>4. ASSUME NEW k \in T PROVE x <= k
    <2>1. k \in Nat /\ x \in Nat
      OBVIOUS
    <2>2. ~(k < x)
      BY <2>1, <1>2, <1>3
    <2> QED
      BY <2>1, <2>2
  <1> QED
    BY <1>4

(* What list_find_client_by_uid returns. *)
LEMMA FindFacts ==
    ASSUME IInv, NEW u \in Nat
    PROVE  LET b == list_find_client_by_uid(u)
           IN  b \in Block \cup {NULL} /\ (b # NULL => uid[b] = u)
  <1> DEFINE hits == {i \in Entry : client_list[i] # NULL /\ uid[client_list[i]] = u}
  <1>1. CASE u = 0 \/ hits = {}
    BY <1>1 DEF list_find_client_by_uid
  <1>2. CASE ~(u = 0 \/ hits = {})
    <2> DEFINE k == CHOOSE i \in hits : \A j \in hits : i <= j
    <2>1. list_find_client_by_uid(u) = client_list[k]
      BY <1>2 DEF list_find_client_by_uid
    <2>2. \E i \in hits : \A j \in hits : i <= j
      <3>1. hits \subseteq Nat /\ hits # {}
        BY <1>2 DEF Entry
      <3> HIDE DEF hits
      <3> QED
        BY <3>1, LeastNumber
    <2>3. k \in hits
      BY <2>2
    <2> QED
      BY <2>1, <2>3 DEF IInv, TypeOK, ListTypeOK
  <1> QED
    BY <1>1, <1>2

(* The steps of the stream's callbacks leave the connections alone. *)
LEMMA StreamStepInv ==
    ASSUME IInv, CtrlInv, NEW c \in Conn, StreamStep(c)
    PROVE  CtrlInv' /\ UNCHANGED vars
  <1>1. UNCHANGED vars
    BY DEF StreamStep, PeerStreamStarted, ConfigReq, ConfigReply, PeerSendShutdown,
           StreamShutdownComplete
  <1>2. UNCHANGED <<conn, ctx, uid, ip_entry, client_cnt>>
    BY <1>1 DEF vars, connVars, listVars, clientVars
  <1>3. UidsDiffer'
    BY <1>2 DEF CtrlInv, UidsDiffer
  <1> USE DEF CtrlInv, CtrlTypeOK, StreamGo
  <1>4. CASE PeerStreamStarted(c)
    <2>1. CtrlTypeOK'
      BY <1>4 DEF PeerStreamStarted, StreamState, Block, Entry
    <2>2. stream[c] = "none" /\ found[c] = NULL /\ conn[c] \notin Early
      BY <1>4 DEF PeerStreamStarted, StreamEvent, StreamFits, Early
    <2>3. StreamFits'
      BY <1>2, <1>4, <2>2 DEF PeerStreamStarted, StreamFits, Block
    <2>4. ToldOwn'
      <3>1. conn[c] = "connected" => ctx[c] # NULL
        BY DEF IInv, Contexts, Holding, Resting, Block
      <3> QED
        BY <1>2, <1>4, <2>2, <3>1 DEF PeerStreamStarted, ToldOwn
    <2> QED
      BY <1>1, <1>3, <2>1, <2>3, <2>4
  <1>5. CASE ConfigReq(c)
    <2> DEFINE f == list_find_client_by_uid(uid[ctx[c]])
    <2>1. ctx[c] \in Block /\ conn[c] \notin Early
      BY <1>5 DEF ConfigReq, StreamEvent, IInv, Contexts, Holding, Resting, Early
    <2>2. f \in Block \cup {NULL}
      <3>1. uid[ctx[c]] \in Nat
        BY <2>1 DEF IInv, TypeOK, ListTypeOK
      <3> QED
        BY <3>1, FindFacts
    <2>3. /\ stream[c] = "open"
          /\ stream' = [stream EXCEPT ![c] = IF f = NULL THEN "open" ELSE "reply"]
          /\ found' = [found EXCEPT ![c] = f]
          /\ UNCHANGED <<resp, asked, crashed>>
      BY <1>5 DEF ConfigReq
    <2> HIDE DEF f
    <2>4. CtrlTypeOK'
      BY <2>2, <2>3 DEF StreamState, Block, Entry
    <2>5. StreamFits'
      BY <1>2, <2>1, <2>2, <2>3 DEF StreamFits, Block
    <2>6. ToldOwn'
      BY <1>2, <2>1, <2>2, <2>3 DEF ToldOwn, Block
    <2> QED
      BY <1>1, <1>3, <2>4, <2>5, <2>6
  <1>6. CASE ConfigReply(c)
    <2>1. found[c] \in Block /\ stream[c] = "reply" /\ conn[c] \notin Early
      BY <1>6 DEF ConfigReply, StreamFits
    <2>2. ip_entry[found[c]] \in Entry \cup {NULL}
      BY <2>1 DEF IInv, TypeOK, ListTypeOK
    <2>3. \/ UNCHANGED <<stream, resp>>
          \/ /\ stream' = [stream EXCEPT ![c] = "open"]
             /\ resp' = [resp EXCEPT ![c] = ip_entry[found[c]]]
          \/ stream' = [stream EXCEPT ![c] = "closing"] /\ UNCHANGED resp
      BY <1>6 DEF ConfigReply, stream_send
    <2>4. UNCHANGED <<found, asked>> /\ crashed' \in BOOLEAN
      BY <1>6 DEF ConfigReply
    <2>5. CtrlTypeOK'
      BY <2>2, <2>3, <2>4 DEF StreamState, Block, Entry
    <2>6. StreamFits'
      BY <1>2, <2>1, <2>3, <2>4 DEF StreamFits, Block
    <2>7. ToldOwn'
      BY <1>2, <2>1, <2>3, <2>4 DEF ToldOwn
    <2> QED
      BY <1>1, <1>3, <2>5, <2>6, <2>7
  <1>7. CASE PeerSendShutdown(c) \/ StreamShutdownComplete(c)
    <2>1. PICK t \in {"closing", "gone"} : stream' = [stream EXCEPT ![c] = t]
      BY <1>7 DEF PeerSendShutdown, StreamShutdownComplete
    <2>2. UNCHANGED <<found, resp, crashed>> /\ conn[c] \in {"connected", "full"}
      BY <1>7 DEF PeerSendShutdown, StreamEvent, StreamShutdownComplete
    <2>3. asked' \subseteq Conn
      <3>1. ctx[c] \in Block
        BY <2>2 DEF IInv, Contexts, Holding, Resting
      <3> QED
        BY <1>7, <3>1 DEF PeerSendShutdown, StreamShutdownComplete, IInv, TypeOK, ListTypeOK
    <2>4. CtrlTypeOK'
      BY <2>1, <2>2, <2>3 DEF StreamState, Block, Entry
    <2>5. StreamFits'
      BY <1>2, <2>1, <2>2 DEF StreamFits, Block, Early
    <2>6. ToldOwn'
      BY <1>2, <2>1, <2>2 DEF ToldOwn
    <2> QED
      BY <1>1, <1>3, <2>4, <2>5, <2>6
  <1> QED
    BY <1>4, <1>5, <1>6, <1>7 DEF StreamStep

LEMMA CtrlNextInv == IInv /\ CtrlInv /\ [CtrlNext]_allVars => IInv' /\ CtrlInv'
  <1> SUFFICES ASSUME IInv, CtrlInv, [CtrlNext]_allVars PROVE IInv' /\ CtrlInv'
    OBVIOUS
  <1>1. ASSUME NEW c \in Conn, ConnStep(c) PROVE IInv' /\ CtrlInv'
    <2>1. IInv'
      BY <1>1, NextIInv DEF ConnStep, Next
    <2> QED
      BY <1>1, <2>1, ConnStepInv
  <1>2. ASSUME NEW c \in Conn, StreamStep(c) PROVE IInv' /\ CtrlInv'
    BY <1>2, StreamStepInv, NextIInv
  <1>3. CASE UNCHANGED allVars
    <2>1. IInv'
      BY <1>3, NextIInv DEF allVars
    <2>2. UNCHANGED <<conn, ctx, uid, ip_entry, client_cnt, stream, found, resp, asked, crashed>>
      BY <1>3 DEF allVars, vars, connVars, listVars, clientVars, ctrlVars
    <2> QED
      BY <2>1, <2>2 DEF CtrlInv, CtrlTypeOK, UidsDiffer, StreamFits, ToldOwn
  <1> QED
    BY <1>1, <1>2, <1>3 DEF CtrlNext

-----------------------------------------------------------------------------

LEMMA ControlInvariant == CtrlSpec => [](IInv /\ CtrlInv)
  <1>1. CtrlInit => IInv /\ CtrlInv
    BY InitIInv, CtrlInitInv DEF CtrlInit
  <1> QED
    BY <1>1, CtrlNextInv, PTL DEF CtrlSpec

(* CtrlTypeOK: streams, lookups and responses keep their types. *)
THEOREM ControlTypes == CtrlSpec => []CtrlTypeOK
  <1>1. CtrlInv => CtrlTypeOK
    BY DEF CtrlInv
  <1> QED
    BY <1>1, ControlInvariant, PTL

(* IpOwnership is not disturbed by the stream callbacks. *)
THEOREM ControlKeepsAddresses == CtrlSpec => []IpOwnership
  <1>1. IInv => IpOwnership
    BY DEF IInv
  <1> QED
    BY <1>1, ControlInvariant, PTL

(* OwnConfiguration: process_ctrl_pkt, which looks the client up by the uid of *)
(* its context, never finds another connected client, and the address it sends *)
(* to a client it found is the one ip_acquire gave that client.                *)
THEOREM OwnConfigurationHolds == CtrlSpec => []OwnConfiguration
  <1>1. IInv /\ CtrlInv => OwnConfiguration
    <2> SUFFICES ASSUME IInv, CtrlInv PROVE OwnConfiguration
      OBVIOUS
    <2>1. ASSUME NEW c \in Conn, NEW d \in Conn, conn[c] = "connected",
                 conn[d] = "connected", c # d
          PROVE  list_find_client_by_uid(uid[ctx[c]]) # ctx[d]
      <3>1. ctx[c] \in Block /\ ctx[d] \in Block
        BY <2>1 DEF IInv, Contexts, Holding, Resting
      <3>2. uid[ctx[c]] \in Nat /\ ctx[d] # NULL
        BY <3>1 DEF IInv, TypeOK, ListTypeOK, Block
      <3>3. uid[ctx[c]] # uid[ctx[d]]
        BY <2>1 DEF CtrlInv, UidsDiffer
      <3> QED
        BY <3>2, <3>3, FindFacts
    <2> QED
      BY <2>1 DEF OwnConfiguration, CtrlInv, ToldOwn
  <1> QED
    BY <1>1, ControlInvariant, PTL

(* ShutsDownOwn: the handle ServerStreamCallback reads from its client's block *)
(* on SHUTDOWN_COMPLETE is that of the stream's own connection, or NULL.       *)
THEOREM StreamsShutDownOwn == CtrlSpec => ShutsDownOwn
  <1> DEFINE A == \A c \in Conn :
                      c \in asked' \ asked => stream[c] # "gone" /\ stream'[c] = "gone"
  <1>1. IInv /\ CtrlInv /\ [CtrlNext]_allVars => [A]_allVars
    <2> SUFFICES ASSUME IInv, CtrlInv, CtrlNext, asked' # asked PROVE A
      BY DEF allVars, ctrlVars
    <2>1. PICK d \in Conn : StreamShutdownComplete(d)
      BY DEF CtrlNext, ConnStep, StreamStep, PeerStreamStarted, ConfigReq, ConfigReply,
             PeerSendShutdown, ctrlVars, allVars
    <2>2. conn[d] \in Holding
      BY <2>1 DEF StreamShutdownComplete, Holding, Resting
    <2>3. ConnectionHandle[ctx[d]] \in {d, NULL}
      BY <2>2 DEF IInv, HandleNotForeign
    <2> QED
      BY <2>1, <2>3 DEF StreamShutdownComplete, StreamGo, CtrlInv, CtrlTypeOK
  <1> HIDE DEF A
  <1>2. CtrlSpec => [][A]_allVars
    BY <1>1, ControlInvariant, PTL DEF CtrlSpec
  <1> QED
    BY <1>2 DEF ShutsDownOwn, A

-----------------------------------------------------------------------------
(* The routing of packets *)

(* The client the thread found is the context of its addressee, and stays so:  *)
(* a context is set once, in NEW_CONNECTION, however the connection goes on.   *)
RouteInv ==
    /\ RouteTypeOK
    /\ target # NULL => /\ addressee \in Conn
                        /\ ctx[addressee] = target
                        /\ conn[addressee] # "none"

(* A connection that has come keeps its context and never is as before. *)
LEMMA ContextStays ==
    ASSUME IInv, [Next]_vars, NEW c \in Conn, conn[c] # "none"
    PROVE  ctx'[c] = ctx[c] /\ conn'[c] # "none"
  <1> USE DEF IInv, TypeOK, ConnTypeOK, Go
  <1>1. CASE UNCHANGED vars
    BY <1>1 DEF vars, connVars
  <1>2. ASSUME NEW d \in Conn, Event(d)
        PROVE  ctx'[c] = ctx[c] /\ conn'[c] # "none"
    BY <1>2 DEF Event, NewConnection, NewConnectionRejected, Connected, ConnectedFull,
                ShutdownComplete
  <1>3. ASSUME NEW d \in Conn, HandlerStep(d)
        PROVE  ctx'[c] = ctx[c] /\ conn'[c] # "none"
    BY <1>3 DEF HandlerStep, SetConfiguration, ListenerClose, AssignUid, ListRemove,
                ClearHandle, CloseHandle
  <1> QED
    BY <1>1, <1>2, <1>3 DEF Next, Terminated

(* What ip_client_search returns: the context of the one connection that holds *)
(* the address, which OwnerOf names.                                           *)
LEMMA SearchFacts ==
    ASSUME IInv, NEW o, ip_client_search(o) # NULL
    PROVE  /\ ip_client_search(o) \in Block
           /\ OwnerOf(ip_client_search(o)) \in Leased
           /\ ctx[OwnerOf(ip_client_search(o))] = ip_client_search(o)
  <1>1. o \in Entry \cap ip_used /\ ip_client_search(o) = ip_client[o]
    BY DEF ip_client_search
  <1>2. o \in Usable
    BY <1>1 DEF IInv, IpOwnership, Usable
  <1>3. PICK c \in Leased : ip_client[o] = ctx[c]
    BY <1>1, <1>2 DEF IInv, IpOwnership
  <1>4. c \in Conn /\ conn[c] \in Holding
    BY DEF Leased, Holding, Resting
  <1>5. OwnerOf(ctx[c]) = c /\ ctx[c] \in Block
    BY <1>4, OwnerLemma DEF OwnerIs, IInv, Contexts
  <1> QED
    BY <1>1, <1>3, <1>5

LEMMA RouteNextInv == IInv /\ RouteInv /\ [RouteNext]_routingVars => IInv' /\ RouteInv'
  <1> SUFFICES ASSUME IInv, RouteInv, [RouteNext]_routingVars PROVE IInv' /\ RouteInv'
    OBVIOUS
  <1>1. CASE [Next]_vars /\ UNCHANGED routeVars
    <2>1. IInv'
      BY <1>1, NextIInv
    <2>2. RouteTypeOK'
      BY <1>1 DEF routeVars, RouteInv, RouteTypeOK, Block
    <2>3. target' # NULL => /\ addressee' \in Conn
                            /\ ctx'[addressee'] = target'
                            /\ conn'[addressee'] # "none"
      BY <1>1, ContextStays DEF routeVars, RouteInv
    <2> QED
      BY <2>1, <2>2, <2>3 DEF RouteInv
  <1>2. ASSUME NEW o \in -1 .. MaxClients, Search(o) PROVE IInv' /\ RouteInv'
    <2>1. UNCHANGED vars
      BY <1>2 DEF Search
    <2>2. IInv' /\ UNCHANGED <<conn, ctx>>
      BY <2>1, NextIInv DEF vars, connVars
    <2>3. CASE ip_client_search(o) = NULL
      BY <1>2, <2>2, <2>3 DEF Search, RouteInv, RouteTypeOK, Block
    <2>4. CASE ip_client_search(o) # NULL
      <3>1. target' \in Block /\ addressee' \in Leased /\ ctx[addressee'] = target'
        BY <1>2, <2>4, SearchFacts DEF Search
      <3>2. addressee' \in Conn /\ conn[addressee'] # "none"
        BY <3>1 DEF Leased
      <3> QED
        BY <1>2, <2>2, <3>1, <3>2 DEF Search, RouteInv, RouteTypeOK, Block
    <2> QED
      BY <2>3, <2>4
  <1>3. CASE Send
    <2>1. UNCHANGED vars /\ target' = NULL /\ addressee' = NULL
      BY <1>3 DEF Send
    <2>2. sent' \subseteq Conn \X Conn
      <3>1. ConnectionHandle[target] \in Conn \cup {NULL}
        BY <1>3 DEF Send, RouteInv, RouteTypeOK, IInv, TypeOK, ListTypeOK
      <3> QED
        BY <1>3, <3>1 DEF Send, RouteInv, RouteTypeOK
    <2> QED
      BY <2>1, <2>2, NextIInv DEF RouteInv, RouteTypeOK
  <1> QED
    BY <1>1, <1>2, <1>3 DEF RouteNext, routingVars

LEMMA RouteInvariant == RouteSpec => [](IInv /\ RouteInv)
  <1>1. RouteInit => IInv /\ RouteInv
    BY InitIInv DEF RouteInit, RouteInv, RouteTypeOK
  <1> QED
    BY <1>1, RouteNextInv, PTL DEF RouteSpec

(* RouteTypeOK: what thread_pkt_data_send holds is a block or nothing.         *)
THEOREM RouteTypes == RouteSpec => []RouteTypeOK
  <1>1. RouteInv => RouteTypeOK
    BY DEF RouteInv
  <1> QED
    BY <1>1, RouteInvariant, PTL

(* RouteWhileAlive: the handle thread_pkt_data_send reads from the client it   *)
(* found is the addressee's or NULL, as long as the addressee keeps its block, *)
(* whatever callbacks ran since the search.                                    *)
THEOREM RoutesWhileAlive == RouteSpec => []RouteWhileAlive
  <1>1. IInv /\ RouteInv => RouteWhileAlive
    BY DEF IInv, HandleNotForeign, RouteInv, RouteWhileAlive
  <1> QED
    BY <1>1, RouteInvariant, PTL

(* Every datagram whose handle was read while the addressee kept its block     *)
(* goes to the addressee: Send adds a pair of two different connections only   *)
(* after the block was put back.                                               *)
THEOREM MisroutedOnlyAfterPut ==
    RouteSpec => [][\A p \in sent' \ sent :
                        conn[addressee] \in Holding => p[1] = p[2]]_routingVars
  <1> DEFINE A == \A p \in sent' \ sent : conn[addressee] \in Holding => p[1] = p[2]
  <1>1. IInv /\ RouteInv /\ [RouteNext]_routingVars => [A]_routingVars
    <2> SUFFICES ASSUME IInv, RouteInv, RouteNext PROVE A
      OBVIOUS
    <2>1. CASE Send
      BY <2>1 DEF Send, IInv, HandleNotForeign, RouteInv
    <2>2. CASE sent' = sent
      BY <2>2
    <2> QED
      BY <2>1, <2>2 DEF RouteNext, routeVars, Search
  <1> HIDE DEF A
  <1>2. RouteSpec => [][A]_routingVars
    BY <1>1, RouteInvariant, PTL DEF RouteSpec
  <1> QED
    BY <1>2 DEF A
=============================================================================
