----------------------------- MODULE ClientList -----------------------------
(***************************************************************************)
(* The client list and the pool of client_t blocks:                        *)
(* server/src/engine/client.c, with pool_try_get and pool_put of           *)
(* common/inc/pool.h as client.c uses them.                                *)
(*                                                                         *)
(* The fields of client_t are functions of the block.  A block keeps its   *)
(* payload while it is on the free list (pool_put only writes the header), *)
(* and the payload of a newly allocated block is uninitialised.            *)
(* list_add_client is the only caller that takes a block and holds         *)
(* client_list_lock while it does, so taking a block is one step.          *)
(***************************************************************************)
EXTENDS IpPool, Sequences

CONSTANTS
    Conn,           \* connection handles (HQUIC) of incoming connections
    Garbage         \* values an uninitialised uid may hold

ASSUME ClientListAssumption ==
    /\ NULL \notin Conn
    /\ Garbage # {} /\ Garbage \subseteq Nat

VARIABLES
    client_list,        \* session->client_list[slot]: a block or NULL
    slot_idx,           \* client->slot_idx
    uid,                \* client->uid
    ip_entry,           \* client->ip_entry: an entry or NULL
    ConnectionHandle,   \* client->ConnectionHandle: a connection or NULL
    free_list,          \* client_pool->free_list, its head first
    total_blocks,       \* client_pool->total_blocks
    client_cnt          \* session->client_cnt: the next uid

clientVars == <<slot_idx, uid, ip_entry, ConnectionHandle>>
poolVars == <<free_list, total_blocks>>
listVars == <<client_list, clientVars, poolVars, client_cnt>>

-----------------------------------------------------------------------------

ListTypeOK ==
    /\ client_list \in [Entry -> Block \cup {NULL}]
    /\ slot_idx \in [Block -> Entry]
    /\ uid \in [Block -> Nat]
    /\ ip_entry \in [Block -> Entry \cup {NULL}]
    /\ ConnectionHandle \in [Block -> Conn \cup {NULL}]
    /\ free_list \in Seq(Block)
    /\ total_blocks \in 0 .. MaxClients
    /\ client_cnt \in Nat \ {0}

(* create_session and init_client_manager *)
ListInit ==
    /\ client_list = [i \in Entry |-> NULL]
    /\ slot_idx = [b \in Block |-> 0]
    /\ uid = [b \in Block |-> 0]
    /\ ip_entry = [b \in Block |-> NULL]
    /\ ConnectionHandle = [b \in Block |-> NULL]
    /\ free_list = <<>>
    /\ total_blocks = 0
    /\ client_cnt = 1

(* pool_try_get(client_pool) returns b: recycled, or new below the cap. *)
pool_try_get(b) ==
    \/ /\ free_list # <<>>
       /\ b = Head(free_list)
       /\ free_list' = Tail(free_list)
       /\ UNCHANGED <<total_blocks, uid>>
    \/ /\ free_list = <<>>
       /\ total_blocks < MaxClients
       /\ b = total_blocks + 1
       /\ total_blocks' = total_blocks + 1
       /\ \E g \in Garbage : uid' = [uid EXCEPT ![b] = g]
       /\ UNCHANGED free_list

(* pool_try_get returns NULL: nothing to recycle, and either the pool is at *)
(* its cap or aligned_alloc fails (which takes the increment back).         *)
pool_try_get_null ==
    /\ free_list = <<>>
    /\ UNCHANGED poolVars

pool_put(b) ==
    /\ free_list' = <<b>> \o free_list
    /\ UNCHANGED total_blocks

FirstFreeSlot(idx) ==
    /\ client_list[idx] = NULL
    /\ \A j \in 0 .. idx - 1 : client_list[j] # NULL

(* Mutant: the handle is stored only in a block that has none. *)
list_add_client_stale(c, b) ==
    \E idx \in Entry :
        /\ FirstFreeSlot(idx)
        /\ pool_try_get(b)
        /\ slot_idx' = [slot_idx EXCEPT ![b] = idx]
        /\ ConnectionHandle' = [ConnectionHandle EXCEPT ![b] = IF @ = NULL THEN c ELSE @]
        /\ ip_entry' = [ip_entry EXCEPT ![b] = NULL]
        /\ client_list' = [client_list EXCEPT ![idx] = b]
        /\ UNCHANGED client_cnt

(* list_add_client(session, c) returns b.  uid is left as it is in the block. *)
list_add_client(c, b) ==
    \E idx \in Entry :
        /\ FirstFreeSlot(idx)
        /\ pool_try_get(b)
        /\ slot_idx' = [slot_idx EXCEPT ![b] = idx]
        /\ ConnectionHandle' = [ConnectionHandle EXCEPT ![b] = c]
        /\ ip_entry' = [ip_entry EXCEPT ![b] = NULL]
        /\ client_list' = [client_list EXCEPT ![idx] = b]
        /\ UNCHANGED client_cnt

(* list_add_client returns NULL: no slot, or a slot but no block. *)
list_add_client_null ==
    /\ \/ \A idx \in Entry : client_list[idx] # NULL
       \/ pool_try_get_null
    /\ UNCHANGED listVars

(* initialize_client_state in two steps: the address, then the uid. *)
initialize_client_ip(b) ==
    \E e \in Entry :
        /\ ip_acquire(b, e)
        /\ ip_entry' = [ip_entry EXCEPT ![b] = e]
        /\ UNCHANGED <<client_list, slot_idx, uid, ConnectionHandle, poolVars, client_cnt>>

(* Mutant: the counter is read but not advanced. *)
initialize_client_uid_same(b) ==
    /\ uid' = [uid EXCEPT ![b] = client_cnt]
    /\ UNCHANGED <<client_list, slot_idx, ip_entry, ConnectionHandle, poolVars, client_cnt>>

initialize_client_uid(b) ==
    /\ uid' = [uid EXCEPT ![b] = client_cnt]
    /\ client_cnt' = client_cnt + 1
    /\ UNCHANGED <<client_list, slot_idx, ip_entry, ConnectionHandle, poolVars>>

(* list_remove_client in three steps: the fields are reset without the lock, *)
(* the slot is cleared under it, the block goes back to the pool.  slot_idx  *)
(* is within bounds (ListTypeOK), so the -ERANGE return is never taken.      *)
list_remove_reset(b) ==
    /\ slot_idx' = [slot_idx EXCEPT ![b] = 0]
    /\ uid' = [uid EXCEPT ![b] = 0]
    /\ ip_entry' = [ip_entry EXCEPT ![b] = NULL]
    /\ UNCHANGED <<client_list, ConnectionHandle, poolVars, client_cnt>>

list_remove_unlink(b) ==
    /\ client_list' = [client_list EXCEPT ![slot_idx[b]] = NULL]
    /\ UNCHANGED <<clientVars, poolVars, client_cnt>>

(* Mutant: the removed client is dropped instead of put back. *)
list_remove_put_lost(b) ==
    /\ b \in Block
    /\ UNCHANGED listVars

list_remove_put(b) ==
    /\ pool_put(b)
    /\ UNCHANGED <<client_list, clientVars, client_cnt>>

(* list_find_client_by_uid(session, u): the first listed block with that uid. *)
list_find_client_by_uid(u) ==
    LET hits == {i \in Entry : client_list[i] # NULL /\ uid[client_list[i]] = u}
    IN  IF u = 0 \/ hits = {}
        THEN NULL
        ELSE client_list[CHOOSE i \in hits : \A j \in hits : i <= j]
=============================================================================
