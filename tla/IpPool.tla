------------------------------- MODULE IpPool -------------------------------
(***************************************************************************)
(* The pool of tunnel addresses: server/src/engine/ip_pool.c.              *)
(*                                                                         *)
(* The array ip_entry[] of the code is kept as the set of used entries and *)
(* a function for client.  An entry is named by its index: its address is  *)
(* the network address plus the index (ip_pool_create, line 47).  Each     *)
(* operation runs under pool->lock and is one atomic step, written as an   *)
(* operator that the modules of its callers conjoin with their own effect. *)
(***************************************************************************)
EXTENDS Integers, FiniteSets

CONSTANTS
    MaxClients,     \* pool->max_clients: the number of addresses of the subnet
    ServerIdx,      \* index of the server's own address
    NULL            \* the null pointer

ASSUME IpPoolAssumption ==
    /\ MaxClients \in Nat \ {0}
    /\ ServerIdx \in 0 .. MaxClients - 1
    /\ NULL \notin Int

VARIABLES
    ip_used,        \* the entries i with ip_entry[i].used
    ip_client,      \* ip_entry[i].client, a block of the client pool or NULL
    next_idx        \* pool->next_idx, the round-robin cursor

ipVars == <<ip_used, ip_client, next_idx>>

-----------------------------------------------------------------------------

Entry == 0 .. MaxClients - 1

(* The network address, the broadcast address and the server are never leased. *)
Reserved == {0, MaxClients - 1, ServerIdx}

Usable == Entry \ Reserved

(* client_t blocks, named by the order in which the pool allocated them; the  *)
(* client pool is created with max_clients as its cap (init_client_manager).  *)
Block == 1 .. MaxClients

IpTypeOK ==
    /\ ip_used \subseteq Entry
    /\ ip_client \in [Entry -> Block \cup {NULL}]
    /\ next_idx \in Entry

ip_pool_create ==
    /\ ip_used = Reserved
    /\ ip_client = [i \in Entry |-> NULL]
    /\ next_idx = 0

(* The index the search loop of ip_acquire looks at in its i-th round. *)
Probe(i) == (next_idx + i) % MaxClients

(* ip_acquire(pool, b) returns entry e: the first unused one from the cursor. *)
ip_acquire(b, e) ==
    /\ \E i \in Entry :
          /\ e = Probe(i)
          /\ e \notin ip_used
          /\ \A j \in 0 .. i - 1 : Probe(j) \in ip_used
    /\ ip_used' = ip_used \cup {e}
    /\ ip_client' = [ip_client EXCEPT ![e] = b]
    /\ next_idx' = (e + 1) % MaxClients

(* Mutant: the loop stops one round early. *)
ip_acquire_null_short ==
    /\ \A i \in 0 .. MaxClients - 2 : Probe(i) \in ip_used
    /\ UNCHANGED ipVars

(* ip_acquire returns NULL: every round of the loop met a used entry. *)
ip_acquire_null ==
    /\ \A i \in Entry : Probe(i) \in ip_used
    /\ UNCHANGED ipVars

(* ip_release(pool, e); a NULL entry is an early return with no effect. *)
ip_release(e) ==
    IF e = NULL
    THEN UNCHANGED ipVars
    ELSE /\ ip_used' = ip_used \ {e}
         /\ ip_client' = [ip_client EXCEPT ![e] = NULL]
         /\ UNCHANGED next_idx

(* ip_client_search for the address at offset o from the network address; an *)
(* offset below 0 or past the subnet is an address outside the tunnel.       *)
ip_client_search(o) ==
    IF o \in Entry \cap ip_used THEN ip_client[o] ELSE NULL
=============================================================================
