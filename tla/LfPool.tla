------------------------------- MODULE LfPool -------------------------------
(***************************************************************************)
(* The lock-free pool of common/inc/lf_pool.h: blocks of an arena linked   *)
(* through their headers into a free list, whose head is an index and a    *)
(* generation swapped by compare-and-exchange, and a semaphore that counts *)
(* the free blocks.                                                        *)
(*                                                                         *)
(* Each access to shared memory is a step.  The header of a block is read  *)
(* without synchronization while another thread may write it: either value *)
(* may be seen, and the exchange decides whether it is used.  in_use, read *)
(* for reports only, is counted with the exchange it follows.              *)
(*                                                                         *)
(* The generation of the head, which every exchange increments, is         *)
(* modelled by what a comparison with it tells: current[t] says that the   *)
(* one t has loaded is still that of the head.  Bound: a thread is not     *)
(* held up between load and exchange during 2^32 exchanges of others.  A   *)
(* weak exchange that fails without cause repeats its loop, which changes  *)
(* nothing, and is left out.                                               *)
(***************************************************************************)
EXTENDS Integers, FiniteSets

CONSTANTS
    Thread,     \* the threads that use the pool
    Capacity,   \* p->capacity
    NULL

VARIABLES
    next_idx,   \* next_idx[i]: the header of block i
    head,       \* the first free block
    in_use,     \* p->in_use
    blocks_sem, \* tokens, one for each block that may be taken
    pc,         \* pc[t]: where thread t is in its call
    old_head,   \* old_head[t]: the first free block as t loaded it, or NULL
    current,    \* current[t]: no exchange has taken place since
    new_idx,    \* new_idx[t]: new_head.split.next_idx of t, or NULL
    ptr         \* ptr[t]: the block t holds, or NULL

shared == <<next_idx, head, in_use, blocks_sem>>
vars == <<shared, pc, old_head, current, new_idx, ptr>>

Index == 0 .. Capacity - 1
UINT32_MAX == Capacity      \* an index beyond the arena

lf_pool_init ==
    /\ next_idx = [i \in Index |-> i + 1]
    /\ head = 0
    /\ in_use = 0
    /\ blocks_sem = Capacity
    /\ pc = [t \in Thread |-> "idle"]
    /\ old_head = [t \in Thread |-> NULL]
    /\ current = [t \in Thread |-> FALSE]
    /\ new_idx = [t \in Thread |-> NULL]
    /\ ptr = [t \in Thread |-> NULL]

Go(t, from, to) ==
    /\ pc[t] \in from
    /\ pc' = [pc EXCEPT ![t] = to]

(* A thread between its load of the head and its exchange. *)
InLoop(t) == pc[t] \in {"next", "cas", "put_link", "put_cas"}

Load(t) ==
    /\ old_head' = [old_head EXCEPT ![t] = head]
    /\ current' = [current EXCEPT ![t] = TRUE]

(* The comparison of index and generation with those t has loaded. *)
Unchanged(t) == head = old_head[t] /\ current[t]

(* Mutant: the exchange leaves the generation alone. *)
Exchange_aba(t, idx) ==
    /\ Unchanged(t)
    /\ head' = idx
    /\ old_head' = [old_head EXCEPT ![t] = NULL]
    /\ current' = [current EXCEPT ![t] = FALSE]
    /\ new_idx' = [new_idx EXCEPT ![t] = NULL]

(* The exchange succeeds, with a new generation that nobody else has loaded. *)
Exchange(t, idx) ==
    /\ Unchanged(t)
    /\ head' = idx
    /\ old_head' = [old_head EXCEPT ![t] = NULL]
    /\ current' = [u \in Thread |-> FALSE]
    /\ new_idx' = [new_idx EXCEPT ![t] = NULL]

-----------------------------------------------------------------------------
(* Taking a block *)

(* sem_trywait, or sem_wait, which returns when there is a token.  Without   *)
(* one lf_pool_try_get returns NULL.                                         *)
TakeToken(t) ==
    /\ ptr[t] = NULL
    /\ blocks_sem > 0
    /\ Go(t, {"idle"}, "load")
    /\ blocks_sem' = blocks_sem - 1
    /\ UNCHANGED <<next_idx, head, in_use, old_head, current, new_idx, ptr>>

GetLoad(t) ==
    /\ Go(t, {"load"}, "next")
    /\ Load(t)
    /\ UNCHANGED <<shared, new_idx, ptr>>

(* The header of the first free block is read.  With an empty list            *)
(* lf_pool_try_get gives its token back, and lf_pool_wait_get reads beyond    *)
(* the arena.                                                                 *)
GetNext(t) ==
    LET i == old_head[t]
    IN  /\ pc[t] = "next"
        /\ IF i = UINT32_MAX
           THEN /\ \/ Go(t, {"next"}, "idle") /\ blocks_sem' = blocks_sem + 1
                   \/ Go(t, {"next"}, "crashed") /\ UNCHANGED blocks_sem
                /\ UNCHANGED new_idx
           ELSE /\ Go(t, {"next"}, "cas")
                /\ new_idx' = [new_idx EXCEPT ![t] = next_idx[i]]
                /\ UNCHANGED blocks_sem
        /\ UNCHANGED <<next_idx, head, in_use, old_head, current, ptr>>

GetExchange(t) ==
    /\ Go(t, {"cas"}, "idle")
    /\ Exchange(t, new_idx[t])
    /\ ptr' = [ptr EXCEPT ![t] = old_head[t]]
    /\ in_use' = in_use + 1
    /\ UNCHANGED <<next_idx, blocks_sem>>

(* The exchange fails: it has loaded the head anew. *)
GetRetry(t) ==
    /\ ~Unchanged(t)
    /\ Go(t, {"cas"}, "next")
    /\ Load(t)
    /\ new_idx' = [new_idx EXCEPT ![t] = NULL]
    /\ UNCHANGED <<shared, ptr>>

-----------------------------------------------------------------------------
(* Giving a block back *)

lf_pool_put(t) ==
    /\ ptr[t] # NULL
    /\ Go(t, {"idle"}, "put_link")
    /\ Load(t)
    /\ UNCHANGED <<shared, new_idx, ptr>>

PutLink(t) ==
    /\ Go(t, {"put_link"}, "put_cas")
    /\ next_idx' = [next_idx EXCEPT ![ptr[t]] = old_head[t]]
    /\ UNCHANGED <<head, in_use, blocks_sem, old_head, current, new_idx, ptr>>

PutExchange(t) ==
    /\ Go(t, {"put_cas"}, "put_post")
    /\ Exchange(t, ptr[t])
    /\ ptr' = [ptr EXCEPT ![t] = NULL]
    /\ in_use' = in_use - 1
    /\ UNCHANGED <<next_idx, blocks_sem>>

(* Mutant: the exchange is tried again with the head it failed with. *)
PutRetry_stale(t) ==
    /\ ~Unchanged(t)
    /\ Go(t, {"put_cas"}, "put_link")
    /\ UNCHANGED <<shared, old_head, current, new_idx, ptr>>

PutRetry(t) ==
    /\ ~Unchanged(t)
    /\ Go(t, {"put_cas"}, "put_link")
    /\ Load(t)
    /\ UNCHANGED <<shared, new_idx, ptr>>

PutPost(t) ==
    /\ Go(t, {"put_post"}, "idle")
    /\ blocks_sem' = blocks_sem + 1
    /\ UNCHANGED <<next_idx, head, in_use, old_head, current, new_idx, ptr>>

-----------------------------------------------------------------------------

Call(t) == TakeToken(t) \/ lf_pool_put(t)

Step(t) ==
    \/ GetLoad(t) \/ GetNext(t) \/ GetExchange(t) \/ GetRetry(t)
    \/ PutLink(t) \/ PutExchange(t) \/ PutRetry(t) \/ PutPost(t)

Next == \E t \in Thread : Call(t) \/ Step(t)

-----------------------------------------------------------------------------
(* Properties *)

At(places) == Cardinality({t \in Thread : pc[t] \in places})

(* The n-th index of the free list. *)
FreeList ==
    LET Nth[n \in 0 .. Capacity] ==
            IF n = 0 THEN head
            ELSE IF Nth[n - 1] \in Index THEN next_idx[Nth[n - 1]] ELSE UINT32_MAX
    IN  Nth

(* The blocks that tokens, and threads on their way, say are free. *)
Tokens ==
    blocks_sem + At({"put_post", "load", "next", "cas"})

Free == {FreeList[n] : n \in 0 .. Capacity - 1} \ {UINT32_MAX}

(* However gets and puts interleave, the free list holds exactly the blocks   *)
(* nobody has, each once, and as many as there are tokens: a get that has a   *)
(* token finds a block, so the refund of lf_pool_try_get ("edge case logic    *)
(* anomaly") never happens and lf_pool_wait_get, which does not look, never   *)
(* reads beyond the arena.  in_use is the number of blocks taken.             *)
FreeListSound ==
    /\ Cardinality(Free) = Tokens
    /\ FreeList[Tokens] = UINT32_MAX
    /\ \A b \in Index :
          Cardinality({t \in Thread : ptr[t] = b}) = IF b \in Free THEN 0 ELSE 1
    /\ in_use = Capacity - Tokens

(* Lock freedom: while threads are in the loops of gets and puts, one of      *)
(* their exchanges succeeds.                                                  *)
SomeoneSucceeds ==
    []<>(\A t \in Thread : ~InLoop(t)) \/ []<><<head' # head>>_vars
=============================================================================
