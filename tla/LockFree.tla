------------------------------ MODULE LockFree ------------------------------
(***************************************************************************)
(* The objects of common/inc without a lock: the pool of lf_pool.h and the *)
(* ring of lf_queue.h.  They share nothing.                                *)
(***************************************************************************)
EXTENDS Integers, FiniteSets

CONSTANTS
    LfThread, Capacity,         \* of LfPool
    LfItem, Size, Wrap,         \* of LfQueue
    NULL

ASSUME LockFreeAssumption ==
    /\ IsFiniteSet(LfThread) /\ Capacity \in Nat \ {0} /\ NULL \notin 0 .. Capacity
    /\ Size \in Nat \ {0} /\ Wrap \in Nat /\ Wrap % Size = 0 /\ Wrap \div 2 > Size

VARIABLES
    next_idx, lfp_head, lfp_in_use, blocks_sem, lfp_pc, old_head, current, new_idx, ptr,
    ring, tail, lfq_head, items_sem, ppc, arg, cpc, entry, opc, ohead

lfpVars == <<next_idx, lfp_head, lfp_in_use, blocks_sem, lfp_pc, old_head, current, new_idx, ptr>>
lfqVars == <<ring, tail, lfq_head, items_sem, ppc, arg, cpc, entry, opc, ohead>>

LfPool == INSTANCE LfPool WITH
    Thread <- LfThread, head <- lfp_head, in_use <- lfp_in_use, pc <- lfp_pc
LfQueue == INSTANCE LfQueue WITH Item <- LfItem, head <- lfq_head

LockFreeInit == LfPool!lf_pool_init /\ LfQueue!lf_queue_init

(* Each object by itself, whatever the other does. *)
LockFreeSpec ==
    /\ LockFreeInit
    /\ [][LfPool!Next]_lfpVars
    /\ [][LfQueue!Next]_lfqVars

-----------------------------------------------------------------------------
(* Properties *)

(* However gets and puts interleave, the free list holds exactly the blocks   *)
(* nobody has, each once, and as many as there are tokens: a get that has a   *)
(* token finds a block, so the refund of lf_pool_try_get ("edge case logic    *)
(* anomaly") never happens and lf_pool_wait_get, which does not look, never   *)
(* reads beyond the arena.  in_use is the number of blocks taken.             *)
FreeListSound == LfPool!FreeListSound

(* Lock freedom: while threads are in the loops of gets and puts, one of      *)
(* their exchanges succeeds.                                                  *)
SomeoneSucceeds == LfPool!SomeoneSucceeds

(* The ring without a lock is a bounded FIFO too: pointers come out in the    *)
(* order of their publication, none lost or doubled, also when the counters   *)
(* go round; "once woken up, we are GUARANTEED an item is available".  And    *)
(* lf_queue_get_pending, which loads head before tail, never returns a        *)
(* negative number, whatever is pushed and popped between the loads, nor less *)
(* than the items that are in the ring when it returns.                       *)
LfImplementsFifo == LfQueue!LfImplementsFifo /\ []LfQueue!DepthNotBelow
=============================================================================
