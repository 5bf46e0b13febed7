-------------------------------- MODULE Pool --------------------------------
(***************************************************************************)
(* The block pool of common/inc/pool.h (POSIX build): a stack of recycled  *)
(* blocks, a cap, and a condition variable for callers of pool_wait_get.   *)
(*                                                                         *)
(* What runs under p->lock is one step.  A call that has to allocate gives *)
(* the lock up around aligned_alloc: total_blocks is counted before, and   *)
(* in_use after it.  A block may be put back by any thread, as the msquic  *)
(* callbacks do with the packets of the sending thread.                    *)
(***************************************************************************)
EXTENDS Integers, Sequences, FiniteSets

CONSTANTS
    Thread,     \* the threads that use the pool
    Cap,        \* p->cap, 0 for no limit
    Memory      \* the blocks aligned_alloc can return; it fails beyond them

ASSUME PoolAssumption ==
    /\ Cap \in Nat
    /\ IsFiniteSet(Thread)
    /\ IsFiniteSet(Memory)

VARIABLES
    free_list,      \* the recycled blocks, top first
    total_blocks,   \* p->total_blocks
    in_use,         \* p->in_use
    out,            \* the blocks callers hold
    pc              \* pc[t]: where thread t is in its call

vars == <<free_list, total_blocks, in_use, out, pc>>

-----------------------------------------------------------------------------

OnList(b) == \E i \in 1 .. Len(free_list) : free_list[i] = b

(* Type invariant of the pool. *)
PoolTypeOK ==
    /\ free_list \in Seq(Memory)
    /\ total_blocks \in Nat
    /\ in_use \in Nat
    /\ out \subseteq Memory
    /\ pc \in [Thread -> {"idle", "alloc", "waiting", "woken"}]

pool_init ==
    /\ free_list = <<>>
    /\ total_blocks = 0
    /\ in_use = 0
    /\ out = {}
    /\ pc = [t \in Thread |-> "idle"]

Go(t, from, to) ==
    /\ pc[t] \in from
    /\ pc' = [pc EXCEPT ![t] = to]

HasRoom == Cap = 0 \/ total_blocks < Cap

-----------------------------------------------------------------------------

(* The top of the free list is handed out. *)
Recycle(t, from) ==
    /\ free_list # <<>>
    /\ Go(t, from, "idle")
    /\ free_list' = Tail(free_list)
    /\ out' = out \cup {Head(free_list)}
    /\ in_use' = in_use + 1
    /\ UNCHANGED total_blocks

(* A new block is counted, and the lock given up to allocate it. *)
Reserve(t, from) ==
    /\ free_list = <<>>
    /\ HasRoom
    /\ Go(t, from, "alloc")
    /\ total_blocks' = total_blocks + 1
    /\ UNCHANGED <<free_list, in_use, out>>

(* With neither, pool_try_get returns NULL (EAGAIN) and changes nothing. *)
pool_try_get(t) == Recycle(t, {"idle"}) \/ Reserve(t, {"idle"})

Wait(t) ==
    /\ free_list = <<>>
    /\ ~HasRoom
    /\ Go(t, {"idle", "woken"}, "waiting")
    /\ UNCHANGED <<free_list, total_blocks, in_use, out>>

(* One round of the loop of pool_wait_get, entered or after a wake-up. *)
pool_wait_get(t) ==
    \/ Recycle(t, {"idle", "woken"})
    \/ Reserve(t, {"idle", "woken"})
    \/ Wait(t)

(* aligned_alloc returned a block that is nowhere in use. *)
Allocated(t) ==
    /\ Go(t, {"alloc"}, "idle")
    /\ \E b \in Memory :
          /\ b \notin out
          /\ ~OnList(b)
          /\ out' = out \cup {b}
    /\ in_use' = in_use + 1
    /\ UNCHANGED <<free_list, total_blocks>>

(* Mutant: the count is not taken back. *)
AllocFailed_kept(t) ==
    /\ Go(t, {"alloc"}, "idle")
    /\ UNCHANGED <<free_list, total_blocks, in_use, out>>

(* aligned_alloc failed: the count is taken back, and nobody is told. *)
AllocFailed(t) ==
    /\ Go(t, {"alloc"}, "idle")
    /\ total_blocks' = total_blocks - 1
    /\ UNCHANGED <<free_list, in_use, out>>

(* pthread_cond_signal: one of the waiters is woken, if there is one. *)
Signal ==
    IF \E w \in Thread : pc[w] = "waiting"
    THEN \E w \in Thread : Go(w, {"waiting"}, "woken")
    ELSE UNCHANGED pc

(* Mutant: nobody is signalled. *)
pool_put_silent(b) ==
    /\ b \in out
    /\ out' = out \ {b}
    /\ in_use' = in_use - 1
    /\ free_list' = <<b>> \o free_list
    /\ UNCHANGED <<total_blocks, pc>>

pool_put(b) ==
    /\ b \in out
    /\ out' = out \ {b}
    /\ in_use' = in_use - 1
    /\ free_list' = <<b>> \o free_list
    /\ Signal
    /\ UNCHANGED total_blocks

(* POSIX lets a wait on a condition return without a signal. *)
SpuriousWakeup(t) ==
    /\ Go(t, {"waiting"}, "woken")
    /\ UNCHANGED <<free_list, total_blocks, in_use, out>>

-----------------------------------------------------------------------------

(* What a thread inside a call does next. *)
Step(t) ==
    \/ pc[t] = "woken" /\ pool_wait_get(t)
    \/ Allocated(t)
    \/ AllocFailed(t)

Next ==
    \/ \E t \in Thread :
          \/ pool_try_get(t)
          \/ pool_wait_get(t)
          \/ Allocated(t)
          \/ AllocFailed(t)
          \/ SpuriousWakeup(t)
    \/ \E b \in Memory : pool_put(b)

(* A thread that is not waiting goes on with its call. *)
Spec == pool_init /\ [][Next]_vars /\ \A t \in Thread : WF_vars(Step(t))

-----------------------------------------------------------------------------
(* Properties *)

At(place) == {t \in Thread : pc[t] = place}

(* Each counted block is free, held, or being allocated, and the pool never   *)
(* has more of them than its cap.  in_use is the number of blocks held, so    *)
(* the underflow check of pool_put never fires for blocks put back once.      *)
BlocksAccounted ==
    /\ total_blocks = Len(free_list) + Cardinality(out) + Cardinality(At("alloc"))
    /\ in_use = Cardinality(out)
    /\ Cap # 0 => total_blocks <= Cap

(* No block is on the free list twice, or both free and held: the pool never  *)
(* hands the same block to two callers.                                       *)
BlocksApart ==
    /\ \A b \in out : ~OnList(b)
    /\ \A i, j \in 1 .. Len(free_list) : free_list[i] = free_list[j] => i = j

(* While a caller sleeps, every free block has a woken caller on its way to   *)
(* it: the signal of pool_put is never lost, whoever takes the block first.   *)
NoLostWakeup ==
    At("waiting") # {} => Len(free_list) <= Cardinality(At("woken"))

(* Callers do not go on sleeping beside free blocks: they are woken, or       *)
(* others take the blocks; threads woken before leave none behind.            *)
FreeBlockWakesWaiter ==
    []<>(At("waiting") = {} \/ free_list = <<>>)
=============================================================================
