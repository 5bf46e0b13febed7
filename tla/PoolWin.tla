------------------------------- MODULE PoolWin -------------------------------
(***************************************************************************)
(* The Windows half of common/inc/pool.h.  Unlike the POSIX pool it asks   *)
(* malloc for a block outside the critical section: total_blocks does not  *)
(* count blocks that are being allocated, `allocators' counts the threads  *)
(* that allocate.  What runs inside p->lock is one step.  Getters and      *)
(* pool_destroy sleep on the same condition variable.                      *)
(***************************************************************************)
EXTENDS Naturals, FiniteSets

CONSTANTS
    User,       \* the threads that get and put blocks
    Destroyer,  \* the thread that calls pool_destroy
    Cap         \* p->cap, 0 for no limit; bound: with no limit, User's blocks

VARIABLES
    total_blocks, in_use, allocators,   \* the fields of pool_t
    free_list,                          \* how many blocks the free list holds
    win_pc,                             \* win_pc[t]: where thread t is
    out                                 \* out[t]: t has a block

winVars == <<total_blocks, in_use, allocators, free_list, win_pc, out>>

Threads == User \cup {Destroyer}

win_pool_init ==
    /\ total_blocks = 0 /\ in_use = 0 /\ allocators = 0 /\ free_list = 0
    /\ win_pc = [t \in Threads |-> "idle"]
    /\ out = [t \in User |-> FALSE]

Sleeping == {t \in Threads : win_pc[t] \in {"no_block", "no_memory", "destroying"}}
Woken == {t \in Threads : win_pc[t] = "woken"}
AtCap == Cap # 0 /\ total_blocks >= Cap

(* WakeAllConditionVariable, by t, which goes on at pc. *)
WakeAll(t, pc) ==
    win_pc' = [u \in Threads |-> IF u = t THEN pc ELSE IF u \in Sleeping THEN "woken" ELSE win_pc[u]]

Recycle(t) ==
    /\ free_list > 0
    /\ free_list' = free_list - 1
    /\ in_use' = in_use + 1
    /\ out' = [out EXCEPT ![t] = TRUE]
    /\ win_pc' = [win_pc EXCEPT ![t] = "idle"]
    /\ UNCHANGED <<total_blocks, allocators>>

(* The lock is given up for the call of malloc. *)
Allocate(t, pc) ==
    /\ free_list = 0
    /\ ~AtCap
    /\ allocators' = allocators + 1
    /\ win_pc' = [win_pc EXCEPT ![t] = pc]
    /\ UNCHANGED <<total_blocks, in_use, free_list, out>>

(* Nobody calls a pool that is being destroyed; calls may still be in malloc. *)
Idle(t) == win_pc[t] = "idle" /\ ~out[t] /\ win_pc[Destroyer] = "idle"

(* It says ERROR_BUSY, and changes nothing, when the cap is reached. *)
win_try_get(t) ==
    /\ Idle(t)
    /\ Recycle(t) \/ Allocate(t, "try_malloc")

(* The loop of pool_wait_get, entered or after a wake-up. *)
win_wait_get(t) ==
    /\ Idle(t) \/ (win_pc[t] = "woken" /\ win_pc[Destroyer] # "destroyed")
    /\ \/ Recycle(t)
       \/ Allocate(t, "wait_malloc")
       \/ /\ free_list = 0
          /\ AtCap
          /\ win_pc' = [win_pc EXCEPT ![t] = "no_block"]
          /\ UNCHANGED <<total_blocks, in_use, allocators, free_list, out>>

(* malloc has no memory.  pool_wait_get sleeps, without another look at the   *)
(* free list.                                                                 *)
MallocFails(t) ==
    /\ allocators' = allocators - 1
    /\ \/ win_pc[t] = "try_malloc" /\ WakeAll(t, "idle")
       \/ win_pc[t] = "wait_malloc" /\ win_pc' = [win_pc EXCEPT ![t] = "no_memory"]
    /\ UNCHANGED <<total_blocks, in_use, free_list, out>>

(* The block is one too many.  pool_wait_get begins again without leaving the *)
(* lock: it takes a free block, or sleeps.                                    *)
Overrun(t) ==
    /\ AtCap
    /\ IF win_pc[t] = "wait_malloc" /\ free_list > 0
       THEN /\ free_list' = free_list - 1
            /\ in_use' = in_use + 1
            /\ out' = [out EXCEPT ![t] = TRUE]
            /\ WakeAll(t, "idle")
       ELSE /\ WakeAll(t, IF win_pc[t] = "wait_malloc" THEN "no_block" ELSE "idle")
            /\ UNCHANGED <<free_list, in_use, out>>
    /\ allocators' = allocators - 1
    /\ UNCHANGED total_blocks

Added(t) ==
    /\ total_blocks' = total_blocks + 1
    /\ in_use' = in_use + 1
    /\ allocators' = allocators - 1
    /\ out' = [out EXCEPT ![t] = TRUE]
    /\ win_pc' = [win_pc EXCEPT ![t] = "idle"]
    /\ UNCHANGED free_list

MallocReturns(t) ==
    /\ win_pc[t] \in {"try_malloc", "wait_malloc"}
    /\ MallocFails(t) \/ Overrun(t) \/ (~AtCap /\ Added(t))

(* WakeConditionVariable wakes one sleeping thread, whatever it waits for. *)
win_put(t) ==
    /\ out[t]
    /\ win_pc[Destroyer] # "destroyed"
    /\ out' = [out EXCEPT ![t] = FALSE]
    /\ in_use' = in_use - 1
    /\ free_list' = free_list + 1
    /\ IF Sleeping = {} THEN UNCHANGED win_pc
       ELSE \E u \in Sleeping : win_pc' = [win_pc EXCEPT ![u] = "woken"]
    /\ UNCHANGED <<total_blocks, allocators>>

(* Its loop, entered while nobody sleeps, or after a wake-up.  The blocks that *)
(* are held are not freed.                                                     *)
win_destroy ==
    /\ \/ /\ win_pc[Destroyer] = "idle"
          /\ \A t \in User : win_pc[t] \in {"idle", "try_malloc", "wait_malloc"}
       \/ win_pc[Destroyer] = "woken"
    /\ win_pc' = [win_pc EXCEPT ![Destroyer] = IF allocators > 0 THEN "destroying" ELSE "destroyed"]
    /\ free_list' = IF allocators > 0 THEN free_list ELSE 0
    /\ UNCHANGED <<total_blocks, in_use, allocators, out>>

SpuriousWakeup(t) ==
    /\ t \in Sleeping
    /\ win_pc' = [win_pc EXCEPT ![t] = "woken"]
    /\ UNCHANGED <<total_blocks, in_use, allocators, free_list, out>>

Next ==
    \/ \E t \in User : win_try_get(t) \/ win_wait_get(t) \/ MallocReturns(t) \/ win_put(t)
    \/ win_destroy
    \/ \E t \in Threads : SpuriousWakeup(t)

(* What a thread inside a call does next. *)
Step(t) ==
    IF t = Destroyer THEN win_pc[t] = "woken" /\ win_destroy
    ELSE MallocReturns(t) \/ (win_pc[t] = "woken" /\ win_wait_get(t))

Spec == win_pool_init /\ [][Next]_winVars /\ \A t \in Threads : WF_winVars(Step(t))

-----------------------------------------------------------------------------
(* Properties *)

Held == {t \in User : out[t]}

(* The cap holds although the blocks in malloc are not counted, every counted *)
(* block is free or held, and the pool is destroyed only when nobody will     *)
(* come back from malloc to it.                                               *)
WinBlocksAccounted ==
    /\ Cap # 0 => total_blocks <= Cap
    /\ in_use = Cardinality(Held)
    /\ win_pc[Destroyer] # "destroyed" => total_blocks = free_list + in_use
    /\ win_pc[Destroyer] = "destroyed"
           => \A t \in User : win_pc[t] \notin {"try_malloc", "wait_malloc"}

(* While nobody destroys the pool, a getter that sleeps because the cap is    *)
(* reached is not left with free blocks: for each of them another thread is   *)
(* awake.  (A getter that sleeps because malloc failed may be.)               *)
WinNoLostWakeup ==
    win_pc[Destroyer] = "idle" /\ (\E t \in User : win_pc[t] = "no_block")
        => free_list <= Cardinality(Woken)

(* "Wait for active allocators to leave malloc()": once they have, the wait   *)
(* of pool_destroy ends.                                                      *)
DestroyEnds == (win_pc[Destroyer] = "destroying") ~> (win_pc[Destroyer] # "destroying")
=============================================================================
