------------------------------ MODULE Monitors ------------------------------
(***************************************************************************)
(* The objects of common/inc in which threads sleep on a condition         *)
(* variable: the monitors state_sync, cnt_sync and cond_sync, and the      *)
(* Windows half of the block pool.  They share nothing.                    *)
(***************************************************************************)
EXTENDS Naturals, FiniteSets

CONSTANTS
    Waiter, State, Target, Other, Timeouts, SecTicks, MaxTime,  \* of StateSync, CondSync
    Worker, Owner,                                              \* of CntSync
    User, Destroyer, WinCap                                     \* of PoolWin

ASSUME MonitorsAssumption ==
    /\ SecTicks \in Nat \ {0} /\ Timeouts \subseteq Nat /\ MaxTime \in Nat
    /\ IsFiniteSet(Worker) /\ Owner \notin Worker /\ "free" \notin Worker
    /\ IsFiniteSet(User) /\ Destroyer \notin User /\ WinCap \in Nat

VARIABLES
    w_total_blocks, w_in_use, allocators, w_free_list, win_pc, w_out,
    state, now, spc, call, ts, due, result,
    value, mutex, cnt_pc, new_val, destroyed,
    signaled, cond_pc

winVars == <<w_total_blocks, w_in_use, allocators, w_free_list, win_pc, w_out>>
stateVars == <<state, now, spc, call, ts, due, result>>
cntVars == <<value, mutex, cnt_pc, new_val, destroyed>>
condVars == <<signaled, cond_pc>>

Win == INSTANCE PoolWin WITH
    Cap <- WinCap, total_blocks <- w_total_blocks, in_use <- w_in_use,
    free_list <- w_free_list, out <- w_out
StateSync == INSTANCE StateSync
CntSync == INSTANCE CntSync
CondSync == INSTANCE CondSync

MonitorsInit ==
    /\ Win!win_pool_init
    /\ StateSync!state_sync_init
    /\ CntSync!cnt_sync_init
    /\ CondSync!cond_sync_init

(* Each object by itself, whatever the others do. *)
MonitorsSpec ==
    /\ MonitorsInit
    /\ [][Win!Next]_winVars
    /\ [][StateSync!Next]_stateVars
    /\ [][CntSync!Next]_cntVars
    /\ [][CondSync!Next]_condVars

-----------------------------------------------------------------------------
(* Properties *)

(* No thread sleeps through what it waits for: in state_sync the value, in    *)
(* cnt_sync the zero, in cond_sync the flag nobody else is on its way to, in  *)
(* the Windows pool a free block at the cap.                                  *)
NoneSleepsThrough ==
    /\ StateSync!NoSleepThrough
    /\ CntSync!ZeroWakesOwner
    /\ CondSync!FlagHasTaker
    /\ Win!WinNoLostWakeup

(* A timed wait says ETIMEDOUT only when its timeout is over, whatever second *)
(* it began in, although every error of pthread_cond_timedwait is taken for a *)
(* timeout; and state_sync_wait_ms_abort never while the value it waits for   *)
(* is there, also when it came with the timeout.                              *)
TimeoutTruthful == StateSync!TimeoutTruthful

(* What is destroyed is not used.  "Lock must be held during structural       *)
(* transition checking to fix destruction race paths": when cnt_sync_destroy  *)
(* is called after cnt_sync_wait_zero no thread is, or will be, inside a call *)
(* on the counter.  The Windows pool is destroyed only when nobody will come  *)
(* back to it from malloc; until then its cap holds, although the blocks in   *)
(* malloc are not counted, and every counted block is free or held.           *)
DestroyedUnused == CntSync!DestroyedUnused /\ Win!WinBlocksAccounted
=============================================================================
