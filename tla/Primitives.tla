----------------------------- MODULE Primitives -----------------------------
(***************************************************************************)
(* The objects of common/inc that threads share: the block pool, POSIX and *)
(* Windows, the monitors state_sync, cnt_sync and cond_sync, and the       *)
(* lock-free pool and queue.  They have nothing in common, so a behaviour  *)
(* is one of one of them: `object' says of which.                          *)
(***************************************************************************)
EXTENDS Pool, Monitors, LockFree

VARIABLE object     \* the object at work

allVars == <<object, vars, winVars, stateVars, cntVars, condVars, lfpVars, lfqVars>>

PrimInit ==
    /\ object \in {"pool", "pool_win", "state_sync", "cnt_sync", "cond_sync", "lf_pool", "lf_queue"}
    /\ pool_init
    /\ MonitorsInit
    /\ object = "state_sync" \/ state = Target
    /\ LockFreeInit

(* The other objects stand still. *)
Only(o) ==
    /\ object = o /\ UNCHANGED object
    /\ o # "pool" => UNCHANGED vars
    /\ o # "pool_win" => UNCHANGED winVars
    /\ o # "state_sync" => UNCHANGED stateVars
    /\ o # "cnt_sync" => UNCHANGED cntVars
    /\ o # "cond_sync" => UNCHANGED condVars
    /\ o # "lf_pool" => UNCHANGED lfpVars
    /\ o # "lf_queue" => UNCHANGED lfqVars

PrimNext ==
    \/ Only("pool") /\ Next
    \/ Only("pool_win") /\ Win!Next
    \/ Only("state_sync") /\ StateSync!Next
    \/ Only("cnt_sync") /\ CntSync!Next
    \/ Only("cond_sync") /\ CondSync!Next
    \/ Only("lf_pool") /\ LfPool!Next
    \/ Only("lf_queue") /\ LfQueue!Next

(* A thread inside a call goes on with it, unless it sleeps, and time passes. *)
PrimSpec ==
    /\ PrimInit
    /\ [][PrimNext]_allVars
    /\ \A t \in Thread : WF_allVars(Only("pool") /\ Step(t))
    /\ \A t \in Waiter : WF_allVars(Only("state_sync") /\ StateSync!Step(t))
    /\ WF_allVars(Only("state_sync") /\ StateSync!Tick)
    /\ \A t \in LfThread : WF_allVars(Only("lf_pool") /\ LfPool!Step(t))

-----------------------------------------------------------------------------
(* Properties *)

(* A timed wait of state_sync returns, whatever the value does; any other     *)
(* returns if the value it waits for stays.  A caller that sleeps in          *)
(* pool_wait_get is woken while there are free blocks, or others take them.   *)
WaitsReturn ==
    /\ StateSync!WaitsReturn
    /\ FreeBlockWakesWaiter
=============================================================================
