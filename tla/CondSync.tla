------------------------------ MODULE CondSync ------------------------------
(***************************************************************************)
(* common/inc/cond_sync.h: a flag under a mutex.  A wait sleeps until the  *)
(* flag is set, and clears it; a signal sets it and wakes one thread, a    *)
(* broadcast sets it and wakes all.  One wait returns for a flag, so of    *)
(* the threads a broadcast wakes all but one sleep again, and signals may  *)
(* coalesce.                                                               *)
(***************************************************************************)
CONSTANTS Waiter    \* the threads that wait

VARIABLES
    signaled,   \* cs->signaled
    cond_pc     \* cond_pc[t]: where thread t is in cond_sync_wait

condVars == <<signaled, cond_pc>>

Asleep == {t \in Waiter : cond_pc[t] = "asleep"}

cond_sync_init ==
    /\ signaled = FALSE
    /\ cond_pc = [t \in Waiter |-> "idle"]

(* The loop, entered or after a wake-up. *)
cond_sync_wait(t) ==
    /\ cond_pc[t] \in {"idle", "woken"}
    /\ cond_pc' = [cond_pc EXCEPT ![t] = IF signaled THEN "idle" ELSE "asleep"]
    /\ signaled' = FALSE

(* Mutant: the flag is set, and nobody woken. *)
cond_sync_signal_silent ==
    signaled' = TRUE /\ UNCHANGED cond_pc

cond_sync_signal ==
    /\ signaled' = TRUE
    /\ IF Asleep = {} THEN UNCHANGED cond_pc
       ELSE \E t \in Asleep : cond_pc' = [cond_pc EXCEPT ![t] = "woken"]

cond_sync_broadcast ==
    /\ signaled' = TRUE
    /\ cond_pc' = [t \in Waiter |-> IF t \in Asleep THEN "woken" ELSE cond_pc[t]]

SpuriousWakeup(t) ==
    /\ t \in Asleep
    /\ cond_pc' = [cond_pc EXCEPT ![t] = "woken"]
    /\ UNCHANGED signaled

Next ==
    \/ \E t \in Waiter : cond_sync_wait(t) \/ SpuriousWakeup(t)
    \/ cond_sync_signal
    \/ cond_sync_broadcast

-----------------------------------------------------------------------------
(* Properties *)

(* While the flag is set and a thread sleeps, another is on its way to the    *)
(* flag: no thread is left asleep by a signal others have used up.            *)
FlagHasTaker ==
    signaled /\ Asleep # {} => \E t \in Waiter : cond_pc[t] = "woken"
=============================================================================
