------------------------------- MODULE CntSync -------------------------------
(***************************************************************************)
(* common/inc/cnt_sync.h: a counter of running work, and a thread that     *)
(* waits until it is zero and then destroys it, as the header describes.   *)
(*                                                                         *)
(* cnt_sync_inc changes the counter without the mutex; cnt_sync_dec holds  *)
(* it over its two steps.  Work is started, and counted, by the owner or   *)
(* by a worker that is itself counted.                                     *)
(***************************************************************************)
EXTENDS Naturals

CONSTANTS
    Worker,     \* the threads that do counted work
    Owner       \* the thread that waits for them

VARIABLES
    value,      \* c->value
    mutex,      \* who holds c->mutex, or "free"
    cnt_pc,     \* cnt_pc[t]: where thread t is
    new_val,    \* new_val[w]: the local variable of cnt_sync_dec
    destroyed   \* cnt_sync_destroy was called

cntVars == <<value, mutex, cnt_pc, new_val, destroyed>>

cnt_sync_init ==
    /\ value = 0
    /\ mutex = "free"
    /\ cnt_pc = [t \in Worker \cup {Owner} |-> IF t = Owner THEN "running" ELSE "none"]
    /\ new_val = [w \in Worker |-> 0]
    /\ destroyed = FALSE

Go(t, from, to) ==
    /\ cnt_pc[t] \in from
    /\ cnt_pc' = [cnt_pc EXCEPT ![t] = to]

(* The work of w is counted and started by t. *)
cnt_sync_inc(t, w) ==
    /\ cnt_pc[t] = "running"
    /\ Go(w, {"none"}, "running")
    /\ value' = value + 1
    /\ UNCHANGED <<mutex, new_val, destroyed>>

(* Mutant: the counter is taken down before the mutex is held. *)
cnt_sync_dec_unlocked(w) ==
    /\ Go(w, {"running"}, "dec")
    /\ value' = value - 1
    /\ new_val' = [new_val EXCEPT ![w] = value - 1]
    /\ UNCHANGED <<mutex, destroyed>>

cnt_sync_dec(w) ==
    /\ mutex = "free"
    /\ mutex' = w
    /\ Go(w, {"running"}, "dec")
    /\ value' = value - 1
    /\ new_val' = [new_val EXCEPT ![w] = value - 1]
    /\ UNCHANGED destroyed

(* The owner is woken when the count went to zero, and the mutex released. *)
DecSignal(w) ==
    /\ cnt_pc[w] = "dec"
    /\ cnt_pc' = [cnt_pc EXCEPT ![w] = "done",
                                ![Owner] = IF new_val[w] = 0 /\ @ = "asleep" THEN "woken" ELSE @]
    /\ mutex' = "free"
    /\ UNCHANGED <<value, new_val, destroyed>>

(* The loop of cnt_sync_wait_zero, entered or after a wake-up. *)
cnt_sync_wait_zero ==
    /\ mutex = "free"
    /\ Go(Owner, {"running", "woken"}, IF value = 0 THEN "zero" ELSE "asleep")
    /\ UNCHANGED <<value, mutex, new_val, destroyed>>

(* cnt_sync_wait_zero_ms runs out of time; its caller goes on. *)
WaitTimesOut ==
    /\ mutex = "free"
    /\ Go(Owner, {"asleep"}, "running")
    /\ UNCHANGED <<value, mutex, new_val, destroyed>>

cnt_sync_destroy ==
    /\ Go(Owner, {"zero"}, "done")
    /\ destroyed' = TRUE
    /\ UNCHANGED <<value, mutex, new_val>>

Next ==
    \/ \E t \in Worker \cup {Owner}, w \in Worker : cnt_sync_inc(t, w)
    \/ \E w \in Worker : cnt_sync_dec(w) \/ DecSignal(w)
    \/ cnt_sync_wait_zero \/ WaitTimesOut
    \/ cnt_sync_destroy

-----------------------------------------------------------------------------
(* Properties *)

(* "Lock must be held during structural transition checking to fix            *)
(* destruction race paths": when the counter is destroyed no thread is, or    *)
(* will be, inside a call on it.                                              *)
DestroyedUnused ==
    destroyed => \A w \in Worker : cnt_pc[w] \in {"none", "done"}

(* The owner does not sleep over the zero, although increments do not take    *)
(* the mutex: it is woken by the thread that took the counter there.          *)
ZeroWakesOwner ==
    cnt_pc[Owner] = "asleep" /\ value = 0 => \E w \in Worker : cnt_pc[w] = "dec" /\ new_val[w] = 0
=============================================================================
