------------------------------ MODULE StateSync ------------------------------
(***************************************************************************)
(* common/inc/state_sync.h: an integer under a mutex, and threads that     *)
(* wait on a condition variable until it has a value.                      *)
(*                                                                         *)
(* What runs under s->lock is one step.  A wait gives the lock up while it *)
(* sleeps, and looks again when it is woken.  A timed wait is also ended   *)
(* by the clock, and has to get the lock again before it can return.  Time *)
(* is counted in ticks, SecTicks to the second.                            *)
(***************************************************************************)
EXTENDS Naturals

CONSTANTS
    Waiter,             \* the threads that wait
    State,              \* the values of s->state
    Target, Other,      \* what they wait for, and the second value of a call
    Timeouts,           \* the timeouts they use, in ticks
    SecTicks,           \* the ticks of a second
    MaxTime             \* bound: the clock stops here

VARIABLES
    state,      \* s->state
    now,        \* CLOCK_MONOTONIC
    spc,        \* spc[t]: where thread t is in its call
    call,       \* call[t]: the function t called last
    ts,         \* ts[t]: its deadline as a timespec
    due,        \* due[t]: the time at which its timeout is over
    result      \* result[t]: what its last call returned

stateVars == <<state, now, spc, call, ts, due, result>>

Timed == {"wait_ms", "wait_ms_abort"}
Calls == Timed \cup {"wait", "wait_for_any", "wait_while"}

Timespec(sec, nsec) == [tv_sec |-> sec, tv_nsec |-> nsec]

(* Mutant: the carry into the seconds is missing. *)
state_sync_timespec_add_ms_plain(t, ticks) ==
    Timespec(t.tv_sec + ticks \div SecTicks, t.tv_nsec + (ticks % SecTicks))

state_sync_timespec_add_ms(t, ticks) ==
    LET sec == t.tv_sec + ticks \div SecTicks
        nsec == t.tv_nsec + (ticks % SecTicks)
    IN  IF nsec >= SecTicks THEN Timespec(sec + 1, nsec - SecTicks) ELSE Timespec(sec, nsec)

Clock == Timespec(now \div SecTicks, now % SecTicks)

(* pthread_cond_timedwait does not wait: the deadline is over, or no timespec *)
(* (EINVAL).                                                                  *)
Over(d) ==
    \/ d.tv_nsec >= SecTicks
    \/ d.tv_sec < Clock.tv_sec
    \/ d.tv_sec = Clock.tv_sec /\ d.tv_nsec <= Clock.tv_nsec

state_sync_init ==
    /\ state \in State
    /\ now = 0
    /\ spc = [t \in Waiter |-> "idle"]
    /\ call = [t \in Waiter |-> "wait"]
    /\ ts = [t \in Waiter |-> Timespec(0, 0)]
    /\ due = [t \in Waiter |-> 0]
    /\ result = [t \in Waiter |-> "none"]

-----------------------------------------------------------------------------

(* Mutant: one of the waiters is woken. *)
Broadcast_one ==
    IF \E t \in Waiter : spc[t] = "asleep"
    THEN \E t \in Waiter : spc[t] = "asleep" /\ spc' = [spc EXCEPT ![t] = "woken"]
    ELSE UNCHANGED spc

(* pthread_cond_broadcast *)
Broadcast ==
    spc' = [t \in Waiter |-> IF spc[t] = "asleep" THEN "woken" ELSE spc[t]]

(* Setting the value it has changes nothing, and wakes nobody. *)
state_sync_set(v) ==
    /\ state # v
    /\ state' = v
    /\ Broadcast
    /\ UNCHANGED <<now, call, ts, due, result>>

(* The value a call of f waits for is there. *)
Released(f) ==
    CASE f = "wait_for_any" -> state \in {Target, Other}
      [] f = "wait_while" -> state # Target
      [] OTHER -> state = Target

Aborted(f) == f = "wait_ms_abort" /\ state = Other

(* The head of the loop: what f returns now, or "none". *)
Outcome(f) == IF Released(f) THEN "0" ELSE IF Aborted(f) THEN "ECONNABORTED" ELSE "none"

(* Where a call of f with deadline d goes from there. *)
After(f, d) ==
    IF Outcome(f) # "none" THEN "idle"
    ELSE IF f \in Timed /\ Over(d) THEN "expired" ELSE "asleep"

(* One of the waits is called.  A timed one computes its deadline, and         *)
(* state_sync_wait_ms does so before it takes the lock.                        *)
state_sync_wait(t, f, timeout) ==
    LET deadline == IF f \in Timed THEN state_sync_timespec_add_ms(Clock, timeout)
                    ELSE Timespec(0, 0)
    IN  /\ spc[t] = "idle"
        /\ f \in Timed => now + timeout <= MaxTime
        /\ call' = [call EXCEPT ![t] = f]
        /\ ts' = [ts EXCEPT ![t] = deadline]
        /\ due' = [due EXCEPT ![t] = IF f \in Timed THEN now + timeout ELSE 0]
        /\ IF f = "wait_ms"
           THEN /\ spc' = [spc EXCEPT ![t] = "called"]
                /\ result' = [result EXCEPT ![t] = "none"]
           ELSE /\ spc' = [spc EXCEPT ![t] = After(f, deadline)]
                /\ result' = [result EXCEPT ![t] = Outcome(f)]
        /\ UNCHANGED <<state, now>>

(* The loop goes round, with the lock. *)
Look(t) ==
    /\ spc[t] \in {"called", "woken"}
    /\ spc' = [spc EXCEPT ![t] = After(call[t], ts[t])]
    /\ result' = [result EXCEPT ![t] = Outcome(call[t])]
    /\ UNCHANGED <<state, now, call, ts, due>>

Expire(t) ==
    /\ spc[t] = "asleep"
    /\ call[t] \in Timed
    /\ Over(ts[t])
    /\ spc' = [spc EXCEPT ![t] = "expired"]
    /\ UNCHANGED <<state, now, call, ts, due, result>>

(* A timed wait is over and has the lock again.  state_sync_wait_ms_abort      *)
(* looks at the value once more, state_sync_wait_ms does not.                  *)
TimedOut(t) ==
    /\ spc[t] = "expired"
    /\ spc' = [spc EXCEPT ![t] = "idle"]
    /\ result' = [result EXCEPT ![t] =
                     IF call[t] = "wait_ms_abort" /\ Outcome(call[t]) # "none"
                     THEN Outcome(call[t]) ELSE "ETIMEDOUT"]
    /\ UNCHANGED <<state, now, call, ts, due>>

SpuriousWakeup(t) ==
    /\ spc[t] = "asleep"
    /\ spc' = [spc EXCEPT ![t] = "woken"]
    /\ UNCHANGED <<state, now, call, ts, due, result>>

Tick ==
    /\ now < MaxTime
    /\ now' = now + 1
    /\ UNCHANGED <<state, spc, call, ts, due, result>>

Step(t) == Look(t) \/ Expire(t) \/ TimedOut(t)

Next ==
    \/ \E v \in State : state_sync_set(v)
    \/ \E t \in Waiter :
          \/ \E f \in Calls, timeout \in Timeouts : state_sync_wait(t, f, timeout)
          \/ Step(t)
          \/ SpuriousWakeup(t)
    \/ Tick

-----------------------------------------------------------------------------
(* Properties *)

(* No thread sleeps while the value is the one it waits for: whatever changes *)
(* it wakes them all, also when values come and go quickly.                   *)
NoSleepThrough ==
    \A t \in Waiter : spc[t] = "asleep" => ~Released(call[t]) /\ ~Aborted(call[t])

(* A timed wait says ETIMEDOUT only when its timeout is over, whatever second *)
(* it began in, although every error of pthread_cond_timedwait is taken for a *)
(* timeout; and state_sync_wait_ms_abort never while the value it waits for   *)
(* is there, also when it came with the timeout.                              *)
TimeoutTruthful ==
    [][\A t \in Waiter :
          result[t] = "none" /\ result'[t] = "ETIMEDOUT"
              => now >= due[t] /\ (call[t] = "wait_ms_abort" => ~Released(call[t]))]_stateVars

(* A timed wait returns, whatever the value does; any other returns if the    *)
(* value it waits for stays.                                                  *)
WaitsReturn ==
    \A t \in Waiter :
        []<>(spc[t] = "idle" \/ (call[t] \notin Timed /\ ~Released(call[t])))
=============================================================================
