--------------------------- MODULE MonitorsProofs --------------------------
(***************************************************************************)
(* Proofs about Monitors: for any number of threads no wait of state_sync, *)
(* cnt_sync, cond_sync or the Windows pool is slept through, what is       *)
(* destroyed is not used, and a timed wait tells the truth.                *)
(***************************************************************************)
EXTENDS Monitors, FiniteSetTheorems, TLAPS

-----------------------------------------------------------------------------
(* cnt_sync *)

Running == {w \in Worker : cnt_pc[w] = "running"}

CntTypeOK ==
    /\ value \in Nat
    /\ cnt_pc \in [Worker \cup {Owner} -> {"none", "running", "dec", "done", "asleep", "woken", "zero"}]
    /\ new_val \in [Worker -> Int]
    /\ destroyed \in BOOLEAN

(* The counter counts the running work; who is inside cnt_sync_dec has the   *)
(* mutex; after the zero nobody can start work.                              *)
CntInv ==
    /\ CntTypeOK
    /\ value = Cardinality(Running)
    /\ \A w \in Worker : cnt_pc[w] \in {"none", "running", "dec", "done"}
    /\ \A w \in Worker : cnt_pc[w] = "dec" => mutex = w
    /\ cnt_pc[Owner] \in {"zero", "done"} => \A w \in Worker : cnt_pc[w] \in {"none", "done"}
    /\ destroyed => cnt_pc[Owner] = "done"
    /\ CntSync!ZeroWakesOwner

LEMMA CntThreads == IsFiniteSet(Worker) /\ Owner \notin Worker /\ "free" \notin Worker
BY MonitorsAssumption DEF MonitorsAssumption

LEMMA RunningFinite ==
    /\ IsFiniteSet(Running) /\ Cardinality(Running) \in Nat
    /\ Cardinality(Running) = 0 <=> Running = {}
<1>1. Running \subseteq Worker
  BY DEF Running
<1>2. IsFiniteSet(Running)
  BY <1>1, CntThreads, FS_Subset
<1> QED BY <1>2, FS_CardinalityType, FS_EmptySet

LEMMA CntInit == CntSync!cnt_sync_init => CntInv
<1> SUFFICES ASSUME CntSync!cnt_sync_init PROVE CntInv
  OBVIOUS
<1> USE CntThreads
<1>1. Running = {}
  BY DEF Running, CntSync!cnt_sync_init
<1>2. Cardinality(Running) = 0
  BY <1>1, FS_EmptySet
<1>3. CntTypeOK
  <2>1. cnt_pc \in [Worker \cup {Owner} -> {"none", "running"}]
    BY DEF CntSync!cnt_sync_init
  <2>2. new_val \in [Worker -> Int]
    BY DEF CntSync!cnt_sync_init
  <2>3. value \in Nat /\ destroyed = FALSE
    BY DEF CntSync!cnt_sync_init
  <2> QED BY <2>1, <2>2, <2>3 DEF CntTypeOK
<1>4. cnt_pc[Owner] = "running" /\ value = 0 /\ ~destroyed /\ \A w \in Worker : cnt_pc[w] = "none"
  BY DEF CntSync!cnt_sync_init
<1> QED BY <1>2, <1>3, <1>4 DEF CntInv, CntSync!ZeroWakesOwner

LEMMA CntNext == CntInv /\ [CntSync!Next]_cntVars => CntInv'
<1> SUFFICES ASSUME CntInv, [CntSync!Next]_cntVars PROVE CntInv'
  OBVIOUS
<1> USE CntThreads, RunningFinite
<1>1. ASSUME NEW t \in Worker \cup {Owner}, NEW w \in Worker, CntSync!cnt_sync_inc(t, w)
      PROVE  CntInv'
  <2>1. cnt_pc' = [cnt_pc EXCEPT ![w] = "running"] /\ cnt_pc[w] = "none" /\ value' = value + 1
    BY <1>1 DEF CntSync!cnt_sync_inc, CntSync!Go
  <2>2. Running' = Running \cup {w} /\ w \notin Running
    BY <2>1 DEF Running, CntInv, CntTypeOK
  <2>3. value' = Cardinality(Running')
    BY <2>1, <2>2, FS_AddElement DEF CntInv
  <2>4. CntTypeOK'
    BY <1>1, <2>1 DEF CntInv, CntTypeOK, CntSync!cnt_sync_inc
  <2>5. cnt_pc[Owner] \notin {"zero", "done"}
    BY <1>1 DEF CntInv, CntSync!cnt_sync_inc
  <2> QED BY <1>1, <2>1, <2>3, <2>4, <2>5
        DEF CntInv, CntTypeOK, CntSync!cnt_sync_inc, CntSync!ZeroWakesOwner
<1>2. ASSUME NEW w \in Worker, CntSync!cnt_sync_dec(w) PROVE CntInv'
  <2>1. /\ cnt_pc' = [cnt_pc EXCEPT ![w] = "dec"] /\ cnt_pc[w] = "running"
        /\ value' = value - 1 /\ new_val' = [new_val EXCEPT ![w] = value - 1]
        /\ mutex = "free" /\ mutex' = w /\ destroyed' = destroyed
    BY <1>2 DEF CntSync!cnt_sync_dec, CntSync!Go
  <2>2. Running' = Running \ {w} /\ w \in Running
    BY <2>1 DEF Running, CntInv, CntTypeOK
  <2>3. value' = Cardinality(Running')
    BY <2>1, <2>2, FS_RemoveElement DEF CntInv
  <2>4. value # 0
    BY <2>2 DEF CntInv
  <2>5. CntTypeOK'
    BY <2>1, <2>4 DEF CntInv, CntTypeOK
  <2>6. CntSync!ZeroWakesOwner'
    BY <2>1 DEF CntInv, CntTypeOK, CntSync!ZeroWakesOwner
  <2>7. \A u \in Worker : cnt_pc'[u] = "dec" => mutex' = u
    BY <2>1 DEF CntInv, CntTypeOK
  <2> QED BY <2>1, <2>3, <2>5, <2>6, <2>7 DEF CntInv, CntTypeOK
<1>3. ASSUME NEW w \in Worker, CntSync!DecSignal(w) PROVE CntInv'
  <2>1. /\ cnt_pc[w] = "dec" /\ cnt_pc' \in [Worker \cup {Owner} -> {"none", "running", "dec", "done", "asleep", "woken", "zero"}]
        /\ cnt_pc'[w] = "done"
        /\ \A u \in Worker : u # w => cnt_pc'[u] = cnt_pc[u]
        /\ cnt_pc'[Owner] = IF new_val[w] = 0 /\ cnt_pc[Owner] = "asleep" THEN "woken" ELSE cnt_pc[Owner]
        /\ UNCHANGED <<value, new_val, destroyed>>
    BY <1>3 DEF CntSync!DecSignal, CntInv, CntTypeOK
  <2>2. Running' = Running
    BY <2>1 DEF Running, CntInv, CntTypeOK
  <2>3. \A u \in Worker : u # w => cnt_pc[u] # "dec"
    BY <2>1 DEF CntInv
  <2>4. CntSync!ZeroWakesOwner'
    BY <2>1, <2>3 DEF CntInv, CntSync!ZeroWakesOwner
  <2> QED BY <2>1, <2>2, <2>3, <2>4 DEF CntInv, CntTypeOK
<1>4. CASE CntSync!cnt_sync_wait_zero
  <2>1. /\ cnt_pc' = [cnt_pc EXCEPT ![Owner] = IF value = 0 THEN "zero" ELSE "asleep"]
        /\ cnt_pc[Owner] \in {"running", "woken"}
        /\ mutex = "free" /\ UNCHANGED <<value, mutex, new_val, destroyed>>
    BY <1>4 DEF CntSync!cnt_sync_wait_zero, CntSync!Go
  <2>2. Running' = Running
    BY <2>1 DEF Running, CntInv, CntTypeOK
  <2>3. \A w \in Worker : cnt_pc[w] # "dec"
    BY <2>1 DEF CntInv
  <2>4. value = 0 => \A w \in Worker : cnt_pc[w] # "running"
    BY DEF CntInv, Running
  <2>5. CntSync!ZeroWakesOwner'
    BY <2>1 DEF CntInv, CntTypeOK, CntSync!ZeroWakesOwner
  <2> QED BY <2>1, <2>2, <2>3, <2>4, <2>5 DEF CntInv, CntTypeOK
<1>5. CASE CntSync!WaitTimesOut
  <2>1. /\ cnt_pc' = [cnt_pc EXCEPT ![Owner] = "running"] /\ cnt_pc[Owner] = "asleep"
        /\ UNCHANGED <<value, mutex, new_val, destroyed>>
    BY <1>5 DEF CntSync!WaitTimesOut, CntSync!Go
  <2>2. Running' = Running
    BY <2>1 DEF Running, CntInv, CntTypeOK
  <2> QED BY <2>1, <2>2 DEF CntInv, CntTypeOK, CntSync!ZeroWakesOwner
<1>6. CASE CntSync!cnt_sync_destroy
  <2>1. /\ cnt_pc' = [cnt_pc EXCEPT ![Owner] = "done"] /\ cnt_pc[Owner] = "zero"
        /\ destroyed' = TRUE /\ UNCHANGED <<value, mutex, new_val>>
    BY <1>6 DEF CntSync!cnt_sync_destroy, CntSync!Go
  <2>2. Running' = Running
    BY <2>1 DEF Running, CntInv, CntTypeOK
  <2> QED BY <2>1, <2>2 DEF CntInv, CntTypeOK, CntSync!ZeroWakesOwner
<1>7. CASE UNCHANGED cntVars
  BY <1>7 DEF CntInv, CntTypeOK, Running, cntVars, CntSync!ZeroWakesOwner
<1> QED BY <1>1, <1>2, <1>3, <1>4, <1>5, <1>6, <1>7 DEF CntSync!Next

(* After the zero the owner's counter is out of use. *)
LEMMA CntUse == CntInv => CntSync!DestroyedUnused /\ CntSync!ZeroWakesOwner
BY DEF CntInv, CntTypeOK, CntSync!DestroyedUnused

-----------------------------------------------------------------------------
(* cond_sync *)

CondInv ==
    /\ signaled \in BOOLEAN
    /\ cond_pc \in [Waiter -> {"idle", "asleep", "woken"}]
    /\ CondSync!FlagHasTaker

LEMMA CondInit == CondSync!cond_sync_init => CondInv
BY DEF CondSync!cond_sync_init, CondInv, CondSync!FlagHasTaker

LEMMA CondNext == CondInv /\ [CondSync!Next]_condVars => CondInv'
<1> SUFFICES ASSUME CondInv, [CondSync!Next]_condVars PROVE CondInv'
  OBVIOUS
<1> USE DEF CondInv, CondSync!FlagHasTaker, CondSync!Asleep
<1>1. ASSUME NEW t \in Waiter, CondSync!cond_sync_wait(t) PROVE CondInv'
  BY <1>1 DEF CondSync!cond_sync_wait
<1>2. ASSUME NEW t \in Waiter, CondSync!SpuriousWakeup(t) PROVE CondInv'
  BY <1>2 DEF CondSync!SpuriousWakeup
<1>3. CASE CondSync!cond_sync_signal
  <2>1. CASE CondSync!Asleep = {}
    BY <1>3, <2>1 DEF CondSync!cond_sync_signal
  <2>2. CASE CondSync!Asleep # {}
    BY <1>3, <2>2 DEF CondSync!cond_sync_signal
  <2> QED BY <2>1, <2>2
<1>4. CASE CondSync!cond_sync_broadcast
  BY <1>4 DEF CondSync!cond_sync_broadcast
<1>5. CASE UNCHANGED condVars
  BY <1>5 DEF condVars
<1> QED BY <1>1, <1>2, <1>3, <1>4, <1>5 DEF CondSync!Next

-----------------------------------------------------------------------------
(* state_sync *)

(* A timespec within bounds, and the ticks it stands for. *)
Normal(d) == d.tv_sec \in Nat /\ d.tv_nsec \in 0 .. SecTicks - 1
Ticks(d) == d.tv_sec * SecTicks + d.tv_nsec

(* Division leaves a rest. *)
LEMMA DivMod ==
    ASSUME NEW n \in Int, NEW d \in Nat \ {0}
    PROVE  /\ n \div d \in Int /\ n % d \in 0 .. d - 1
           /\ n % d = n - d * (n \div d)
<1>1. n \div d \in Int
  OBVIOUS
<1>2. n % d \in 0 .. d - 1
  OBVIOUS
<1>3. n % d = n - d * (n \div d)
  BY SMTT(20)
<1> QED BY <1>1, <1>2, <1>3

(* The whole seconds of n ticks, and the rest. *)
Sec(n) == n \div SecTicks
Rest(n) == n % SecTicks

LEMMA Seconds ==
    ASSUME NEW n \in Nat
    PROVE  /\ Sec(n) \in Nat /\ Rest(n) \in 0 .. SecTicks - 1
           /\ n = Sec(n) * SecTicks + Rest(n)
<1>1. SecTicks \in Nat \ {0}
  BY MonitorsAssumption DEF MonitorsAssumption
<1>2. Sec(n) \in Int /\ Rest(n) \in 0 .. SecTicks - 1
  BY <1>1 DEF Sec, Rest
<1>3. Rest(n) = n - SecTicks * Sec(n)
  BY <1>1, SMTT(20) DEF Sec, Rest
<1>4. Sec(n) >= 0
  BY <1>1 DEF Sec
<1> QED BY <1>1, <1>2, <1>3, <1>4

LEMMA Clockwork == now \in Nat => Normal(StateSync!Clock) /\ Ticks(StateSync!Clock) = now
<1>1. StateSync!Clock = [tv_sec |-> Sec(now), tv_nsec |-> Rest(now)]
  BY DEF StateSync!Clock, StateSync!Timespec, Sec, Rest
<1> QED BY <1>1, Seconds DEF Normal, Ticks

(* state_sync_timespec_add_ms adds, and carries into the seconds. *)
LEMMA AddsTicks ==
    ASSUME NEW d, Normal(d), NEW n \in Nat
    PROVE  /\ Normal(StateSync!state_sync_timespec_add_ms(d, n))
           /\ Ticks(StateSync!state_sync_timespec_add_ms(d, n)) = Ticks(d) + n
<1> DEFINE q == Sec(n)
           r == Rest(n)
           e == StateSync!state_sync_timespec_add_ms(d, n)
<1>1. SecTicks \in Nat \ {0}
  BY MonitorsAssumption DEF MonitorsAssumption
<1>2. q \in Nat /\ r \in 0 .. SecTicks - 1 /\ n = q * SecTicks + r
  BY Seconds
<1>3. d.tv_sec \in Nat /\ d.tv_nsec \in 0 .. SecTicks - 1
  BY DEF Normal
<1>4. /\ d.tv_nsec + r >= SecTicks => e.tv_sec = d.tv_sec + q + 1 /\ e.tv_nsec = d.tv_nsec + r - SecTicks
      /\ ~(d.tv_nsec + r >= SecTicks) => e.tv_sec = d.tv_sec + q /\ e.tv_nsec = d.tv_nsec + r
  BY <1>1, <1>2, <1>3 DEF StateSync!state_sync_timespec_add_ms, StateSync!Timespec, Sec, Rest
<1> HIDE DEF q, r, e
<1>5. /\ (d.tv_sec + q + 1) * SecTicks = d.tv_sec * SecTicks + q * SecTicks + SecTicks
      /\ (d.tv_sec + q) * SecTicks = d.tv_sec * SecTicks + q * SecTicks
  BY <1>1, <1>2, <1>3
<1>6. e.tv_sec \in Nat /\ e.tv_nsec \in 0 .. SecTicks - 1
  BY <1>1, <1>2, <1>3, <1>4
<1>7. e.tv_sec * SecTicks + e.tv_nsec = d.tv_sec * SecTicks + d.tv_nsec + n
  <2>1. CASE d.tv_nsec + r >= SecTicks
    <3>1. e.tv_sec * SecTicks = d.tv_sec * SecTicks + q * SecTicks + SecTicks
      BY <1>4, <1>5, <2>1
    <3>2. d.tv_sec * SecTicks \in Int /\ q * SecTicks \in Int
      BY <1>1, <1>2, <1>3
    <3>3. e.tv_nsec = d.tv_nsec + r - SecTicks
      BY <1>4, <2>1
    <3> DEFINE a == d.tv_sec * SecTicks
               b == q * SecTicks
    <3>4. a \in Int /\ b \in Int /\ e.tv_sec * SecTicks = a + b + SecTicks /\ n = b + r
      BY <1>2, <3>1, <3>2
    <3> HIDE DEF a, b
    <3>5. e.tv_sec * SecTicks + e.tv_nsec = a + d.tv_nsec + n
      BY <1>1, <1>2, <1>3, <3>3, <3>4
    <3> QED BY <3>5 DEF a
  <2>2. CASE ~(d.tv_nsec + r >= SecTicks)
    <3>1. e.tv_sec * SecTicks = d.tv_sec * SecTicks + q * SecTicks
      BY <1>4, <1>5, <2>2
    <3>2. d.tv_sec * SecTicks \in Int /\ q * SecTicks \in Int
      BY <1>1, <1>2, <1>3
    <3> QED BY <1>1, <1>2, <1>3, <1>4, <2>2, <3>1, <3>2
  <2> QED BY <2>1, <2>2
<1> QED BY <1>6, <1>7 DEF Normal, Ticks, e

(* A normal deadline is over when its time has come, and not before. *)
LEMMA OverIsDue ==
    ASSUME now \in Nat, NEW d, Normal(d), StateSync!Over(d)
    PROVE  Ticks(d) <= now
<1> DEFINE c == StateSync!Clock
<1>1. SecTicks \in Nat \ {0}
  BY MonitorsAssumption DEF MonitorsAssumption
<1>2. Normal(c) /\ Ticks(c) = now
  BY Clockwork
<1>3. d.tv_sec < c.tv_sec \/ (d.tv_sec = c.tv_sec /\ d.tv_nsec <= c.tv_nsec)
  BY <1>1 DEF StateSync!Over, Normal
<1> HIDE DEF c
<1>4. CASE d.tv_sec < c.tv_sec
  <2>1. (d.tv_sec + 1) * SecTicks <= c.tv_sec * SecTicks
    BY <1>1, <1>2, <1>4 DEF Normal
  <2>2. (d.tv_sec + 1) * SecTicks = d.tv_sec * SecTicks + SecTicks
    BY <1>1 DEF Normal
  <2> QED BY <1>1, <1>2, <2>1, <2>2 DEF Normal, Ticks
<1>5. CASE d.tv_sec = c.tv_sec /\ d.tv_nsec <= c.tv_nsec
  BY <1>1, <1>2, <1>5 DEF Normal, Ticks
<1> QED BY <1>3, <1>4, <1>5

Places == {"idle", "called", "asleep", "woken", "expired"}

(* A timed call knows its deadline to the tick, and has expired only when it *)
(* is over.                                                                  *)
StateInv ==
    /\ now \in Nat
    /\ spc \in [Waiter -> Places]
    /\ call \in [Waiter -> StateSync!Calls]
    /\ ts = [t \in Waiter |-> ts[t]]
    /\ due \in [Waiter -> Nat]
    /\ result = [t \in Waiter |-> result[t]]
    /\ \A t \in Waiter :
          /\ spc[t] # "idle" /\ call[t] \in StateSync!Timed
                 => Normal(ts[t]) /\ Ticks(ts[t]) = due[t]
          /\ spc[t] = "expired" => call[t] \in StateSync!Timed /\ due[t] <= now
    /\ StateSync!NoSleepThrough

LEMMA StateInit == StateSync!state_sync_init => StateInv
<1> SUFFICES ASSUME StateSync!state_sync_init PROVE StateInv
  OBVIOUS
<1>1. spc \in [Waiter -> Places] /\ \A t \in Waiter : spc[t] = "idle"
  BY DEF StateSync!state_sync_init, Places
<1>2. call \in [Waiter -> StateSync!Calls]
  BY DEF StateSync!state_sync_init, StateSync!Calls
<1>3. /\ now \in Nat /\ due \in [Waiter -> Nat]
      /\ ts = [t \in Waiter |-> ts[t]] /\ result = [t \in Waiter |-> result[t]]
  BY DEF StateSync!state_sync_init
<1> QED BY <1>1, <1>2, <1>3 DEF StateInv, StateSync!NoSleepThrough

(* Where the head of the loop sends a call. *)
LEMMA AfterFacts ==
    ASSUME NEW f \in StateSync!Calls, NEW d, now \in Nat,
           f \in StateSync!Timed => Normal(d)
    PROVE  /\ StateSync!After(f, d) \in Places
           /\ StateSync!After(f, d) = "asleep" => ~StateSync!Released(f) /\ ~StateSync!Aborted(f)
           /\ StateSync!After(f, d) = "expired" => f \in StateSync!Timed /\ Ticks(d) <= now
           /\ StateSync!Outcome(f) # "ETIMEDOUT"
           /\ StateSync!Outcome(f) = "none" => ~StateSync!Released(f)
<1>1. StateSync!After(f, d) = "expired" => f \in StateSync!Timed /\ StateSync!Over(d)
  BY DEF StateSync!After
<1>2. StateSync!After(f, d) = "expired" => Ticks(d) <= now
  BY <1>1, OverIsDue
<1>3. StateSync!After(f, d) \in Places
  BY DEF StateSync!After, Places
<1>4. StateSync!After(f, d) = "asleep" => StateSync!Outcome(f) = "none"
  BY DEF StateSync!After
<1>5. /\ StateSync!Outcome(f) # "ETIMEDOUT"
      /\ StateSync!Outcome(f) = "none" => ~StateSync!Released(f) /\ ~StateSync!Aborted(f)
  BY DEF StateSync!Outcome
<1> QED BY <1>1, <1>2, <1>3, <1>4, <1>5

(* What a step of one waiter needs to say of it. *)
LEMMA WaiterStep ==
    ASSUME StateInv, NEW t \in Waiter, NEW p \in Places, NEW f \in StateSync!Calls, NEW d, NEW e \in Nat, NEW x,
           spc' = [spc EXCEPT ![t] = p], call' = [call EXCEPT ![t] = f],
           ts' = [ts EXCEPT ![t] = d], due' = [due EXCEPT ![t] = e],
           result' = [result EXCEPT ![t] = x],
           UNCHANGED <<state, now>>,
           p # "idle" /\ f \in StateSync!Timed => Normal(d) /\ Ticks(d) = e,
           p = "expired" => f \in StateSync!Timed /\ e <= now,
           p = "asleep" => ~StateSync!Released(f) /\ ~StateSync!Aborted(f)
    PROVE  StateInv'
<1>1. \A u \in Waiter : u # t => /\ spc'[u] = spc[u] /\ call'[u] = call[u] /\ ts'[u] = ts[u]
                                /\ due'[u] = due[u]
  BY DEF StateInv
<1>2. spc'[t] = p /\ call'[t] = f /\ ts'[t] = d /\ due'[t] = e
  BY DEF StateInv
<1>3. /\ now' \in Nat /\ spc' \in [Waiter -> Places] /\ call' \in [Waiter -> StateSync!Calls]
      /\ due' \in [Waiter -> Nat]
      /\ ts' = [u \in Waiter |-> ts'[u]] /\ result' = [u \in Waiter |-> result'[u]]
  BY DEF StateInv
<1>4. \A u \in Waiter :
          /\ spc'[u] # "idle" /\ call'[u] \in StateSync!Timed
                 => Normal(ts'[u]) /\ Ticks(ts'[u]) = due'[u]
          /\ spc'[u] = "expired" => call'[u] \in StateSync!Timed /\ due'[u] <= now'
  BY <1>1, <1>2 DEF StateInv
<1>5. StateSync!NoSleepThrough'
  <2> SUFFICES ASSUME NEW u \in Waiter, spc'[u] = "asleep"
               PROVE  (~StateSync!Released(call[u]) /\ ~StateSync!Aborted(call[u]))'
    BY DEF StateSync!NoSleepThrough
  <2>1. CASE u = t
    BY <1>2, <2>1 DEF StateSync!Released, StateSync!Aborted
  <2>2. CASE u # t
    <3>1. ~StateSync!Released(call[u]) /\ ~StateSync!Aborted(call[u])
      BY <1>1, <2>2 DEF StateInv, StateSync!NoSleepThrough
    <3> QED BY <1>1, <2>2, <3>1 DEF StateSync!Released, StateSync!Aborted
  <2> QED BY <2>1, <2>2
<1> QED BY <1>3, <1>4, <1>5 DEF StateInv

LEMMA StateNext == StateInv /\ [StateSync!Next]_stateVars => StateInv'
<1> SUFFICES ASSUME StateInv, [StateSync!Next]_stateVars PROVE StateInv'
  OBVIOUS
<1>a. Timeouts \subseteq Nat
  BY MonitorsAssumption DEF MonitorsAssumption
<1>1. ASSUME NEW v \in State, StateSync!state_sync_set(v) PROVE StateInv'
  <2>1. /\ spc' \in [Waiter -> Places]
        /\ \A t \in Waiter : spc'[t] = IF spc[t] = "asleep" THEN "woken" ELSE spc[t]
        /\ UNCHANGED <<now, call, ts, due, result>>
    BY <1>1 DEF StateInv, Places, StateSync!state_sync_set, StateSync!Broadcast
  <2>2. \A t \in Waiter : spc'[t] # "asleep"
    BY <2>1
  <2>3. StateSync!NoSleepThrough'
    BY <2>2 DEF StateSync!NoSleepThrough
  <2>4. \A t \in Waiter : (spc'[t] # "idle" => spc[t] # "idle") /\ (spc'[t] = "expired" => spc[t] = "expired")
    BY <2>1
  <2> QED BY <2>1, <2>3, <2>4 DEF StateInv
<1>2. ASSUME NEW t \in Waiter, NEW f \in StateSync!Calls, NEW timeout \in Timeouts,
             StateSync!state_sync_wait(t, f, timeout)
      PROVE  StateInv'
  <2> DEFINE d == IF f \in StateSync!Timed
                  THEN StateSync!state_sync_timespec_add_ms(StateSync!Clock, timeout)
                  ELSE StateSync!Timespec(0, 0)
             e == IF f \in StateSync!Timed THEN now + timeout ELSE 0
             p == IF f = "wait_ms" THEN "called" ELSE StateSync!After(f, d)
             x == IF f = "wait_ms" THEN "none" ELSE StateSync!Outcome(f)
  <2>1. /\ spc' = [spc EXCEPT ![t] = p] /\ call' = [call EXCEPT ![t] = f]
        /\ ts' = [ts EXCEPT ![t] = d] /\ due' = [due EXCEPT ![t] = e]
        /\ result' = [result EXCEPT ![t] = x] /\ UNCHANGED <<state, now>>
    BY <1>2 DEF StateSync!state_sync_wait
  <2>2. timeout \in Nat /\ now \in Nat
    BY <1>a DEF StateInv
  <2>3. e \in Nat
    BY <2>2
  <2>4. f \in StateSync!Timed => Normal(d) /\ Ticks(d) = e
    BY <2>2, Clockwork, AddsTicks
  <2> HIDE DEF d, e
  <2>5. /\ StateSync!After(f, d) \in Places
        /\ StateSync!After(f, d) = "asleep" => ~StateSync!Released(f) /\ ~StateSync!Aborted(f)
        /\ StateSync!After(f, d) = "expired" => f \in StateSync!Timed /\ Ticks(d) <= now
    BY <2>2, <2>4, AfterFacts
  <2>6. /\ p \in Places
        /\ p = "asleep" => ~StateSync!Released(f) /\ ~StateSync!Aborted(f)
        /\ p = "expired" => f \in StateSync!Timed /\ e <= now
    BY <2>4, <2>5 DEF Places
  <2> HIDE DEF p, x
  <2> QED BY <2>1, <2>3, <2>4, <2>6, WaiterStep
<1>3. ASSUME NEW t \in Waiter, StateSync!Look(t) PROVE StateInv'
  <2> DEFINE p == StateSync!After(call[t], ts[t])
             x == StateSync!Outcome(call[t])
  <2>1. /\ spc' = [spc EXCEPT ![t] = p] /\ result' = [result EXCEPT ![t] = x]
        /\ UNCHANGED <<state, now, call, ts, due>> /\ spc[t] # "idle"
    BY <1>3 DEF StateSync!Look
  <2>2. call' = [call EXCEPT ![t] = call[t]] /\ ts' = [ts EXCEPT ![t] = ts[t]] /\ due' = [due EXCEPT ![t] = due[t]]
    BY <2>1 DEF StateInv
  <2>3. call[t] \in StateSync!Calls /\ due[t] \in Nat /\ now \in Nat
    BY DEF StateInv
  <2>4. call[t] \in StateSync!Timed => Normal(ts[t]) /\ Ticks(ts[t]) = due[t]
    BY <2>1 DEF StateInv
  <2>5. /\ p \in Places
        /\ p = "asleep" => ~StateSync!Released(call[t]) /\ ~StateSync!Aborted(call[t])
        /\ p = "expired" => call[t] \in StateSync!Timed /\ Ticks(ts[t]) <= now
    BY <2>3, <2>4, AfterFacts
  <2>6. p = "expired" => call[t] \in StateSync!Timed /\ due[t] <= now
    BY <2>4, <2>5
  <2>7. UNCHANGED <<state, now>>
    BY <2>1
  <2> HIDE DEF p, x
  <2> QED BY <2>1, <2>2, <2>3, <2>4, <2>5, <2>6, <2>7, WaiterStep, Zenon
<1>4. ASSUME NEW t \in Waiter, StateSync!Expire(t) PROVE StateInv'
  <2>1. /\ spc' = [spc EXCEPT ![t] = "expired"] /\ spc[t] = "asleep"
        /\ call[t] \in StateSync!Timed /\ StateSync!Over(ts[t])
        /\ UNCHANGED <<state, now, call, ts, due, result>>
    BY <1>4 DEF StateSync!Expire
  <2>2. /\ call' = [call EXCEPT ![t] = call[t]] /\ ts' = [ts EXCEPT ![t] = ts[t]]
        /\ due' = [due EXCEPT ![t] = due[t]] /\ result' = [result EXCEPT ![t] = result[t]]
    BY <2>1 DEF StateInv
  <2>3. call[t] \in StateSync!Calls /\ due[t] \in Nat /\ now \in Nat
    BY DEF StateInv
  <2>4. Normal(ts[t]) /\ Ticks(ts[t]) = due[t]
    BY <2>1 DEF StateInv
  <2>5. due[t] <= now
    BY <2>1, <2>3, <2>4, OverIsDue
  <2> DEFINE p == "expired"
  <2>6. /\ p \in Places /\ p # "asleep" /\ call[t] \in StateSync!Timed
        /\ UNCHANGED <<state, now>> /\ spc' = [spc EXCEPT ![t] = p]
    BY <2>1 DEF Places
  <2> HIDE DEF p
  <2> QED BY <2>2, <2>3, <2>4, <2>5, <2>6, WaiterStep, Zenon
<1>5. ASSUME NEW t \in Waiter, StateSync!TimedOut(t) PROVE StateInv'
  <2>1. PICK x : /\ spc' = [spc EXCEPT ![t] = "idle"]
                 /\ UNCHANGED <<state, now, call, ts, due>>
                 /\ result' = [result EXCEPT ![t] = x]
    BY <1>5 DEF StateSync!TimedOut
  <2>2. /\ call' = [call EXCEPT ![t] = call[t]] /\ ts' = [ts EXCEPT ![t] = ts[t]]
        /\ due' = [due EXCEPT ![t] = due[t]]
    BY <2>1 DEF StateInv
  <2>3. call[t] \in StateSync!Calls /\ due[t] \in Nat /\ "idle" \in Places
    BY DEF StateInv, Places
  <2> QED BY <2>1, <2>2, <2>3, WaiterStep
<1>6. ASSUME NEW t \in Waiter, StateSync!SpuriousWakeup(t) PROVE StateInv'
  <2>1. /\ spc' = [spc EXCEPT ![t] = "woken"] /\ spc[t] = "asleep"
        /\ UNCHANGED <<state, now, call, ts, due, result>>
    BY <1>6 DEF StateSync!SpuriousWakeup
  <2>2. /\ call' = [call EXCEPT ![t] = call[t]] /\ ts' = [ts EXCEPT ![t] = ts[t]]
        /\ due' = [due EXCEPT ![t] = due[t]] /\ result' = [result EXCEPT ![t] = result[t]]
    BY <2>1 DEF StateInv
  <2>3. call[t] \in StateSync!Calls /\ due[t] \in Nat /\ "woken" \in Places
    BY DEF StateInv, Places
  <2>4. call[t] \in StateSync!Timed => Normal(ts[t]) /\ Ticks(ts[t]) = due[t]
    BY <2>1 DEF StateInv
  <2> DEFINE p == "woken"
  <2>5. /\ p \in Places /\ p # "asleep" /\ p # "expired"
        /\ UNCHANGED <<state, now>> /\ spc' = [spc EXCEPT ![t] = p]
    BY <2>1, <2>3
  <2> HIDE DEF p
  <2> QED BY <2>2, <2>3, <2>4, <2>5, WaiterStep, Zenon
<1>7. CASE StateSync!Tick
  <2>1. now' = now + 1 /\ UNCHANGED <<state, spc, call, ts, due, result>>
    BY <1>7 DEF StateSync!Tick
  <2>2. StateSync!NoSleepThrough'
    BY <2>1 DEF StateInv, StateSync!NoSleepThrough, StateSync!Released, StateSync!Aborted
  <2>3. \A t \in Waiter : due[t] <= now => due[t] <= now + 1
    BY DEF StateInv
  <2> QED BY <2>1, <2>2, <2>3 DEF StateInv
<1>8. CASE UNCHANGED stateVars
  <2>1. UNCHANGED <<state, now, spc, call, ts, due, result>>
    BY <1>8 DEF stateVars
  <2>2. StateSync!NoSleepThrough'
    BY <2>1 DEF StateInv, StateSync!NoSleepThrough, StateSync!Released, StateSync!Aborted
  <2> QED BY <2>1, <2>2 DEF StateInv
<1> QED BY <1>1, <1>2, <1>3, <1>4, <1>5, <1>6, <1>7, <1>8 DEF StateSync!Next, StateSync!Step

(* The step in which a wait says ETIMEDOUT. *)
LEMMA TimeoutStep ==
    ASSUME StateInv, [StateSync!Next]_stateVars, NEW t \in Waiter,
           result[t] = "none", result'[t] = "ETIMEDOUT"
    PROVE  now >= due[t] /\ (call[t] = "wait_ms_abort" => ~StateSync!Released(call[t]))
<1>1. StateSync!Next
  BY DEF stateVars
<1>2. PICK u \in Waiter : \/ \E f \in StateSync!Calls, timeout \in Timeouts : StateSync!state_sync_wait(u, f, timeout)
                        \/ StateSync!Look(u) \/ StateSync!TimedOut(u)
  BY <1>1 DEF StateSync!Next, StateSync!Step, StateSync!state_sync_set, StateSync!Expire,
              StateSync!SpuriousWakeup, StateSync!Tick
<1>3. CASE \E f \in StateSync!Calls, timeout \in Timeouts : StateSync!state_sync_wait(u, f, timeout)
  <2>1. PICK f \in StateSync!Calls, timeout \in Timeouts : StateSync!state_sync_wait(u, f, timeout)
    BY <1>3
  <2>2. result' = [result EXCEPT ![u] = "none"] \/ result' = [result EXCEPT ![u] = StateSync!Outcome(f)]
    BY <2>1 DEF StateSync!state_sync_wait
  <2>3. StateSync!Outcome(f) # "ETIMEDOUT"
    BY DEF StateSync!Outcome
  <2> QED BY <2>2, <2>3 DEF StateInv
<1>4. CASE StateSync!Look(u)
  <2>1. result' = [result EXCEPT ![u] = StateSync!Outcome(call[u])]
    BY <1>4 DEF StateSync!Look
  <2>2. StateSync!Outcome(call[u]) # "ETIMEDOUT"
    BY DEF StateSync!Outcome
  <2> QED BY <2>1, <2>2 DEF StateInv
<1>5. CASE StateSync!TimedOut(u)
  <2>1. /\ spc[u] = "expired"
        /\ result' = [result EXCEPT ![u] = IF call[u] = "wait_ms_abort" /\ StateSync!Outcome(call[u]) # "none"
                                           THEN StateSync!Outcome(call[u]) ELSE "ETIMEDOUT"]
    BY <1>5 DEF StateSync!TimedOut
  <2>2. u = t
    BY <2>1 DEF StateInv
  <2>3. due[t] <= now /\ due[t] \in Nat /\ now \in Nat
    BY <2>1, <2>2 DEF StateInv
  <2>4. StateSync!Outcome(call[u]) # "ETIMEDOUT" /\ (StateSync!Outcome(call[u]) = "none" => ~StateSync!Released(call[u]))
    BY DEF StateSync!Outcome
  <2>5. call[t] = "wait_ms_abort" => ~StateSync!Released(call[t])
    BY <2>1, <2>2, <2>4 DEF StateInv
  <2> QED BY <2>3, <2>5
<1> QED BY <1>2, <1>3, <1>4, <1>5

-----------------------------------------------------------------------------
(* The Windows pool *)

InMalloc == {t \in User : win_pc[t] \in {"try_malloc", "wait_malloc"}}

WinPlaces == {"idle", "no_block", "no_memory", "destroying", "woken", "try_malloc", "wait_malloc", "destroyed"}

WinTypeOK ==
    /\ w_total_blocks \in Nat /\ w_in_use \in Nat /\ allocators \in Nat /\ w_free_list \in Nat
    /\ win_pc \in [Win!Threads -> WinPlaces]
    /\ win_pc[Destroyer] \in {"idle", "destroying", "woken", "destroyed"}
    /\ w_out \in [User -> BOOLEAN]

(* The allocators are the threads in malloc, and who has a block is in no call. *)
WinInv ==
    /\ WinTypeOK
    /\ \A t \in User : w_out[t] => win_pc[t] = "idle"
    /\ allocators = Cardinality(InMalloc)
    /\ Win!WinBlocksAccounted
    /\ Win!WinNoLostWakeup

LEMMA WinThreads ==
    /\ IsFiniteSet(User) /\ Destroyer \notin User /\ WinCap \in Nat
    /\ User \subseteq Win!Threads /\ Destroyer \in Win!Threads
    /\ IsFiniteSet(Win!Threads)
<1>1. IsFiniteSet(User) /\ Destroyer \notin User /\ WinCap \in Nat
  BY MonitorsAssumption DEF MonitorsAssumption
<1>2. IsFiniteSet(User \cup {Destroyer})
  BY <1>1, FS_AddElement
<1> QED BY <1>1, <1>2 DEF Win!Threads

(* Counting in PoolWin is counting. *)
LEMMA SameCount == ASSUME NEW S PROVE Win!Cardinality(S) = Cardinality(S)
BY DEF Win!Cardinality, Cardinality

LEMMA WinCounts ==
    /\ IsFiniteSet(InMalloc) /\ Cardinality(InMalloc) \in Nat
    /\ IsFiniteSet(Win!Held) /\ Cardinality(Win!Held) \in Nat
    /\ IsFiniteSet(Win!Woken) /\ Cardinality(Win!Woken) \in Nat
    /\ Cardinality(InMalloc) = 0 <=> InMalloc = {}
<1>1. InMalloc \subseteq User /\ Win!Held \subseteq User /\ Win!Woken \subseteq Win!Threads
  BY DEF InMalloc, Win!Held, Win!Woken
<1>2. IsFiniteSet(InMalloc) /\ IsFiniteSet(Win!Held) /\ IsFiniteSet(Win!Woken)
  BY <1>1, WinThreads, FS_Subset
<1> QED BY <1>2, FS_CardinalityType, FS_EmptySet

LEMMA WinInit == Win!win_pool_init => WinInv
<1> SUFFICES ASSUME Win!win_pool_init PROVE WinInv
  OBVIOUS
<1> USE WinThreads
<1>1. win_pc \in [Win!Threads -> WinPlaces] /\ \A t \in Win!Threads : win_pc[t] = "idle"
  BY DEF Win!win_pool_init, WinPlaces
<1>2. w_out \in [User -> BOOLEAN] /\ \A t \in User : ~w_out[t]
  BY DEF Win!win_pool_init
<1>3. w_total_blocks = 0 /\ w_in_use = 0 /\ allocators = 0 /\ w_free_list = 0
  BY DEF Win!win_pool_init
<1>4. InMalloc = {} /\ Win!Held = {}
  BY <1>1, <1>2 DEF InMalloc, Win!Held
<1>5. Cardinality(InMalloc) = 0 /\ Cardinality(Win!Held) = 0
  BY <1>4, FS_EmptySet
<1>6. WinTypeOK
  <2>1. win_pc[Destroyer] = "idle"
    BY <1>1
  <2> QED BY <1>1, <1>2, <1>3, <2>1 DEF WinTypeOK
<1>7. Win!WinBlocksAccounted
  <2>1. win_pc[Destroyer] = "idle"
    BY <1>1
  <2>2. 0 <= WinCap /\ w_total_blocks = w_free_list + w_in_use
    BY <1>3
  <2> QED BY SameCount, <1>3, <1>5, <2>1, <2>2 DEF Win!WinBlocksAccounted
<1>8. Win!WinNoLostWakeup
  BY SameCount, <1>1 DEF Win!WinNoLostWakeup
<1> QED BY <1>2, <1>3, <1>5, <1>6, <1>7, <1>8 DEF WinInv

(* A block is handed out, or comes back. *)
LEMMA HeldMoves ==
    ASSUME WinTypeOK, NEW t \in User
    PROVE  /\ ~w_out[t] /\ w_out' = [w_out EXCEPT ![t] = TRUE]
                  => Cardinality(Win!Held') = Cardinality(Win!Held) + 1
           /\ w_out[t] /\ w_out' = [w_out EXCEPT ![t] = FALSE]
                  => Cardinality(Win!Held') = Cardinality(Win!Held) - 1 /\ Cardinality(Win!Held) > 0
           /\ UNCHANGED w_out => Win!Held' = Win!Held
<1>1. ASSUME ~w_out[t], w_out' = [w_out EXCEPT ![t] = TRUE]
      PROVE  Cardinality(Win!Held') = Cardinality(Win!Held) + 1
  <2>1. Win!Held' = Win!Held \cup {t} /\ t \notin Win!Held
    BY <1>1 DEF WinTypeOK, Win!Held
  <2> QED BY <2>1, WinCounts, FS_AddElement
<1>2. ASSUME w_out[t], w_out' = [w_out EXCEPT ![t] = FALSE]
      PROVE  Cardinality(Win!Held') = Cardinality(Win!Held) - 1 /\ Cardinality(Win!Held) > 0
  <2>1. Win!Held' = Win!Held \ {t} /\ t \in Win!Held
    BY <1>2 DEF WinTypeOK, Win!Held
  <2>2. Cardinality(Win!Held') = Cardinality(Win!Held) - 1
    BY <2>1, WinCounts, FS_RemoveElement
  <2>3. Cardinality(Win!Held) # 0
    BY <2>1, WinCounts, FS_EmptySet
  <2> QED BY <2>2, <2>3, WinCounts
<1>3. UNCHANGED w_out => Win!Held' = Win!Held
  BY DEF Win!Held
<1> QED BY <1>1, <1>2, <1>3

(* One thread goes from where it is to p. *)
LEMMA WinMoves ==
    ASSUME WinTypeOK, NEW t \in User, NEW p \in WinPlaces, win_pc' = [win_pc EXCEPT ![t] = p],
           p # "woken"
    PROVE  /\ win_pc' \in [Win!Threads -> WinPlaces]
           /\ win_pc'[t] = p /\ \A u \in Win!Threads : u # t => win_pc'[u] = win_pc[u]
           /\ win_pc'[Destroyer] = win_pc[Destroyer]
           /\ Win!Woken' = Win!Woken \ {t}
           /\ Cardinality(Win!Woken') \in Nat
           /\ Cardinality(Win!Woken') >= Cardinality(Win!Woken) - 1
           /\ win_pc[t] # "woken" => Win!Woken' = Win!Woken
<1>1. win_pc' \in [Win!Threads -> WinPlaces]
  BY WinThreads DEF WinTypeOK
<1>2. win_pc'[t] = p /\ \A u \in Win!Threads : u # t => win_pc'[u] = win_pc[u]
  BY WinThreads DEF WinTypeOK
<1>3. Win!Woken' = Win!Woken \ {t}
  BY <1>2, WinThreads DEF Win!Woken
<1>4. Cardinality(Win!Woken') \in Nat /\ Cardinality(Win!Woken') >= Cardinality(Win!Woken) - 1
  <2>1. Cardinality(Win!Woken \ {t}) = IF t \in Win!Woken THEN Cardinality(Win!Woken) - 1 ELSE Cardinality(Win!Woken)
    BY WinCounts, FS_RemoveElement
  <2>2. IsFiniteSet(Win!Woken \ {t})
    BY WinCounts, FS_RemoveElement
  <2>3. Cardinality(Win!Woken \ {t}) \in Nat
    BY <2>2, FS_CardinalityType
  <2> QED BY <1>3, <2>1, <2>3, WinCounts
<1>5. win_pc[t] # "woken" => t \notin Win!Woken
  BY DEF Win!Woken
<1>6. win_pc'[Destroyer] = win_pc[Destroyer]
  BY <1>2, WinThreads
<1> QED BY <1>1, <1>2, <1>3, <1>4, <1>5, <1>6

(* Everybody who sleeps is woken. *)
LEMMA AllWoken ==
    ASSUME WinTypeOK, NEW t \in User, NEW p \in WinPlaces, Win!WakeAll(t, p)
    PROVE  /\ win_pc' \in [Win!Threads -> WinPlaces]
           /\ win_pc'[t] = p
           /\ \A u \in User : u # t => win_pc'[u] = win_pc[u] \/ win_pc'[u] = "woken"
           /\ \A u \in User : u # t => win_pc'[u] # "no_block"
           /\ \A u \in User : u # t => (win_pc'[u] \in {"try_malloc", "wait_malloc"}
                                         <=> win_pc[u] \in {"try_malloc", "wait_malloc"})
           /\ \A u \in User : u # t /\ win_pc[u] = "idle" => win_pc'[u] = "idle"
           /\ win_pc'[Destroyer] = IF win_pc[Destroyer] = "destroying" THEN "woken" ELSE win_pc[Destroyer]
<1> USE WinThreads
<1>1. \A u \in Win!Threads : win_pc'[u] = IF u = t THEN p ELSE IF u \in Win!Sleeping THEN "woken" ELSE win_pc[u]
  BY DEF Win!WakeAll
<1>2. win_pc' \in [Win!Threads -> WinPlaces]
  BY <1>1 DEF Win!WakeAll, WinTypeOK, WinPlaces
<1>3. Destroyer \in Win!Sleeping <=> win_pc[Destroyer] = "destroying"
  BY DEF Win!Sleeping, WinTypeOK
<1>4. \A u \in User : u \in Win!Sleeping <=> win_pc[u] \in {"no_block", "no_memory", "destroying"}
  BY DEF Win!Sleeping
<1> QED BY <1>1, <1>2, <1>3, <1>4

(* The threads in malloc after a step of t. *)
LEMMA MallocMoves ==
    ASSUME NEW t \in User,
           \A u \in User : u # t => (win_pc'[u] \in {"try_malloc", "wait_malloc"}
                                     <=> win_pc[u] \in {"try_malloc", "wait_malloc"})
    PROVE  /\ t \in InMalloc /\ t \notin InMalloc'
                  => Cardinality(InMalloc') = Cardinality(InMalloc) - 1 /\ Cardinality(InMalloc) > 0
           /\ t \notin InMalloc /\ t \in InMalloc' => Cardinality(InMalloc') = Cardinality(InMalloc) + 1
           /\ t \notin InMalloc /\ t \notin InMalloc' => InMalloc' = InMalloc
<1>1. ASSUME t \in InMalloc, t \notin InMalloc'
      PROVE  Cardinality(InMalloc') = Cardinality(InMalloc) - 1 /\ Cardinality(InMalloc) > 0
  <2>1. InMalloc' = InMalloc \ {t}
    BY <1>1 DEF InMalloc
  <2>2. Cardinality(InMalloc') = Cardinality(InMalloc) - 1
    BY <1>1, <2>1, WinCounts, FS_RemoveElement
  <2> QED BY <1>1, <2>2, WinCounts
<1>2. ASSUME t \notin InMalloc, t \in InMalloc'
      PROVE  Cardinality(InMalloc') = Cardinality(InMalloc) + 1
  <2>1. InMalloc' = InMalloc \cup {t}
    BY <1>2 DEF InMalloc
  <2> QED BY <1>2, <2>1, WinCounts, FS_AddElement
<1>3. ASSUME t \notin InMalloc, t \notin InMalloc'
      PROVE  InMalloc' = InMalloc
  BY <1>3 DEF InMalloc
<1> QED BY <1>1, <1>2, <1>3

(* A free block is handed to t, which waited for one or asks for one. *)
LEMMA RecycleInv ==
    ASSUME WinInv, NEW t \in User, ~w_out[t], t \notin InMalloc, win_pc[Destroyer] # "destroyed",
           Win!Recycle(t)
    PROVE  WinInv'
<1>1. /\ w_free_list > 0 /\ w_free_list' = w_free_list - 1 /\ w_in_use' = w_in_use + 1
      /\ w_out' = [w_out EXCEPT ![t] = TRUE] /\ win_pc' = [win_pc EXCEPT ![t] = "idle"]
      /\ UNCHANGED <<w_total_blocks, allocators>>
  BY DEF Win!Recycle
<1>2. WinTypeOK /\ "idle" \in WinPlaces
  BY DEF WinInv, WinPlaces
<1>3. /\ win_pc' \in [Win!Threads -> WinPlaces]
      /\ win_pc'[t] = "idle" /\ \A u \in Win!Threads : u # t => win_pc'[u] = win_pc[u]
      /\ win_pc'[Destroyer] = win_pc[Destroyer]
      /\ Cardinality(Win!Woken') \in Nat
      /\ Cardinality(Win!Woken') >= Cardinality(Win!Woken) - 1
  BY <1>1, <1>2, WinMoves
<1>4. \A u \in User : u # t => win_pc'[u] = win_pc[u]
  BY <1>3, WinThreads
<1>5. InMalloc' = InMalloc
  BY <1>3, <1>4, MallocMoves DEF InMalloc
<1>6. Cardinality(Win!Held') = Cardinality(Win!Held) + 1
  BY <1>1, <1>2, HeldMoves
<1>7. w_out' \in [User -> BOOLEAN] /\ \A u \in User : u # t => w_out'[u] = w_out[u]
  BY <1>1, <1>2 DEF WinTypeOK
<1>8. WinTypeOK'
  BY <1>1, <1>2, <1>3, <1>7 DEF WinTypeOK
<1>9. Win!WinBlocksAccounted'
  BY SameCount, <1>1, <1>2, <1>3, <1>6 DEF WinInv, WinTypeOK, Win!WinBlocksAccounted
<1>10. Win!WinNoLostWakeup'
  BY SameCount, <1>1, <1>2, <1>3, <1>4, WinCounts DEF WinInv, WinTypeOK, Win!WinNoLostWakeup
<1>11. allocators' = Cardinality(InMalloc')
  BY <1>1, <1>5 DEF WinInv
<1> QED BY <1>3, <1>4, <1>7, <1>8, <1>9, <1>10, <1>11 DEF WinInv

(* t leaves the lock for malloc. *)
LEMMA AllocateInv ==
    ASSUME WinInv, NEW t \in User, ~w_out[t], t \notin InMalloc, win_pc[Destroyer] # "destroyed",
           NEW p \in {"try_malloc", "wait_malloc"}, Win!Allocate(t, p)
    PROVE  WinInv'
<1>1. /\ w_free_list = 0 /\ allocators' = allocators + 1 /\ win_pc' = [win_pc EXCEPT ![t] = p]
      /\ UNCHANGED <<w_total_blocks, w_in_use, w_free_list, w_out>>
  BY DEF Win!Allocate
<1>2. WinTypeOK /\ p \in WinPlaces /\ p # "woken"
  BY DEF WinInv, WinPlaces
<1>3. /\ win_pc' \in [Win!Threads -> WinPlaces]
      /\ win_pc'[t] = p /\ \A u \in Win!Threads : u # t => win_pc'[u] = win_pc[u]
      /\ win_pc'[Destroyer] = win_pc[Destroyer]
      /\ Cardinality(Win!Woken') \in Nat
  BY <1>1, <1>2, WinMoves
<1>4. \A u \in User : u # t => win_pc'[u] = win_pc[u]
  BY <1>3, WinThreads
<1>5. Cardinality(InMalloc') = Cardinality(InMalloc) + 1
  BY <1>3, <1>4, MallocMoves DEF InMalloc
<1>6. Win!Held' = Win!Held
  BY <1>1, <1>2, HeldMoves
<1>7. WinTypeOK'
  BY <1>1, <1>2, <1>3 DEF WinTypeOK
<1>8. Win!WinBlocksAccounted'
  BY SameCount, <1>1, <1>2, <1>3, <1>6 DEF WinInv, WinTypeOK, Win!WinBlocksAccounted
<1>9. Win!WinNoLostWakeup'
  BY SameCount, <1>1, <1>3 DEF Win!WinNoLostWakeup
<1>10. allocators' = Cardinality(InMalloc')
  BY <1>1, <1>5 DEF WinInv
<1> QED BY <1>1, <1>3, <1>4, <1>7, <1>8, <1>9, <1>10 DEF WinInv

(* t sleeps. *)
LEMMA NoBlockInv ==
    ASSUME WinInv, NEW t \in User, ~w_out[t], t \notin InMalloc,
           w_free_list = 0, win_pc' = [win_pc EXCEPT ![t] = "no_block"],
           UNCHANGED <<w_total_blocks, w_in_use, allocators, w_free_list, w_out>>
    PROVE  WinInv'
<1>2. WinTypeOK /\ "no_block" \in WinPlaces
  BY DEF WinInv, WinPlaces
<1>3. /\ win_pc' \in [Win!Threads -> WinPlaces]
      /\ win_pc'[t] = "no_block" /\ \A u \in Win!Threads : u # t => win_pc'[u] = win_pc[u]
      /\ win_pc'[Destroyer] = win_pc[Destroyer]
      /\ Cardinality(Win!Woken') \in Nat
  BY <1>2, WinMoves
<1>4. \A u \in User : u # t => win_pc'[u] = win_pc[u]
  BY <1>3, WinThreads
<1>5. InMalloc' = InMalloc
  BY <1>3, <1>4, MallocMoves DEF InMalloc
<1>6. Win!Held' = Win!Held
  BY <1>2, HeldMoves
<1>7. WinTypeOK'
  BY <1>2, <1>3 DEF WinTypeOK
<1>8. Win!WinBlocksAccounted'
  BY SameCount, <1>2, <1>3, <1>4, <1>6 DEF WinInv, WinTypeOK, Win!WinBlocksAccounted
<1>9. Win!WinNoLostWakeup'
  BY SameCount, <1>3 DEF Win!WinNoLostWakeup
<1>10. allocators' = Cardinality(InMalloc')
  BY <1>5 DEF WinInv
<1> QED BY <1>3, <1>4, <1>7, <1>8, <1>9, <1>10 DEF WinInv

(* t comes back from malloc and wakes all: without a block, or with a        *)
(* recycled one.                                                             *)
LEMMA BackInv ==
    ASSUME WinInv, NEW t \in InMalloc, allocators' = allocators - 1, UNCHANGED w_total_blocks,
           NEW p \in {"idle", "no_block"}, Win!WakeAll(t, p), p = "no_block" => w_free_list = 0,
           \/ UNCHANGED <<w_in_use, w_free_list, w_out>>
           \/ /\ w_free_list > 0 /\ p = "idle"
              /\ w_free_list' = w_free_list - 1 /\ w_in_use' = w_in_use + 1
              /\ w_out' = [w_out EXCEPT ![t] = TRUE]
    PROVE  WinInv'
<1>1. t \in User /\ win_pc[t] \in {"try_malloc", "wait_malloc"} /\ ~w_out[t]
  BY DEF InMalloc, WinInv, WinTypeOK
<1>2. WinTypeOK /\ p \in WinPlaces /\ win_pc[Destroyer] # "destroyed"
  BY <1>1 DEF WinInv, WinPlaces, Win!WinBlocksAccounted
<1>3. /\ win_pc' \in [Win!Threads -> WinPlaces]
      /\ win_pc'[t] = p
      /\ \A u \in User : u # t => win_pc'[u] # "no_block"
      /\ \A u \in User : u # t => (win_pc'[u] \in {"try_malloc", "wait_malloc"}
                                    <=> win_pc[u] \in {"try_malloc", "wait_malloc"})
      /\ \A u \in User : u # t /\ win_pc[u] = "idle" => win_pc'[u] = "idle"
      /\ win_pc'[Destroyer] = IF win_pc[Destroyer] = "destroying" THEN "woken" ELSE win_pc[Destroyer]
  BY <1>1, <1>2, AllWoken
<1>4. Cardinality(InMalloc') = Cardinality(InMalloc) - 1 /\ Cardinality(InMalloc) > 0
  <2>1. t \notin InMalloc'
    BY <1>3 DEF InMalloc
  <2> QED BY <1>1, <1>3, <2>1, MallocMoves
<1>5. /\ w_in_use' = Cardinality(Win!Held') /\ w_out' \in [User -> BOOLEAN]
      /\ \A u \in User : u # t => w_out'[u] = w_out[u]
      /\ w_out'[t] => p = "idle"
      /\ w_in_use' \in Nat /\ w_free_list' \in Nat
      /\ w_free_list' + w_in_use' = w_free_list + w_in_use
  <2>1. w_in_use = Cardinality(Win!Held) /\ w_in_use \in Nat /\ w_free_list \in Nat /\ w_out \in [User -> BOOLEAN]
    BY SameCount DEF WinInv, Win!WinBlocksAccounted, WinTypeOK
  <2>2. CASE UNCHANGED <<w_in_use, w_free_list, w_out>>
    BY <1>1, <1>2, <2>1, <2>2, HeldMoves
  <2>3. CASE /\ w_free_list > 0 /\ p = "idle"
             /\ w_free_list' = w_free_list - 1 /\ w_in_use' = w_in_use + 1
             /\ w_out' = [w_out EXCEPT ![t] = TRUE]
    <3>1. Cardinality(Win!Held') = Cardinality(Win!Held) + 1
      BY <1>1, <1>2, <2>3, HeldMoves
    <3>2. w_out' \in [User -> BOOLEAN] /\ \A u \in User : u # t => w_out'[u] = w_out[u]
      BY <2>1, <2>3
    <3> QED BY <2>1, <2>3, <3>1, <3>2
  <2> QED BY <2>2, <2>3
<1>6. allocators' = Cardinality(InMalloc') /\ allocators' \in Nat
  BY <1>4, WinCounts DEF WinInv
<1>7. WinTypeOK'
  BY <1>2, <1>3, <1>5, <1>6 DEF WinTypeOK
<1>8. Win!WinBlocksAccounted'
  BY SameCount, <1>2, <1>3, <1>5 DEF WinInv, WinTypeOK, Win!WinBlocksAccounted
<1>9. Win!WinNoLostWakeup'
  <2>1. CASE p = "idle"
    BY <1>1, <1>3, <2>1 DEF Win!WinNoLostWakeup
  <2>2. CASE p = "no_block"
    <3>1. w_free_list' = 0
      BY <1>2, <2>2 DEF WinTypeOK
    <3>2. Win!Woken' \subseteq Win!Threads
      BY DEF Win!Woken
    <3>3. Cardinality(Win!Woken') \in Nat
      BY <3>2, WinThreads, FS_Subset, FS_CardinalityType
    <3> QED BY SameCount, <3>1, <3>3 DEF Win!WinNoLostWakeup
  <2> QED BY <2>1, <2>2
<1>10. \A u \in User : w_out'[u] => win_pc'[u] = "idle"
  BY <1>3, <1>5 DEF WinInv
<1> QED BY <1>6, <1>7, <1>8, <1>9, <1>10 DEF WinInv

(* malloc returned a block that is counted, or no block and t sleeps. *)
LEMMA AddedInv ==
    ASSUME WinInv, NEW t \in InMalloc, allocators' = allocators - 1, UNCHANGED w_free_list,
           NEW p \in {"idle", "no_memory"}, win_pc' = [win_pc EXCEPT ![t] = p],
           \/ UNCHANGED <<w_total_blocks, w_in_use, w_out>>
           \/ /\ ~Win!AtCap /\ p = "idle"
              /\ w_total_blocks' = w_total_blocks + 1 /\ w_in_use' = w_in_use + 1
              /\ w_out' = [w_out EXCEPT ![t] = TRUE]
    PROVE  WinInv'
<1>1. t \in User /\ win_pc[t] \in {"try_malloc", "wait_malloc"} /\ ~w_out[t]
  BY DEF InMalloc, WinInv, WinTypeOK
<1>2. WinTypeOK /\ p \in WinPlaces /\ p # "woken" /\ win_pc[Destroyer] # "destroyed"
  BY <1>1 DEF WinInv, WinPlaces, Win!WinBlocksAccounted
<1>3. /\ win_pc' \in [Win!Threads -> WinPlaces]
      /\ win_pc'[t] = p /\ \A u \in Win!Threads : u # t => win_pc'[u] = win_pc[u]
      /\ win_pc'[Destroyer] = win_pc[Destroyer]
      /\ Win!Woken' = Win!Woken
  BY <1>1, <1>2, WinMoves
<1>4. \A u \in User : u # t => win_pc'[u] = win_pc[u]
  BY <1>3, WinThreads
<1>5. Cardinality(InMalloc') = Cardinality(InMalloc) - 1 /\ Cardinality(InMalloc) > 0
  <2>1. t \notin InMalloc'
    BY <1>3 DEF InMalloc
  <2> QED BY <1>1, <1>4, <2>1, MallocMoves
<1>6. /\ w_in_use' = Cardinality(Win!Held') /\ w_out' \in [User -> BOOLEAN]
      /\ \A u \in User : u # t => w_out'[u] = w_out[u]
      /\ w_out'[t] => p = "idle"
      /\ w_in_use' \in Nat /\ w_total_blocks' \in Nat
      /\ w_total_blocks' - w_in_use' = w_total_blocks - w_in_use
      /\ (WinCap # 0 => w_total_blocks' <= WinCap)
  <2>1. /\ w_in_use = Cardinality(Win!Held) /\ w_in_use \in Nat /\ w_total_blocks \in Nat
        /\ w_out \in [User -> BOOLEAN] /\ (WinCap # 0 => w_total_blocks <= WinCap)
    BY SameCount DEF WinInv, Win!WinBlocksAccounted, WinTypeOK
  <2>2. CASE UNCHANGED <<w_total_blocks, w_in_use, w_out>>
    BY <1>1, <1>2, <2>1, <2>2, HeldMoves
  <2>3. CASE /\ ~Win!AtCap /\ p = "idle"
             /\ w_total_blocks' = w_total_blocks + 1 /\ w_in_use' = w_in_use + 1
             /\ w_out' = [w_out EXCEPT ![t] = TRUE]
    <3>1. WinCap # 0 => w_total_blocks' <= WinCap
      BY <2>1, <2>3, WinThreads DEF Win!AtCap
    <3>2. Cardinality(Win!Held') = Cardinality(Win!Held) + 1
      BY <1>1, <1>2, <2>3, HeldMoves
    <3>3. w_out' \in [User -> BOOLEAN] /\ \A u \in User : u # t => w_out'[u] = w_out[u]
      BY <2>1, <2>3
    <3> QED BY <2>1, <2>3, <3>1, <3>2, <3>3
  <2> QED BY <2>2, <2>3
<1>7. allocators' = Cardinality(InMalloc') /\ allocators' \in Nat
  BY <1>5, WinCounts DEF WinInv
<1>8. WinTypeOK'
  BY <1>2, <1>3, <1>6, <1>7 DEF WinTypeOK
<1>9. Win!WinBlocksAccounted'
  <2>1. w_total_blocks' = w_free_list' + w_in_use'
    BY <1>2, <1>6 DEF WinInv, WinTypeOK, Win!WinBlocksAccounted
  <2> QED BY SameCount, <1>2, <1>3, <1>6, <2>1 DEF Win!WinBlocksAccounted
<1>10. Win!WinNoLostWakeup'
  BY <1>2, <1>3, <1>4 DEF WinInv, Win!WinNoLostWakeup
<1>11. \A u \in User : w_out'[u] => win_pc'[u] = "idle"
  BY <1>3, <1>4, <1>6 DEF WinInv
<1> QED BY <1>7, <1>8, <1>9, <1>10, <1>11 DEF WinInv

(* A block comes back, and one of those who sleep is woken. *)
LEMMA PutInv ==
    ASSUME WinInv, NEW t \in User, Win!win_put(t)
    PROVE  WinInv'
<1>1. /\ w_out[t] /\ win_pc[Destroyer] # "destroyed"
      /\ w_out' = [w_out EXCEPT ![t] = FALSE] /\ w_in_use' = w_in_use - 1
      /\ w_free_list' = w_free_list + 1 /\ UNCHANGED <<w_total_blocks, allocators>>
  BY DEF Win!win_put
<1>2. WinTypeOK
  BY DEF WinInv
<1>3. Cardinality(Win!Held') = Cardinality(Win!Held) - 1 /\ Cardinality(Win!Held) > 0
  BY <1>1, <1>2, HeldMoves
<1>4. w_out' \in [User -> BOOLEAN] /\ \A u \in User : w_out'[u] => w_out[u]
  BY <1>1, <1>2 DEF WinTypeOK
<1>5. w_in_use = Cardinality(Win!Held) /\ w_in_use' = Cardinality(Win!Held') /\ w_in_use' \in Nat
  BY SameCount, <1>1, <1>3, WinCounts DEF WinInv, Win!WinBlocksAccounted
<1>6. CASE Win!Sleeping = {}
  <2>1. UNCHANGED win_pc
    BY <1>6 DEF Win!win_put
  <2>2. \A u \in User : win_pc'[u] # "no_block"
    BY <1>6, <2>1, WinThreads DEF Win!Sleeping
  <2>3. InMalloc' = InMalloc
    BY <2>1 DEF InMalloc
  <2>4. WinTypeOK'
    BY <1>1, <1>2, <1>4, <1>5, <2>1 DEF WinTypeOK
  <2>5. Win!WinBlocksAccounted'
    BY SameCount, <1>1, <1>2, <1>5, <2>1 DEF WinInv, WinTypeOK, Win!WinBlocksAccounted
  <2>6. Win!WinNoLostWakeup'
    BY <2>2 DEF Win!WinNoLostWakeup
  <2> QED BY <1>1, <1>4, <2>1, <2>3, <2>4, <2>5, <2>6 DEF WinInv
<1>7. CASE Win!Sleeping # {}
  <2>1. PICK u \in Win!Sleeping : win_pc' = [win_pc EXCEPT ![u] = "woken"]
    BY <1>7 DEF Win!win_put
  <2>2. u \in Win!Threads /\ win_pc[u] \in {"no_block", "no_memory", "destroying"}
    BY DEF Win!Sleeping
  <2>3. /\ win_pc' \in [Win!Threads -> WinPlaces] /\ win_pc'[u] = "woken"
        /\ \A v \in Win!Threads : v # u => win_pc'[v] = win_pc[v]
    BY <1>2, <2>1, <2>2 DEF WinTypeOK, WinPlaces
  <2>4. Win!Woken' = Win!Woken \cup {u} /\ u \notin Win!Woken
    BY <2>2, <2>3 DEF Win!Woken
  <2>5. Cardinality(Win!Woken') = Cardinality(Win!Woken) + 1
    BY <2>4, WinCounts, FS_AddElement
  <2>6. \A v \in User : win_pc'[v] # "woken" => win_pc'[v] = win_pc[v]
    BY <2>3, WinThreads
  <2>7. \A v \in User : win_pc[v] \in {"idle", "try_malloc", "wait_malloc"} => win_pc'[v] = win_pc[v]
    BY <2>2, <2>3, WinThreads
  <2>8. InMalloc' = InMalloc
    BY <2>6, <2>7 DEF InMalloc
  <2>9. /\ win_pc'[Destroyer] \in {win_pc[Destroyer], "woken"}
        /\ (win_pc'[Destroyer] = "idle" => win_pc[Destroyer] = "idle")
    BY <2>3, WinThreads
  <2>10. WinTypeOK'
    BY <1>1, <1>2, <1>4, <1>5, <2>3, <2>9 DEF WinTypeOK
  <2>11. Win!WinBlocksAccounted'
    BY SameCount, <1>1, <1>2, <1>5, <2>9 DEF WinInv, WinTypeOK, Win!WinBlocksAccounted
  <2>12. Win!WinNoLostWakeup'
    <3>1. Cardinality(Win!Woken) \in Nat /\ w_free_list \in Nat
      BY <1>2, WinCounts DEF WinTypeOK
    <3> QED BY SameCount, <1>1, <2>5, <2>6, <2>9, <3>1 DEF WinInv, Win!WinNoLostWakeup
  <2> QED BY <1>1, <1>4, <2>7, <2>8, <2>10, <2>11, <2>12 DEF WinInv
<1> QED BY <1>6, <1>7

LEMMA DestroyInv ==
    ASSUME WinInv, Win!win_destroy
    PROVE  WinInv'
<1> DEFINE p == IF allocators > 0 THEN "destroying" ELSE "destroyed"
<1>1. /\ win_pc' = [win_pc EXCEPT ![Destroyer] = p]
      /\ w_free_list' = IF allocators > 0 THEN w_free_list ELSE 0
      /\ UNCHANGED <<w_total_blocks, w_in_use, allocators, w_out>>
      /\ win_pc[Destroyer] \in {"idle", "woken"}
  BY DEF Win!win_destroy
<1>2. WinTypeOK /\ p \in {"destroying", "destroyed"}
  BY DEF WinInv
<1>3. /\ win_pc' \in [Win!Threads -> WinPlaces] /\ win_pc'[Destroyer] = p
      /\ \A u \in User : win_pc'[u] = win_pc[u]
  <2>1. win_pc' \in [Win!Threads -> WinPlaces] /\ win_pc'[Destroyer] = p
    BY <1>1, <1>2, WinThreads DEF WinTypeOK, WinPlaces
  <2>2. \A u \in User : win_pc'[u] = win_pc[u]
    BY <1>1, <1>2, WinThreads DEF WinTypeOK
  <2> QED BY <2>1, <2>2
<1>4. InMalloc' = InMalloc /\ Win!Held' = Win!Held
  BY <1>1, <1>3 DEF InMalloc, Win!Held
<1>5. p = "destroyed" => \A u \in User : win_pc'[u] \notin {"try_malloc", "wait_malloc"}
  <2>1. p = "destroyed" => allocators = 0
    BY <1>2 DEF WinTypeOK
  <2>2. allocators = 0 => InMalloc = {}
    BY WinCounts DEF WinInv
  <2> QED BY <1>3, <2>1, <2>2 DEF InMalloc
<1>6. WinTypeOK'
  BY <1>1, <1>2, <1>3 DEF WinTypeOK
<1>7. Win!WinBlocksAccounted'
  BY SameCount, <1>1, <1>2, <1>3, <1>4, <1>5 DEF WinInv, Win!WinBlocksAccounted
<1>8. Win!WinNoLostWakeup'
  BY <1>2, <1>3 DEF Win!WinNoLostWakeup
<1> QED BY <1>1, <1>3, <1>4, <1>6, <1>7, <1>8 DEF WinInv

LEMMA SpuriousInv ==
    ASSUME WinInv, NEW t \in Win!Threads, Win!SpuriousWakeup(t)
    PROVE  WinInv'
<1>1. /\ win_pc' = [win_pc EXCEPT ![t] = "woken"]
      /\ UNCHANGED <<w_total_blocks, w_in_use, allocators, w_free_list, w_out>>
      /\ win_pc[t] \in {"no_block", "no_memory", "destroying"}
  BY DEF Win!SpuriousWakeup, Win!Sleeping
<1>2. WinTypeOK
  BY DEF WinInv
<1>3. /\ win_pc' \in [Win!Threads -> WinPlaces] /\ win_pc'[t] = "woken"
      /\ \A v \in Win!Threads : v # t => win_pc'[v] = win_pc[v]
  BY <1>1, <1>2 DEF WinTypeOK, WinPlaces
<1>4. Win!Woken' = Win!Woken \cup {t} /\ t \notin Win!Woken
  BY <1>1, <1>3 DEF Win!Woken
<1>5. Cardinality(Win!Woken') = Cardinality(Win!Woken) + 1
  BY <1>4, WinCounts, FS_AddElement
<1>6. \A v \in User : /\ win_pc'[v] # "woken" => win_pc'[v] = win_pc[v]
                     /\ win_pc[v] \in {"idle", "try_malloc", "wait_malloc"} => win_pc'[v] = win_pc[v]
  BY <1>1, <1>3, WinThreads
<1>7. InMalloc' = InMalloc /\ Win!Held' = Win!Held
  BY <1>1, <1>6 DEF InMalloc, Win!Held
<1>8. /\ win_pc'[Destroyer] \in {win_pc[Destroyer], "woken"}
      /\ win_pc'[Destroyer] = "idle" => win_pc[Destroyer] = "idle"
      /\ win_pc'[Destroyer] = "woken" => win_pc[Destroyer] # "destroyed"
  BY <1>1, <1>2, <1>3, WinThreads DEF WinTypeOK
<1>9. WinTypeOK'
  BY <1>1, <1>2, <1>3, <1>8 DEF WinTypeOK
<1>10. Win!WinBlocksAccounted'
  BY SameCount, <1>1, <1>2, <1>6, <1>7, <1>8 DEF WinInv, WinTypeOK, Win!WinBlocksAccounted
<1>11. Win!WinNoLostWakeup'
  <2>1. Cardinality(Win!Woken) \in Nat /\ w_free_list \in Nat
    BY <1>2, WinCounts DEF WinTypeOK
  <2> QED BY SameCount, <1>1, <1>5, <1>6, <1>8, <2>1 DEF WinInv, Win!WinNoLostWakeup
<1> QED BY <1>1, <1>6, <1>7, <1>9, <1>10, <1>11 DEF WinInv

LEMMA WinNext == WinInv /\ [Win!Next]_winVars => WinInv'
<1> SUFFICES ASSUME WinInv, [Win!Next]_winVars PROVE WinInv'
  OBVIOUS
<1>0. \A t \in User : w_out[t] => win_pc[t] = "idle"
  BY DEF WinInv
<1>1. ASSUME NEW t \in User, Win!win_try_get(t) PROVE WinInv'
  <2>1. ~w_out[t] /\ t \notin InMalloc /\ win_pc[Destroyer] # "destroyed"
    BY <1>1 DEF Win!win_try_get, Win!Idle, InMalloc
  <2>2. Win!Recycle(t) \/ Win!Allocate(t, "try_malloc")
    BY <1>1 DEF Win!win_try_get
  <2> QED BY <2>1, <2>2, RecycleInv, AllocateInv
<1>2. ASSUME NEW t \in User, Win!win_wait_get(t) PROVE WinInv'
  <2>1. ~w_out[t] /\ t \notin InMalloc /\ win_pc[Destroyer] # "destroyed"
    BY <1>0, <1>2 DEF Win!win_wait_get, Win!Idle, InMalloc
  <2>2. \/ Win!Recycle(t) \/ Win!Allocate(t, "wait_malloc")
        \/ /\ w_free_list = 0 /\ win_pc' = [win_pc EXCEPT ![t] = "no_block"]
           /\ UNCHANGED <<w_total_blocks, w_in_use, allocators, w_free_list, w_out>>
    BY <1>2 DEF Win!win_wait_get
  <2> QED BY <2>1, <2>2, RecycleInv, AllocateInv, NoBlockInv
<1>3. ASSUME NEW t \in User, Win!MallocReturns(t) PROVE WinInv'
  <2>1. t \in InMalloc
    BY <1>3 DEF Win!MallocReturns, InMalloc
  <2>2. CASE Win!MallocFails(t)
    <3>1. CASE win_pc[t] = "try_malloc" /\ Win!WakeAll(t, "idle")
      BY <2>1, <2>2, <3>1, BackInv DEF Win!MallocFails
    <3>2. CASE win_pc' = [win_pc EXCEPT ![t] = "no_memory"]
      BY <2>1, <2>2, <3>2, AddedInv DEF Win!MallocFails
    <3> QED BY <2>2, <3>1, <3>2 DEF Win!MallocFails
  <2>3. CASE Win!Overrun(t)
    <3>1. CASE win_pc[t] = "wait_malloc" /\ w_free_list > 0
      BY <2>1, <2>3, <3>1, BackInv DEF Win!Overrun
    <3>2. CASE ~(win_pc[t] = "wait_malloc" /\ w_free_list > 0)
      <4>1. w_free_list \in Nat
        BY DEF WinInv, WinTypeOK
      <4>2. CASE win_pc[t] = "wait_malloc"
        BY <2>1, <2>3, <3>2, <4>1, <4>2, BackInv DEF Win!Overrun
      <4>3. CASE win_pc[t] # "wait_malloc"
        BY <2>1, <2>3, <3>2, <4>3, BackInv DEF Win!Overrun
      <4> QED BY <4>2, <4>3
    <3> QED BY <3>1, <3>2
  <2>4. CASE ~Win!AtCap /\ Win!Added(t)
    BY <2>1, <2>4, AddedInv DEF Win!Added
  <2> QED BY <1>3, <2>2, <2>3, <2>4 DEF Win!MallocReturns
<1>4. CASE UNCHANGED winVars
  <2>1. UNCHANGED <<w_total_blocks, w_in_use, allocators, w_free_list, win_pc, w_out>>
    BY <1>4 DEF winVars
  <2>2. InMalloc' = InMalloc /\ Win!Held' = Win!Held /\ Win!Woken' = Win!Woken
    BY <2>1 DEF InMalloc, Win!Held, Win!Woken
  <2> QED BY <2>1, <2>2 DEF WinInv, WinTypeOK, Win!WinBlocksAccounted, Win!WinNoLostWakeup
<1> QED BY <1>1, <1>2, <1>3, <1>4, PutInv, DestroyInv, SpuriousInv DEF Win!Next

-----------------------------------------------------------------------------
(* The objects together *)

MonInv == StateInv /\ CntInv /\ CondInv /\ WinInv

MonStep ==
    /\ [Win!Next]_winVars /\ [StateSync!Next]_stateVars
    /\ [CntSync!Next]_cntVars /\ [CondSync!Next]_condVars

LEMMA MonInductive == (MonitorsInit => MonInv) /\ (MonInv /\ MonStep => MonInv')
<1>1. MonitorsInit => MonInv
  BY StateInit, CntInit, CondInit, WinInit DEF MonitorsInit, MonInv
<1>2. MonInv /\ MonStep => MonInv'
  BY StateNext, CntNext, CondNext, WinNext DEF MonInv, MonStep
<1> QED BY <1>1, <1>2

LEMMA MonAlways == MonitorsSpec => []MonInv /\ [][StateSync!Next]_stateVars
BY MonInductive, PTL DEF MonitorsSpec, MonStep

(* No thread sleeps through what it waits for, for any number of threads:    *)
(* state_sync_set wakes all, cnt_sync_dec wakes the owner with the zero, a   *)
(* signal of cond_sync is always on its way to a thread, and the Windows     *)
(* pool has a thread awake for each free block at the cap.                   *)
THEOREM NobodySleepsThrough == MonitorsSpec => []NoneSleepsThrough
<1>1. MonInv => NoneSleepsThrough
  BY DEF MonInv, StateInv, CntInv, CondInv, WinInv, NoneSleepsThrough
<1> QED BY <1>1, MonAlways, PTL

(* After cnt_sync_destroy nobody is, or will be, inside a call on the        *)
(* counter, and after pool_destroy of the Windows pool nobody comes back     *)
(* from malloc; until then its cap holds and its counts are right.           *)
THEOREM NothingDestroyedIsUsed == MonitorsSpec => []DestroyedUnused
<1>1. MonInv => DestroyedUnused
  BY CntUse DEF MonInv, WinInv, DestroyedUnused
<1> QED BY <1>1, MonAlways, PTL

(* A timed wait of state_sync says ETIMEDOUT only when its timeout is over,  *)
(* for every length of a second, every timeout and every time it begins.     *)
THEOREM TimeoutsAreTruthful == MonitorsSpec => TimeoutTruthful
<1>1. MonInv /\ [StateSync!Next]_stateVars
        => [\A t \in Waiter :
               result[t] = "none" /\ result'[t] = "ETIMEDOUT"
                   => now >= due[t] /\ (call[t] = "wait_ms_abort" => ~StateSync!Released(call[t]))]_(StateSync!stateVars)
  BY TimeoutStep DEF MonInv
<1> QED BY <1>1, MonAlways, PTL DEF TimeoutTruthful, StateSync!TimeoutTruthful
=============================================================================
