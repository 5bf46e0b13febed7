-------------------------- MODULE PrimitivesProofs --------------------------
(***************************************************************************)
(* Proofs about Pool: for any cap and any number of threads, blocks are    *)
(* accounted for and kept apart, and no wake-up of pool_put is lost; and   *)
(* that the objects of Primitives are those of Pool, Monitors and LockFree *)
(* by themselves, so that what is proved of these holds of Primitives.     *)
(***************************************************************************)
EXTENDS Primitives, FiniteSetTheorems, TLAPS

USE PoolAssumption DEF PoolAssumption

PInv == PoolTypeOK /\ BlocksAccounted /\ BlocksApart /\ NoLostWakeup

(* The threads at a place of the code are counted by a natural number. *)
LEMMA CountType ==
    ASSUME NEW place
    PROVE  Cardinality(At(place)) \in Nat /\ IsFiniteSet(At(place))
<1>1. At(place) \subseteq Thread
  BY DEF At
<1>2. IsFiniteSet(At(place))
  BY <1>1, FS_Subset
<1> QED BY <1>2, FS_CardinalityType

LEMMA WokenCount == Cardinality(At("woken")) \in Nat
BY CountType

(* A thread that goes from one place to another is counted out and in. *)
LEMMA CountMoves ==
    ASSUME PoolTypeOK, NEW t \in Thread, NEW S, NEW to, Go(t, S, to), to \notin S
    PROVE  \E from \in S :
             /\ pc[t] = from
             /\ Cardinality(At(from)') = Cardinality(At(from)) - 1
             /\ Cardinality(At(from)) > 0
             /\ Cardinality(At(to)') = Cardinality(At(to)) + 1
             /\ \A p : p # from /\ p # to => At(p)' = At(p)
<1>0. PICK from \in S : pc[t] = from
  BY DEF Go
<1>1. pc'[t] = to /\ from # to /\ \A u \in Thread : u # t => pc'[u] = pc[u]
  BY <1>0 DEF Go, PoolTypeOK
<1>2. At(from)' = At(from) \ {t} /\ t \in At(from)
  BY <1>0, <1>1 DEF At
<1>3. At(to)' = At(to) \cup {t} /\ t \notin At(to)
  BY <1>0, <1>1 DEF At
<1>4. Cardinality(At(from)') = Cardinality(At(from)) - 1
  BY <1>2, CountType, FS_RemoveElement
<1>5. Cardinality(At(to)') = Cardinality(At(to)) + 1
  BY <1>3, CountType, FS_AddElement
<1>6. Cardinality(At(from)) > 0
  BY <1>2, CountType, FS_EmptySet
<1>7. \A p : p # from /\ p # to => At(p)' = At(p)
  BY <1>0, <1>1 DEF At
<1> QED BY <1>0, <1>4, <1>5, <1>6, <1>7

(* The held blocks are counted by a natural number. *)
LEMMA OutCount ==
    ASSUME PoolTypeOK
    PROVE  IsFiniteSet(out) /\ Cardinality(out) \in Nat
<1>1. IsFiniteSet(out)
  BY FS_Subset DEF PoolTypeOK
<1> QED BY <1>1, FS_CardinalityType

LEMMA PoolInit == pool_init => PInv
<1> SUFFICES ASSUME pool_init PROVE PInv
  OBVIOUS
<1>1. At("alloc") = {} /\ At("waiting") = {}
  BY DEF pool_init, At
<1>2. PoolTypeOK
  BY DEF pool_init, PoolTypeOK
<1>3. BlocksAccounted
  <2>1. Cardinality(At("alloc")) = 0 /\ Cardinality(out) = 0 /\ Len(free_list) = 0
    BY <1>1, FS_EmptySet DEF pool_init
  <2> QED BY <2>1 DEF BlocksAccounted, pool_init
<1>4. BlocksApart
  BY DEF BlocksApart, OnList, pool_init
<1>5. NoLostWakeup
  BY <1>1 DEF NoLostWakeup
<1> QED BY <1>2, <1>3, <1>4, <1>5 DEF PInv

-----------------------------------------------------------------------------

(* Recycle moves the top of the free list to its new holder. *)
LEMMA RecycleInv ==
    ASSUME PInv, NEW t \in Thread, NEW S \in {{"idle"}, {"idle", "woken"}}, Recycle(t, S)
    PROVE  PInv'
<1>1. /\ Head(free_list) \in Memory
      /\ Head(free_list) = free_list[1]
      /\ Len(free_list) \in Nat \ {0}
      /\ Tail(free_list) \in Seq(Memory)
      /\ Len(Tail(free_list)) = Len(free_list) - 1
      /\ \A i \in 1 .. Len(free_list) - 1 : Tail(free_list)[i] = free_list[i + 1]
  BY DEF Recycle, PInv, PoolTypeOK
<1>2. Head(free_list) \notin out
  BY <1>1 DEF PInv, BlocksApart, OnList
<1>3. Cardinality(out') = Cardinality(out) + 1
  BY <1>2, OutCount, FS_AddElement DEF PInv, Recycle
<1>4. /\ At("alloc")' = At("alloc")
      /\ At("waiting")' = At("waiting")
      /\ Cardinality(At("woken")') \in Nat
      /\ Cardinality(At("woken")') >= Cardinality(At("woken")) - 1
  <2>1. CASE pc[t] = "idle"
    <3>1. pc' = pc
      BY <2>1 DEF Recycle, Go, PInv, PoolTypeOK
    <3>2. \A p : At(p)' = At(p)
      BY <3>1 DEF At
    <3>3. Cardinality(At("woken")) \in Nat
      BY CountType
    <3> QED BY <3>2, <3>3
  <2>2. CASE pc[t] = "woken"
    <3>1. Go(t, {"woken"}, "idle")
      BY <2>2 DEF Recycle, Go
    <3>2. /\ Cardinality(At("woken")') = Cardinality(At("woken")) - 1
          /\ Cardinality(At("woken")) > 0
          /\ At("alloc")' = At("alloc")
          /\ At("waiting")' = At("waiting")
      BY <3>1, CountMoves DEF PInv
    <3>3. Cardinality(At("woken")) \in Nat
      BY CountType
    <3> QED BY <3>2, <3>3
  <2> QED BY <2>1, <2>2 DEF Recycle, Go
<1>5. PoolTypeOK'
  BY <1>1 DEF PInv, PoolTypeOK, Recycle, Go
<1>6. BlocksAccounted'
  BY <1>1, <1>3, <1>4, OutCount, CountType DEF PInv, PoolTypeOK, BlocksAccounted, Recycle
<1>7. BlocksApart'
  <2>1. free_list' = Tail(free_list) /\ Len(free_list') = Len(free_list) - 1
    BY <1>1 DEF Recycle
  <2>2. ASSUME NEW b \in out' PROVE ~OnList(b)'
    <3> SUFFICES ASSUME NEW i \in 1 .. Len(free_list) - 1, free_list[i + 1] = b PROVE FALSE
      BY <1>1, <2>1 DEF OnList
    <3>1. i + 1 \in 1 .. Len(free_list) /\ 1 \in 1 .. Len(free_list) /\ i + 1 # 1
      BY <1>1
    <3>2. CASE b \in out
      BY <3>1, <3>2 DEF PInv, BlocksApart, OnList
    <3>3. CASE b = free_list[1]
      BY <3>1, <3>3 DEF PInv, BlocksApart
    <3> QED BY <1>1, <2>2, <3>2, <3>3 DEF Recycle
  <2>3. ASSUME NEW i \in 1 .. Len(free_list'), NEW j \in 1 .. Len(free_list'),
               free_list'[i] = free_list'[j]
        PROVE  i = j
    <3>1. free_list[i + 1] = free_list[j + 1]
      BY <1>1, <2>1, <2>3
    <3>2. i + 1 = j + 1
      BY <1>1, <2>1, <3>1 DEF PInv, BlocksApart
    <3> QED BY <1>1, <2>1, <3>2
  <2> QED BY <2>2, <2>3 DEF BlocksApart
<1>8. NoLostWakeup'
  BY <1>1, <1>4, CountType DEF PInv, NoLostWakeup, Recycle
<1> QED BY <1>5, <1>6, <1>7, <1>8 DEF PInv

(* Reserve counts a block for the allocation to come. *)
LEMMA ReserveInv ==
    ASSUME PInv, NEW t \in Thread, NEW S \in {{"idle"}, {"idle", "woken"}}, Reserve(t, S)
    PROVE  PInv'
<1>1. Len(free_list) = 0 /\ free_list' = free_list /\ out' = out
  BY DEF Reserve
<1>2. PICK from \in S :
        /\ Cardinality(At("alloc")') = Cardinality(At("alloc")) + 1
        /\ \A p : p # from /\ p # "alloc" => At(p)' = At(p)
  BY CountMoves DEF PInv, Reserve
<1>3. PoolTypeOK'
  BY DEF PInv, PoolTypeOK, Reserve, Go
<1>4. BlocksAccounted'
  BY <1>1, <1>2, OutCount, CountType DEF PInv, PoolTypeOK, BlocksAccounted, Reserve, HasRoom
<1>5. BlocksApart'
  BY <1>1 DEF PInv, BlocksApart, OnList
<1>6. NoLostWakeup'
  <2>1. (Cardinality(At("woken")) \in Nat)'
    BY WokenCount, PTL
  <2> QED BY <1>1, <2>1 DEF NoLostWakeup
<1> QED BY <1>3, <1>4, <1>5, <1>6 DEF PInv

(* A caller goes to sleep only when nothing is free. *)
LEMMA WaitInv ==
    ASSUME PInv, NEW t \in Thread, Wait(t)
    PROVE  PInv'
<1>1. Len(free_list) = 0 /\ free_list' = free_list /\ out' = out
  BY DEF Wait
<1>2. At("alloc")' = At("alloc")
  BY CountMoves DEF PInv, Wait
<1>3. PoolTypeOK'
  BY DEF PInv, PoolTypeOK, Wait, Go
<1>4. BlocksAccounted'
  BY <1>1, <1>2 DEF PInv, BlocksAccounted, Wait
<1>5. BlocksApart'
  BY <1>1 DEF PInv, BlocksApart, OnList
<1>6. NoLostWakeup'
  <2>1. (Cardinality(At("woken")) \in Nat)'
    BY WokenCount, PTL
  <2> QED BY <1>1, <2>1 DEF NoLostWakeup
<1> QED BY <1>3, <1>4, <1>5, <1>6 DEF PInv

LEMMA AllocatedInv ==
    ASSUME PInv, NEW t \in Thread, Allocated(t)
    PROVE  PInv'
<1>1. PICK b \in Memory : b \notin out /\ ~OnList(b) /\ out' = out \cup {b}
  BY DEF Allocated
<1>2. free_list' = free_list
  BY DEF Allocated
<1>3. Cardinality(out') = Cardinality(out) + 1
  BY <1>1, OutCount, FS_AddElement DEF PInv
<1>4. /\ Cardinality(At("alloc")') = Cardinality(At("alloc")) - 1
      /\ Cardinality(At("alloc")) > 0
      /\ At("waiting")' = At("waiting")
      /\ At("woken")' = At("woken")
  BY CountMoves DEF PInv, Allocated
<1>5. PoolTypeOK'
  BY <1>1 DEF PInv, PoolTypeOK, Allocated, Go
<1>6. BlocksAccounted'
  BY <1>2, <1>3, <1>4, OutCount, CountType, SMTT(30) DEF PInv, PoolTypeOK, BlocksAccounted, Allocated
<1>7. BlocksApart'
  BY <1>1, <1>2 DEF PInv, BlocksApart, OnList
<1>8. NoLostWakeup'
  BY <1>2, <1>4 DEF PInv, NoLostWakeup
<1> QED BY <1>5, <1>6, <1>7, <1>8 DEF PInv

LEMMA AllocFailedInv ==
    ASSUME PInv, NEW t \in Thread, AllocFailed(t)
    PROVE  PInv'
<1>1. free_list' = free_list /\ out' = out
  BY DEF AllocFailed
<1>2. /\ Cardinality(At("alloc")') = Cardinality(At("alloc")) - 1
      /\ Cardinality(At("alloc")) > 0
      /\ At("waiting")' = At("waiting")
      /\ At("woken")' = At("woken")
  BY CountMoves DEF PInv, AllocFailed
<1>3. /\ total_blocks = Len(free_list) + Cardinality(out) + Cardinality(At("alloc"))
      /\ Len(free_list) \in Nat
      /\ Cardinality(out) \in Nat
      /\ Cardinality(At("alloc")) \in Nat
  BY OutCount, CountType DEF PInv, PoolTypeOK, BlocksAccounted
<1>4. PoolTypeOK'
  BY <1>2, <1>3 DEF PInv, PoolTypeOK, AllocFailed, Go
<1>5. BlocksAccounted'
  BY <1>1, <1>2, <1>3 DEF PInv, BlocksAccounted, AllocFailed
<1>6. BlocksApart'
  BY <1>1 DEF PInv, BlocksApart, OnList
<1>7. NoLostWakeup'
  BY <1>1, <1>2 DEF PInv, NoLostWakeup
<1> QED BY <1>4, <1>5, <1>6, <1>7 DEF PInv

(* A wake-up adds a woken caller, for the signal of pool_put and for none. *)
LEMMA WakeCounts ==
    ASSUME PoolTypeOK, NEW w \in Thread, Go(w, {"waiting"}, "woken")
    PROVE  /\ Cardinality(At("woken")') = Cardinality(At("woken")) + 1
           /\ At("alloc")' = At("alloc")
BY CountMoves

LEMMA SpuriousInv ==
    ASSUME PInv, NEW t \in Thread, SpuriousWakeup(t)
    PROVE  PInv'
<1>1. free_list' = free_list /\ out' = out
  BY DEF SpuriousWakeup
<1>2. /\ Cardinality(At("woken")') = Cardinality(At("woken")) + 1
      /\ At("alloc")' = At("alloc")
  BY WakeCounts DEF PInv, SpuriousWakeup
<1>3. At("waiting") # {}
  BY DEF SpuriousWakeup, Go, At
<1>4. PoolTypeOK'
  BY DEF PInv, PoolTypeOK, SpuriousWakeup, Go
<1>5. BlocksAccounted'
  BY <1>1, <1>2 DEF PInv, BlocksAccounted, SpuriousWakeup
<1>6. BlocksApart'
  BY <1>1 DEF PInv, BlocksApart, OnList
<1>7. NoLostWakeup'
  <2>1. Len(free_list) \in Nat /\ Cardinality(At("woken")) \in Nat
    BY CountType DEF PInv, PoolTypeOK
  <2> QED BY <1>1, <1>2, <1>3, <2>1 DEF PInv, NoLostWakeup
<1> QED BY <1>4, <1>5, <1>6, <1>7 DEF PInv

(* pool_put adds a free block, and with it a woken caller if one sleeps. *)
LEMMA PutInv ==
    ASSUME PInv, NEW b \in Memory, pool_put(b)
    PROVE  PInv'
<1>1. /\ b \in out /\ out' = out \ {b}
      /\ free_list' = <<b>> \o free_list
      /\ in_use' = in_use - 1 /\ total_blocks' = total_blocks
      /\ free_list \in Seq(Memory)
  BY DEF pool_put, PInv, PoolTypeOK
<1>2. /\ free_list' \in Seq(Memory)
      /\ Len(free_list') = Len(free_list) + 1
      /\ free_list'[1] = b
      /\ \A i \in 1 .. Len(free_list) : free_list'[i + 1] = free_list[i]
      /\ Len(free_list) \in Nat
  BY <1>1
<1>3. Cardinality(out') = Cardinality(out) - 1 /\ Cardinality(out) > 0
  <2>1. IsFiniteSet(out) /\ Cardinality(out) \in Nat
    BY OutCount DEF PInv
  <2>2. Cardinality(out \ {b}) = Cardinality(out) - 1
    BY <1>1, <2>1, FS_RemoveElement
  <2>3. Cardinality(out) # 0
    BY <1>1, <2>1, FS_EmptySet
  <2> QED BY <1>1, <2>1, <2>2, <2>3
<1>4. /\ At("alloc")' = At("alloc")
      /\ At("waiting")' # {} => /\ At("waiting") # {}
                                /\ Cardinality(At("woken")') = Cardinality(At("woken")) + 1
  <2>1. CASE \E w \in Thread : pc[w] = "waiting"
    <3>1. PICK w \in Thread : Go(w, {"waiting"}, "woken")
      BY <2>1 DEF pool_put, Signal
    <3>2. At("waiting") # {}
      BY <2>1 DEF At
    <3> QED BY <3>1, <3>2, WakeCounts DEF PInv
  <2>2. CASE ~\E w \in Thread : pc[w] = "waiting"
    BY <2>2 DEF pool_put, Signal, At
  <2> QED BY <2>1, <2>2
<1>5. PoolTypeOK'
  <2>1. pc' \in [Thread -> {"idle", "alloc", "waiting", "woken"}]
    BY DEF PInv, PoolTypeOK, pool_put, Signal, Go
  <2>2. in_use - 1 \in Nat
    BY <1>3, OutCount DEF PInv, PoolTypeOK, BlocksAccounted
  <2> QED BY <1>1, <1>2, <2>1, <2>2 DEF PInv, PoolTypeOK
<1>6. BlocksAccounted'
  <2>1. /\ total_blocks = Len(free_list) + Cardinality(out) + Cardinality(At("alloc"))
        /\ in_use = Cardinality(out)
        /\ Cap # 0 => total_blocks <= Cap
    BY DEF PInv, BlocksAccounted
  <2>2. Cardinality(out) \in Nat /\ Cardinality(At("alloc")) \in Nat
    BY OutCount, CountType DEF PInv
  <2>3. Cardinality(At("alloc")') = Cardinality(At("alloc"))
    BY <1>4
  <2>4. total_blocks' = Len(free_list') + Cardinality(out') + Cardinality(At("alloc")')
    <3>1. total_blocks' = total_blocks
      BY <1>1
    <3>2. Len(free_list') = Len(free_list) + 1 /\ Len(free_list) \in Nat
      BY <1>2
    <3> QED BY <3>1, <3>2, <1>3, <2>1, <2>2, <2>3
  <2> QED BY <1>1, <1>3, <2>1, <2>4 DEF BlocksAccounted
<1>7. BlocksApart'
  <2>0. ASSUME NEW i \in 1 .. Len(free_list')
        PROVE  i = 1 \/ (i - 1 \in 1 .. Len(free_list) /\ free_list'[i] = free_list[i - 1])
    <3>1. CASE i # 1
      <4>1. i - 1 \in 1 .. Len(free_list) /\ (i - 1) + 1 = i
        BY <1>2, <3>1
      <4> QED BY <1>2, <4>1
    <3> QED BY <3>1
  <2>1. ASSUME NEW c \in out' PROVE ~OnList(c)'
    <3> SUFFICES ASSUME NEW i \in 1 .. Len(free_list'), free_list'[i] = c PROVE FALSE
      BY DEF OnList
    <3>1. c \in out /\ c # b
      BY <1>1, <2>1
    <3>2. i # 1
      BY <1>2, <3>1
    <3> QED BY <2>0, <3>1, <3>2 DEF PInv, BlocksApart, OnList
  <2>2. ASSUME NEW i \in 1 .. Len(free_list'), NEW j \in 1 .. Len(free_list'),
               free_list'[i] = free_list'[j]
        PROVE  i = j
    <3>1. ~OnList(b)
      BY <1>1 DEF PInv, BlocksApart
    <3>2. CASE i = 1
      <4>1. j = 1
        BY <1>2, <2>0, <2>2, <3>1, <3>2 DEF OnList
      <4> QED BY <3>2, <4>1
    <3>3. CASE j = 1
      <4>1. i = 1
        BY <1>2, <2>0, <2>2, <3>1, <3>3 DEF OnList
      <4> QED BY <3>3, <4>1
    <3>4. CASE i # 1 /\ j # 1
      <4>1. free_list[i - 1] = free_list[j - 1]
            /\ i - 1 \in 1 .. Len(free_list) /\ j - 1 \in 1 .. Len(free_list)
        BY <2>0, <2>2, <3>4
      <4>2. i - 1 = j - 1
        BY <4>1 DEF PInv, BlocksApart
      <4> QED BY <1>2, <4>2
    <3> QED BY <3>2, <3>3, <3>4
  <2> QED BY <2>1, <2>2 DEF BlocksApart
<1>8. NoLostWakeup'
  <2>1. Cardinality(At("woken")) \in Nat
    BY CountType
  <2> QED BY <1>2, <1>4, <2>1 DEF PInv, NoLostWakeup
<1> QED BY <1>5, <1>6, <1>7, <1>8 DEF PInv

-----------------------------------------------------------------------------

LEMMA NextPInv == PInv /\ [Next]_vars => PInv'
<1> SUFFICES ASSUME PInv, [Next]_vars PROVE PInv'
  OBVIOUS
<1>1. CASE UNCHANGED vars
  BY <1>1 DEF vars, PInv, PoolTypeOK, BlocksAccounted, BlocksApart, NoLostWakeup, OnList, At
<1>2. ASSUME NEW t \in Thread, pool_try_get(t) PROVE PInv'
  BY <1>2, RecycleInv, ReserveInv DEF pool_try_get
<1>3. ASSUME NEW t \in Thread, pool_wait_get(t) PROVE PInv'
  BY <1>3, RecycleInv, ReserveInv, WaitInv DEF pool_wait_get
<1>4. ASSUME NEW t \in Thread, Allocated(t) \/ AllocFailed(t) \/ SpuriousWakeup(t) PROVE PInv'
  BY <1>4, AllocatedInv, AllocFailedInv, SpuriousInv
<1>5. ASSUME NEW b \in Memory, pool_put(b) PROVE PInv'
  BY <1>5, PutInv
<1> QED BY <1>1, <1>2, <1>3, <1>4, <1>5 DEF Next

LEMMA PoolInvariant == Spec => []PInv
BY PoolInit, NextPInv, PTL DEF Spec

(* The pool's variables keep their types: neither counter goes below zero,    *)
(* so the underflow branch of pool_put is dead code.                          *)
THEOREM PoolTypes == Spec => []PoolTypeOK
BY PoolInvariant, PTL DEF PInv

(* For any cap, any number of threads and any failures of aligned_alloc, the  *)
(* counters of the pool are exact and the cap is kept.                        *)
THEOREM BlocksAlwaysAccounted == Spec => []BlocksAccounted
BY PoolInvariant, PTL DEF PInv

(* The pool never hands a block to a second caller before it is put back.     *)
THEOREM BlocksAlwaysApart == Spec => []BlocksApart
BY PoolInvariant, PTL DEF PInv

(* The one signal of each pool_put is enough: a caller never sleeps beside    *)
(* more free blocks than there are callers already woken for them.            *)
THEOREM PutWakesWaiter == Spec => []NoLostWakeup
BY PoolInvariant, PTL DEF PInv

-----------------------------------------------------------------------------
(* The objects together *)

LEMMA OneObjectMoves ==
    ASSUME [PrimNext]_allVars
    PROVE  /\ [Next]_vars
           /\ [Win!Next]_winVars
           /\ [StateSync!Next]_stateVars
           /\ [CntSync!Next]_cntVars
           /\ [CondSync!Next]_condVars
           /\ [LfPool!Next]_lfpVars
           /\ [LfQueue!Next]_lfqVars
BY DEF PrimNext, Only, allVars

(* A behaviour of Primitives is one of the block pool, of the monitors and of *)
(* the lock-free objects: they share no state, so what one call of common/inc *)
(* does is a step of its object and a stutter of the others.                  *)
THEOREM ObjectsByThemselves ==
    PrimSpec => pool_init /\ [][Next]_vars /\ MonitorsSpec /\ LockFreeSpec
<1>1. PrimInit => pool_init /\ MonitorsInit /\ LockFreeInit
  BY DEF PrimInit
<1> QED BY <1>1, OneObjectMoves, PTL DEF PrimSpec, MonitorsSpec, LockFreeSpec
=============================================================================
